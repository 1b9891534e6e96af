------------------------- MODULE ComfyEngine_proofs -------------------------
(***************************************************************************)
(* Proofs about the engine lifecycle for any set of processes, producers,  *)
(* operations and faults, about the durable queue whose jobs a worker      *)
(* submits to the engine, and about the supervisor of the local stack.     *)
(***************************************************************************)
EXTENDS ComfyEngine, SubmissionQueue, Supervisor, TLAPS, FiniteSetTheorems

\* The fresh manager has the types of its fields.
LEMMA InitType == EngineConstants /\ Init => TypeOK
<1> SUFFICES ASSUME EngineConstants, Init PROVE TypeOK
  OBVIOUS
<1>1. pc \in [Task -> Label] /\ ahead \in [Task -> SUBSET Task] /\ phase \in Phases
  BY DEF Init, Label, Phases
<1>2. work \in [Proc -> 0 .. MaxWork]
  BY DEF Init, EngineConstants
<1>3. QED
  BY <1>1, <1>2 DEF Init, TypeOK

\* The helpers from which the actions are built keep the types.
LEMMA LeaveLockType ==
  ASSUME TypeOK, NEW t \in Task, LeaveLock(t)
  PROVE  ahead' \in [Task -> SUBSET Task] /\ gate' \in Client \cup Task \cup {Free}
  BY DEF TypeOK, LeaveLock

\* A task that returns leaves well-typed labels, lock queue and gate.
LEMMA EndTaskType ==
  ASSUME TypeOK, NEW t \in Task, EndTask(t)
  PROVE  /\ pc' \in [Task -> Label]
         /\ ahead' \in [Task -> SUBSET Task] /\ gate' \in Client \cup Task \cup {Free}
  BY LeaveLockType DEF TypeOK, EndTask, Label, Ended, Awaits

\* So does a task that ends in an exception, whoever it wakes or schedules.
LEMMA FailTaskType ==
  ASSUME TypeOK, NEW t \in Task, NEW ph \in Phases, FailTask(t, ph)
  PROVE  /\ pc' \in [Task -> Label] /\ phase' \in Phases /\ record' \in {"done", "open", "error"}
         /\ ahead' \in [Task -> SUBSET Task] /\ gate' \in Client \cup Task \cup {Free}
  BY LeaveLockType DEF TypeOK, FailTask, Label, Phases

\* The entry of _start_locked, in its three outcomes, keeps the types.
LEMMA BeginStartType ==
  ASSUME TypeOK, NEW t \in Task, BeginStart(t)
  PROVE  /\ pc' \in [Task -> Label] /\ phase' \in Phases /\ record' \in {"done", "open", "error"}
         /\ ahead' \in [Task -> SUBSET Task] /\ gate' \in Client \cup Task \cup {Free}
         /\ process' = NoProc /\ owner' \in {"none", "us", "other"}
<1>1. "failed" \in Phases
  BY DEF Phases
<1>2. CASE FailTask(t, "failed") /\ owner' = "other" /\ process' = NoProc
  BY <1>1, <1>2, FailTaskType DEF TypeOK
<1>3. CASE /\ EndTask(t) /\ phase' = "failed" /\ owner' = OwnerReleased /\ process' = NoProc
           /\ record' = IF t = "restart" THEN "error" ELSE record
  BY <1>1, <1>3, EndTaskType DEF TypeOK, OwnerReleased
<1>4. CASE /\ owner' = "us" /\ phase' = "starting" /\ Goto(t, "probePort") /\ process' = NoProc
           /\ UNCHANGED <<record, ahead, gate>>
  BY <1>4 DEF TypeOK, Phases, Goto, Label, InLock
<1>5. QED
  BY <1>2, <1>3, <1>4 DEF BeginStart

\* So does _start_locked up to its first await.
LEMMA StartLockedType ==
  ASSUME TypeOK, NEW t \in Task, StartLocked(t)
  PROVE  /\ pc' \in [Task -> Label] /\ phase' \in Phases /\ record' \in {"done", "open", "error"}
         /\ ahead' \in [Task -> SUBSET Task] /\ gate' \in Client \cup Task \cup {Free}
         /\ process' \in Proc \cup {NoProc} /\ owner' \in {"none", "us", "other"}
<1>1. CASE BeginStart(t)
  BY <1>1, BeginStartType
<1>2. CASE ~BeginStart(t)
  BY <1>2 DEF TypeOK, StartLocked, Goto, Label, InLock
<1>3. QED
  BY <1>1, <1>2

\* So does a cancellation, with and without the clean-up of a child.
LEMMA CancelTaskType ==
  ASSUME TypeOK, NEW c \in Task, NEW v \in {"startup", "recovery", "restart"}, CancelTask(c, v)
  PROVE  /\ pc' \in [Task -> Label] /\ phase' \in Phases
         /\ ahead' \in [Task -> SUBSET Task] /\ gate' \in Client \cup Task \cup {Free}
         /\ process' \in Proc \cup {NoProc} /\ owner' \in {"none", "us", "other"}
<1> Awaits(v) \in Label /\ Ended(v) \in Label
  BY DEF Awaits, Ended, Label
<1> "cancelStop" \in Label /\ "idle" \in Label /\ v \in Task
  BY DEF Label, InLock, Task
<1>1. pc' \in [Task -> Label]
  BY DEF TypeOK, CancelTask
<1>2. ahead' \in [Task -> SUBSET Task] /\ gate' \in Client \cup Task \cup {Free}
  BY LeaveLockType DEF TypeOK, CancelTask
<1>3. phase' \in Phases /\ process' \in Proc \cup {NoProc} /\ owner' \in {"none", "us", "other"}
  BY DEF TypeOK, CancelTask, Phases, OwnerReleased
<1>4. QED
  BY <1>1, <1>2, <1>3

\* So does joining the queue of the lock.
LEMMA EnterLockType ==
  ASSUME TypeOK, NEW c \in Task, EnterLock(c)
  PROVE  /\ pc' \in [Task -> Label] /\ phase' \in Phases
         /\ ahead' \in [Task -> SUBSET Task] /\ gate' \in Client \cup Task \cup {Free}
         /\ process' \in Proc \cup {NoProc} /\ owner' \in {"none", "us", "other"}
  BY DEF TypeOK, EnterLock, JoinLock, Goto, Label, Contenders

\* So does the chain of cancellations before a stop.
LEMMA CancelStartupType ==
  ASSUME TypeOK, NEW c \in Task, CancelStartup(c) \/ CancelRecovery(c) \/ AfterRecovery(c)
  PROVE  /\ pc' \in [Task -> Label] /\ phase' \in Phases
         /\ ahead' \in [Task -> SUBSET Task] /\ gate' \in Client \cup Task \cup {Free}
         /\ process' \in Proc \cup {NoProc} /\ owner' \in {"none", "us", "other"}
         /\ watched' \subseteq Proc
<1>1. /\ \/ EnterLock(c)
         \/ \E v \in {"startup", "recovery", "restart"} : CancelTask(c, v)
      /\ watched' \subseteq watched
  BY DEF CancelStartup, CancelRecovery, AfterRecovery, CancelRestart, Task
<1>2. QED
  BY <1>1, EnterLockType, CancelTaskType DEF TypeOK

\* So does what follows the end of the child.
LEMMA AfterStopType ==
  ASSUME TypeOK, NEW t \in Task, AfterStop(t)
  PROVE  /\ pc' \in [Task -> Label] /\ phase' \in Phases /\ record' \in {"done", "open", "error"}
         /\ ahead' \in [Task -> SUBSET Task] /\ gate' \in Client \cup Task \cup {Free}
         /\ process' = NoProc /\ owner' \in {"none", "us", "other"}
<1>1. CASE BeginStart(t)
  BY <1>1, BeginStartType
<1>2. CASE FailTask(t, phase) /\ process' = NoProc /\ owner' = OwnerReleased
  BY <1>2, FailTaskType DEF TypeOK, OwnerReleased
<1>3. CASE EndTask(t) /\ process' = NoProc /\ owner' = OwnerReleased /\ phase' = "stopped"
           /\ UNCHANGED record
  BY <1>3, EndTaskType DEF TypeOK, OwnerReleased, Phases
<1>4. QED
  BY <1>1, <1>2, <1>3 DEF AfterStop

\* A process that stops serving leaves a well-typed account of prompts.
LEMMA ServiceGoneType ==
  ASSUME EngineConstants, TypeOK, NEW p, ServiceGone(p), alive' = alive \ {p} \/ alive' = alive
  PROVE  /\ alive' \subseteq Proc /\ ready' \subseteq alive' /\ stray' \subseteq Proc
         /\ work' \in [Proc -> 0 .. MaxWork]
  BY DEF EngineConstants, TypeOK, ServiceGone

\* Every step keeps the types.
LEMMA NextType ==
  ASSUME EngineConstants, TypeOK, [Next]_vars
  PROVE  TypeOK'
<1> USE DEF vars, manager, tasks, os, prompts
<1>1. ASSUME NEW t \in Task, ProbeLive(t)
      PROVE  TypeOK'
  BY <1>1, FailTaskType, EndTaskType DEF TypeOK, ProbeLive, SucceedTask, Phases
<1>2. ASSUME NEW t \in Task, Launch(t)
      PROVE  TypeOK'
  BY <1>2, EngineConstants DEF TypeOK, Launch, Goto, Label, InLock
<1>3. ASSUME NEW t \in Task, PortConflict(t)
      PROVE  TypeOK'
  BY <1>3, FailTaskType DEF TypeOK, PortConflict, OwnerReleased, Phases
<1>4. ASSUME NEW t \in Task, ReadyObserved(t)
      PROVE  TypeOK'
  BY <1>4, EndTaskType DEF TypeOK, ReadyObserved, SucceedTask, Phases
<1>5. ASSUME NEW t \in Task, StartFails(t)
      PROVE  TypeOK'
  BY <1>5, FailTaskType DEF TypeOK, StartFails, OwnerReleased, Phases, Goto, Label, InLock
<1>6. ASSUME NEW t \in Task, Terminated(t)
      PROVE  TypeOK'
  BY <1>6, AfterStopType, ServiceGoneType DEF TypeOK, Terminated
<1>7. ASSUME NEW t \in Task, TakeGate(t)
      PROVE  TypeOK'
  BY <1>7 DEF TypeOK, TakeGate, Goto, Label, InLock
<1>8. ASSUME NEW t \in Task, IdleCheckRefuses(t)
      PROVE  TypeOK'
  BY <1>8, FailTaskType DEF TypeOK, IdleCheckRefuses
<1>9. ASSUME NEW t \in Task, IdleCheckPasses(t)
      PROVE  TypeOK'
  BY <1>9, EndTaskType, BeginStartType DEF TypeOK, IdleCheckPasses, OwnerReleased, Phases, Goto, Label, InLock
<1>10. ASSUME NEW t \in Task, CancelAwaited(t)
      PROVE  TypeOK'
  BY <1>10, CancelStartupType, EnterLockType DEF TypeOK, CancelAwaited
<1>11. ASSUME NEW t \in Task, DrainLocked(t)
      PROVE  TypeOK'
  BY <1>11 DEF TypeOK, DrainLocked, Goto, Label, InLock
<1>12. ASSUME StartInBackground
      PROVE  TypeOK'
  BY <1>12 DEF TypeOK, StartInBackground, Goto, Label
<1>13. ASSUME StartupBegins
      PROVE  TypeOK'
  BY <1>13 DEF TypeOK, StartupBegins, JoinLock, Contenders, Goto, Label
<1>14. ASSUME StartupLocked
      PROVE  TypeOK'
  BY <1>14, StartLockedType DEF TypeOK, StartupLocked, Task
<1>15. ASSUME RecoveryBegins
      PROVE  TypeOK'
  BY <1>15 DEF TypeOK, RecoveryBegins, Goto, Label, Phases
<1>16. ASSUME RecoveryWakes
      PROVE  TypeOK'
  BY <1>16 DEF TypeOK, RecoveryWakes, JoinLock, Contenders, Goto, Label
<1>17. ASSUME RecoveryLocked
      PROVE  TypeOK'
  BY <1>17, StartLockedType, EndTaskType DEF TypeOK, RecoveryLocked, Task
<1>18. ASSUME ScheduleRestart
      PROVE  TypeOK'
  BY <1>18 DEF TypeOK, ScheduleRestart, Goto, Label
<1>19. ASSUME RestartBegins
      PROVE  TypeOK'
  BY <1>19, CancelStartupType DEF TypeOK, RestartBegins, Task
<1>20. ASSUME StopRequest
      PROVE  TypeOK'
  BY <1>20, CancelStartupType DEF TypeOK, StopRequest, Task
<1>21. ASSUME Shutdown
      PROVE  TypeOK'
  BY <1>21, CancelStartupType DEF TypeOK, Shutdown, Task
<1>22. ASSUME LoopCancels
      PROVE  TypeOK'
  BY <1>22, CancelTaskType DEF TypeOK, LoopCancels, Task
<1>23. ASSUME Reboot
      PROVE  TypeOK'
  BY <1>23, ServiceGoneType DEF TypeOK, Reboot, OwnerReleased, Phases, Label
<1>24. ASSUME NEW p \in Proc, Monitor(p)
      PROVE  TypeOK'
  BY <1>24 DEF TypeOK, Monitor, OwnerReleased, Phases, Goto, Label
<1>25. ASSUME StatusBegins
      PROVE  TypeOK'
  BY <1>25 DEF TypeOK, StatusBegins
<1>26. ASSUME StatusEnds
      PROVE  TypeOK'
  BY <1>26 DEF TypeOK, StatusEnds, Phases
<1>27. ASSUME NEW c \in Client, TakeSubmissionGate(c)
      PROVE  TypeOK'
  BY <1>27 DEF TypeOK, TakeSubmissionGate
<1>28. ASSUME NEW c \in Client, Answer(c)
      PROVE  TypeOK'
  <2>1. CASE PromptAccepted(c)
    <3>1. PICK p \in ready : work[p] < MaxWork /\ work' = [work EXCEPT ![p] = @ + 1]
      BY <2>1 DEF PromptAccepted
    <3>2. p \in Proc /\ work[p] + 1 \in 0 .. MaxWork
      BY <3>1, EngineConstants DEF TypeOK
    <3>3. work' \in [Proc -> 0 .. MaxWork]
      BY <3>1, <3>2 DEF TypeOK
    <3>4. QED
      BY <2>1, <3>3 DEF TypeOK, PromptAccepted, EndPost
  <2>2. CASE PromptFails(c) \/ PromptTimesOut(c)
    BY <2>2 DEF TypeOK, EndPost, PromptFails, PromptTimesOut
  <2>3. QED
    BY <1>28, <2>1, <2>2 DEF Answer
<1>29. ASSUME LateArrives \/ LateLost
      PROVE  TypeOK'
  BY <1>29 DEF TypeOK, LateArrives, LateLost
<1>30. ASSUME NEW p \in Proc, BecomeReady(p)
      PROVE  TypeOK'
  BY <1>30 DEF TypeOK, BecomeReady
<1>31. ASSUME NEW p \in Proc, Exit(p)
      PROVE  TypeOK'
  BY <1>31, ServiceGoneType DEF TypeOK, Exit
<1>32. ASSUME NEW p \in Proc, Wedge(p)
      PROVE  TypeOK'
  BY <1>32 DEF TypeOK, Wedge
<1>33. ASSUME NEW p \in Proc, FinishPrompt(p)
      PROVE  TypeOK'
  BY <1>33, EngineConstants DEF TypeOK, FinishPrompt
<1>34. ASSUME Rival
      PROVE  TypeOK'
  BY <1>34 DEF TypeOK, Rival
<1>35. ASSUME UNCHANGED vars
      PROVE  TypeOK'
  BY <1>35 DEF TypeOK
<1>36. QED
  BY <1>1, <1>2, <1>3, <1>4, <1>5, <1>6, <1>7, <1>8, <1>9, <1>10, <1>11, <1>12, <1>13, <1>14, <1>15, <1>16, <1>17, <1>18, <1>19, <1>20, <1>21, <1>22, <1>23, <1>24, <1>25, <1>26, <1>27, <1>28, <1>29, <1>30, <1>31, <1>32, <1>33, <1>34, <1>35
     DEF Next, Run, Requests

\* Whatever is called and whatever fails, the manager's fields, the tasks, the engine
\* processes and the gate keep their types: work within its bound, ready within alive.
THEOREM TypeCorrect == Spec => []TypeOK
<1>1. TypeOK /\ [Next]_vars => TypeOK'
  BY NextType, EngineConstants
<1>2. QED
  BY <1>1, InitType, EngineConstants, PTL DEF Spec
-----------------------------------------------------------------------------
(***************************************************************************)
(* The lifecycle lock.  LockExclusive is not inductive: it needs that the  *)
(* holder has nobody ahead of it and that of two contenders one is always  *)
(* queued behind the other.                                                *)
(***************************************************************************)
Contending  == InLock \cup {"waitLock"}
HolderFirst == \A t \in Task : pc[t] \in InLock => ahead[t] = {}
Queued      == \A t, u \in Contenders : t # u => t \in ahead[u] \/ u \in ahead[t]
LockInv     == HolderFirst /\ Queued

\* Who is past the lock, or next to pass it.
Holds(t) == pc[t] \in InLock \/ Granted(t)

\* At most one task holds the lock or can be granted it.
LEMMA OneHolder ==
  ASSUME LockInv, NEW t \in Task, NEW u \in Task, Holds(t), Holds(u)
  PROVE  t = u
  BY DEF LockInv, HolderFirst, Queued, Contenders, Holds, Granted

\* A task that leaves the lock, or gives up waiting for it, keeps the queue in order.
LEMMA LeavesLock ==
  ASSUME TypeOK, LockInv, NEW t \in Task, LeaveLock(t), pc'[t] \notin Contending,
         \A u \in Task \ {t} : pc'[u] \in Contending => pc'[u] = pc[u]
  PROVE  LockInv'
  BY DEF TypeOK, LockInv, HolderFirst, Queued, Contenders, Contending, LeaveLock

\* So does a holder that goes on inside the lock, and a step outside of it.
LEMMA KeepsLock ==
  ASSUME TypeOK, LockInv, NEW t \in Task, UNCHANGED ahead, Holds(t) \/ pc'[t] \notin Contending,
         \A u \in Task \ {t} : pc'[u] \in Contending => pc'[u] = pc[u]
  PROVE  LockInv'
  BY DEF TypeOK, LockInv, HolderFirst, Queued, Contenders, Contending, Holds, Granted

\* So does a task that queues up behind all the others.
LEMMA JoinsLock ==
  ASSUME TypeOK, LockInv, NEW t \in Task, JoinLock(t)
  PROVE  LockInv'
  BY DEF TypeOK, LockInv, HolderFirst, Queued, Contenders, JoinLock, Goto, InLock

\* A task that returns keeps the queue in order ...
LEMMA EndTaskLock ==
  ASSUME TypeOK, LockInv, NEW t \in Task, EndTask(t)
  PROVE  LockInv'
<1>1. pc'[t] \notin Contending /\ \A u \in Task \ {t} : pc'[u] \in Contending => pc'[u] = pc[u]
  BY DEF TypeOK, EndTask, Ended, Contending, InLock
<1>2. QED
  BY <1>1, LeavesLock DEF EndTask

\* ... and one that fails, also when it schedules the recovery ...
LEMMA FailTaskLock ==
  ASSUME TypeOK, LockInv, NEW t \in Task, NEW ph, FailTask(t, ph)
  PROVE  LockInv'
<1>1. pc'[t] \notin Contending /\ \A u \in Task \ {t} : pc'[u] \in Contending => pc'[u] = pc[u]
  BY DEF TypeOK, FailTask, Contending, InLock
<1>2. QED
  BY <1>1, LeavesLock DEF FailTask

\* ... and one that goes on inside the lock.
LEMMA GotoLock ==
  ASSUME TypeOK, LockInv, NEW t \in Task, NEW l, Goto(t, l), UNCHANGED ahead,
         Holds(t) \/ l \notin Contending
  PROVE  LockInv'
<1>1. pc'[t] = l /\ \A u \in Task \ {t} : pc'[u] = pc[u]
  BY DEF TypeOK, Goto
<1>2. QED
  BY <1>1, KeepsLock

\* A start that fails at its entry leaves the lock, another keeps it.
LEMMA BeginStartLock ==
  ASSUME TypeOK, LockInv, NEW t \in Task, Holds(t), BeginStart(t)
  PROVE  LockInv'
  BY EndTaskLock, FailTaskLock, GotoLock DEF BeginStart

\* The same for _start_locked.
LEMMA StartLockedLock ==
  ASSUME TypeOK, LockInv, NEW t \in Task, Holds(t), StartLocked(t)
  PROVE  LockInv'
  BY BeginStartLock, GotoLock DEF StartLocked

\* The same for what follows the end of the child.
LEMMA AfterStopLock ==
  ASSUME TypeOK, LockInv, NEW t \in Task, Holds(t), AfterStop(t)
  PROVE  LockInv'
  BY BeginStartLock, EndTaskLock, FailTaskLock DEF AfterStop

\* Cancelling a task that waits for the lock or holds it keeps the queue in order.
LEMMA CancelTaskLock ==
  ASSUME TypeOK, LockInv, NEW c \in Task, NEW v \in {"startup", "recovery", "restart"},
         CancelTask(c, v)
  PROVE  LockInv'
<1>1. v \in Task /\ Awaits(v) \notin Contending /\ Ended(v) \notin Contending
  BY DEF Task, Awaits, Ended, Contending, InLock
<1>2. \A u \in Task \ {v} : pc'[u] \in Contending => pc'[u] = pc[u]
  BY <1>1 DEF TypeOK, CancelTask
<1>3. CASE pc[v] \in {"probePort", "waitReady"} /\ process \in alive
  <2>1. Holds(v) /\ UNCHANGED ahead
    BY <1>3 DEF CancelTask, Holds, InLock
  <2>2. QED
    BY <1>1, <1>2, <2>1, KeepsLock
<1>4. CASE ~(pc[v] \in {"probePort", "waitReady"} /\ process \in alive)
  <2>1. pc'[v] \notin Contending /\ LeaveLock(v)
    BY <1>1, <1>4 DEF TypeOK, CancelTask, Contending, InLock
  <2>2. QED
    BY <1>1, <1>2, <2>1, LeavesLock
<1>5. QED
  BY <1>3, <1>4

\* A canceller either cancels a background task or goes to queue for the lock.
LEMMA Cancels ==
  ASSUME NEW c, CancelStartup(c) \/ CancelRecovery(c) \/ AfterRecovery(c)
  PROVE  EnterLock(c) \/ \E v \in {"startup", "recovery", "restart"} : CancelTask(c, v)
  BY DEF CancelStartup, CancelRecovery, AfterRecovery, CancelRestart

\* The chain of cancellations before a stop keeps the queue in order.
LEMMA CancelsLock ==
  ASSUME TypeOK, LockInv, NEW c \in Task,
         EnterLock(c) \/ \E v \in {"startup", "recovery", "restart"} : CancelTask(c, v)
  PROVE  LockInv'
  BY CancelTaskLock, JoinsLock DEF EnterLock

\* Every step keeps the queue of the lock in order.
LEMMA LockStep ==
  ASSUME TypeOK, LockInv, [Next]_vars
  PROVE  LockInv'
<1> USE DEF vars, manager, tasks, os, prompts
<1>1. ASSUME NEW t \in Task, ProbeLive(t)
      PROVE  LockInv'
  BY <1>1, FailTaskLock, EndTaskLock DEF ProbeLive, SucceedTask
<1>2. ASSUME NEW t \in Task, Launch(t)
      PROVE  LockInv'
  BY <1>2, GotoLock DEF Launch, Holds, InLock
<1>3. ASSUME NEW t \in Task, PortConflict(t)
      PROVE  LockInv'
  BY <1>3, FailTaskLock DEF PortConflict
<1>4. ASSUME NEW t \in Task, ReadyObserved(t)
      PROVE  LockInv'
  BY <1>4, EndTaskLock DEF ReadyObserved, SucceedTask
<1>5. ASSUME NEW t \in Task, StartFails(t)
      PROVE  LockInv'
  <2>1. Holds(t)
    BY <1>5 DEF StartFails, Holds, InLock
  <2>2. QED
    BY <1>5, <2>1, FailTaskLock, GotoLock DEF StartFails
<1>6. ASSUME NEW t \in Task, Terminated(t)
      PROVE  LockInv'
  BY <1>6, AfterStopLock DEF Terminated, Stopping, Holds, InLock
<1>7. ASSUME NEW t \in Task, TakeGate(t)
      PROVE  LockInv'
  BY <1>7, GotoLock DEF TakeGate, Holds, InLock
<1>8. ASSUME NEW t \in Task, IdleCheckRefuses(t)
      PROVE  LockInv'
  BY <1>8, FailTaskLock DEF IdleCheckRefuses
<1>9. ASSUME NEW t \in Task, IdleCheckPasses(t)
      PROVE  LockInv'
  <2>1. Holds(t)
    BY <1>9 DEF IdleCheckPasses, Holds, InLock
  <2>2. QED
    BY <1>9, <2>1, GotoLock, EndTaskLock, BeginStartLock DEF IdleCheckPasses
<1>10. ASSUME NEW t \in Task, CancelAwaited(t)
      PROVE  LockInv'
  BY <1>10, Cancels, CancelsLock DEF CancelAwaited
<1>11. ASSUME NEW t \in Task, DrainLocked(t)
      PROVE  LockInv'
  BY <1>11, GotoLock DEF DrainLocked, Holds
<1>12. ASSUME StartInBackground
      PROVE  LockInv'
  <2>1. UNCHANGED ahead /\ (UNCHANGED pc \/ Goto("startup", "new"))
    BY <1>12 DEF StartInBackground
  <2>2. QED
    BY <2>1, GotoLock DEF LockInv, HolderFirst, Queued, Contenders, Contending, InLock, Task
<1>13. ASSUME StartupBegins \/ RecoveryWakes
      PROVE  LockInv'
  BY <1>13, JoinsLock, GotoLock DEF StartupBegins, RecoveryWakes, Task, Contending, InLock
<1>14. ASSUME StartupLocked \/ RecoveryLocked
      PROVE  LockInv'
  BY <1>14, StartLockedLock, EndTaskLock DEF StartupLocked, RecoveryLocked, Task, Holds
<1>15. ASSUME RecoveryBegins \/ ScheduleRestart
      PROVE  LockInv'
  BY <1>15, GotoLock DEF RecoveryBegins, ScheduleRestart, Task, Contending, InLock
<1>16. ASSUME RestartBegins
      PROVE  LockInv'
  BY <1>16, Cancels, CancelsLock DEF RestartBegins, Task
<1>17. ASSUME StopRequest
      PROVE  LockInv'
  BY <1>17, Cancels, CancelsLock DEF StopRequest, Task
<1>18. ASSUME Shutdown
      PROVE  LockInv'
  BY <1>18, Cancels, CancelsLock DEF Shutdown, Task
<1>19. ASSUME LoopCancels
      PROVE  LockInv'
  BY <1>19, CancelTaskLock DEF LoopCancels, Task
<1>20. ASSUME Reboot
      PROVE  LockInv'
  BY <1>20 DEF Reboot, LockInv, HolderFirst, Queued, Contenders, InLock
<1>21. ASSUME NEW p \in Proc, Monitor(p)
      PROVE  LockInv'
  <2>1. UNCHANGED ahead /\ (UNCHANGED pc \/ Goto("recovery", "new"))
    BY <1>21 DEF Monitor
  <2>2. QED
    BY <2>1, GotoLock DEF LockInv, HolderFirst, Queued, Contenders, Contending, InLock, Task
<1>22. ASSUME UNCHANGED <<pc, ahead>>
      PROVE  LockInv'
  BY <1>22 DEF LockInv, HolderFirst, Queued, Contenders
<1>23. ASSUME \/ StatusBegins \/ StatusEnds \/ LateArrives \/ LateLost \/ Rival
              \/ \E p \in Proc : BecomeReady(p) \/ Exit(p) \/ Wedge(p) \/ FinishPrompt(p)
              \/ \E c \in Client : TakeSubmissionGate(c) \/ Answer(c)
      PROVE  UNCHANGED <<pc, ahead>>
  BY <1>23 DEF StatusBegins, StatusEnds, LateArrives, LateLost, Rival, BecomeReady, Exit, Wedge,
       FinishPrompt, TakeSubmissionGate, Answer, PromptAccepted, PromptFails, PromptTimesOut
<1>24. QED
  BY <1>1, <1>2, <1>3, <1>4, <1>5, <1>6, <1>7, <1>8, <1>9, <1>10, <1>11, <1>12, <1>13, <1>14,
     <1>15, <1>16, <1>17, <1>18, <1>19, <1>20, <1>21, <1>22, <1>23 DEF Next, Run, Requests

\* In every order of stops, restarts, recoveries, start-ups and cancellations the
\* lifecycle lock admits one task at a time.
THEOREM LifecycleLockExclusive == Spec => []LockExclusive
<1>1. Init => LockInv
  BY DEF Init, LockInv, HolderFirst, Queued, Contenders, InLock
<1>2. TypeOK /\ LockInv /\ [Next]_vars => LockInv'
  BY LockStep
<1>3. LockInv => LockExclusive
  BY OneHolder DEF LockExclusive, Holds
<1>4. QED
  BY <1>1, <1>2, <1>3, TypeCorrect, PTL DEF Spec
-----------------------------------------------------------------------------
(***************************************************************************)
(* The child and the owner lock.  OwnerCoversEngine and NoOrphanEngine     *)
(* need to know where a start stands: before the launch there is no child, *)
(* and from the entry to the end of the readiness poll the lock is ours.   *)
(***************************************************************************)
Starting   == {"probePort", "waitReady"}
StartOwned ==
  \A t \in Task : /\ pc[t] \in Starting => owner = "us"
                  /\ pc[t] = "probePort" => process = NoProc
ChildInv   == NoOrphanEngine /\ OwnerCoversEngine /\ StartOwned

\* While a task holds the lock nobody else is inside a start.
LEMMA NobodyStarts ==
  ASSUME LockInv, NEW t \in Task, Holds(t), NEW u \in Task, u # t
  PROVE  pc[u] \notin Starting
  BY OneHolder DEF Holds, Starting, InLock

\* A step that keeps the child and the owner lock and begins no start is harmless.
LEMMA SteadyChild ==
  ASSUME ChildInv, UNCHANGED <<process, owner>>, alive' \subseteq alive, UNCHANGED abandoned,
         \A u \in Task : pc'[u] \in Starting => pc'[u] = pc[u]
  PROVE  ChildInv'
<1>1. NoOrphanEngine' /\ OwnerCoversEngine'
  BY DEF ChildInv, NoOrphanEngine, OwnerCoversEngine
<1>2. StartOwned'
  BY DEF ChildInv, StartOwned, Starting
<1>3. QED
  BY <1>1, <1>2 DEF ChildInv

\* Dropping the handle is harmless once no start is under way and its child is gone
\* or recorded as abandoned.
LEMMA DropChild ==
  ASSUME EngineConstants, process' = NoProc, alive' \subseteq abandoned', alive' \subseteq Proc,
         \A u \in Task : pc'[u] \notin Starting
  PROVE  ChildInv'
  BY DEF EngineConstants, ChildInv, NoOrphanEngine, OwnerCoversEngine, StartOwned, Starting

\* What the ends of a task do to the program counters.
LEMMA EndTaskPc ==
  ASSUME TypeOK, NEW t \in Task, EndTask(t)
  PROVE  pc'[t] \notin InLock /\ \A u \in Task \ {t} : pc'[u] \in InLock => pc'[u] = pc[u]
  BY DEF TypeOK, EndTask, Ended, InLock

\* A failing task is outside of the lock afterwards, and no other task enters it.
LEMMA FailTaskPc ==
  ASSUME TypeOK, NEW t \in Task, NEW ph, FailTask(t, ph)
  PROVE  pc'[t] \notin InLock /\ \A u \in Task \ {t} : pc'[u] \in InLock => pc'[u] = pc[u]
  BY DEF TypeOK, FailTask, InLock

\* A task that goes on changes nobody else's label.
LEMMA GotoPc ==
  ASSUME TypeOK, NEW t \in Task, NEW l, Goto(t, l)
  PROVE  pc'[t] = l /\ \A u \in Task \ {t} : pc'[u] = pc[u]
  BY DEF TypeOK, Goto

\* A cancelled task is outside of the lock or cleaning up its child.
LEMMA CancelTaskPc ==
  ASSUME TypeOK, NEW c \in Task, NEW v \in {"startup", "recovery", "restart"}, CancelTask(c, v)
  PROVE  /\ pc'[v] = "idle" \/ (pc'[v] = "cancelStop" /\ pc[v] \in Starting /\ process \in alive)
         /\ \A u \in Task \ {v} : pc'[u] \in InLock => pc'[u] = pc[u]
<1>1. v \in Task /\ Awaits(v) \notin InLock /\ Ended(v) \notin InLock
  BY DEF Task, Awaits, Ended, InLock
<1>2. QED
  BY <1>1 DEF TypeOK, CancelTask, Starting

\* The entry of a start, with no child left, keeps the child accounted for.
LEMMA BeginStartChild ==
  ASSUME EngineConstants, TypeOK, LockInv, NEW t \in Task, Holds(t), BeginStart(t),
         alive' \subseteq abandoned', alive' \subseteq Proc
  PROVE  ChildInv'
<1>1. process' = NoProc /\ \A u \in Task \ {t} : pc[u] \notin Starting
  BY NobodyStarts DEF BeginStart
<1>2. CASE EndTask(t) \/ FailTask(t, "failed")
  BY <1>1, <1>2, EndTaskPc, FailTaskPc, DropChild DEF Starting, InLock
<1>3. CASE owner' = "us" /\ Goto(t, "probePort")
  BY <1>1, <1>3, GotoPc DEF EngineConstants, ChildInv, NoOrphanEngine, OwnerCoversEngine,
     StartOwned, Starting
<1>4. QED
  BY <1>2, <1>3 DEF BeginStart

\* So does _start_locked, which only drops a dead handle.
LEMMA StartLockedChild ==
  ASSUME EngineConstants, TypeOK, LockInv, ChildInv, NEW t \in Task, Granted(t), StartLocked(t),
         UNCHANGED <<alive, abandoned>>
  PROVE  ChildInv'
<1>1. CASE process \in alive
  <2>1. UNCHANGED <<process, owner>> /\ Goto(t, "probeLive")
    BY <1>1 DEF StartLocked
  <2>2. QED
    BY <2>1, GotoPc, SteadyChild DEF Starting
<1>2. CASE process \notin alive
  BY <1>2, BeginStartChild DEF StartLocked, Holds, TypeOK, ChildInv, NoOrphanEngine
<1>3. QED
  BY <1>1, <1>2

\* So does a cancellation: the child of a cancelled start is first stopped.
LEMMA CancelTaskChild ==
  ASSUME EngineConstants, TypeOK, LockInv, ChildInv, NEW c \in Task,
         NEW v \in {"startup", "recovery", "restart"}, CancelTask(c, v),
         UNCHANGED <<alive, abandoned>>
  PROVE  ChildInv'
<1>1. v \in Task
  BY DEF Task
<1>2. CASE pc[v] \in Starting /\ process \notin alive
  <2>1. Holds(v) /\ process' = NoProc
    BY <1>2 DEF CancelTask, Holds, Starting, InLock
  <2>2. \A u \in Task : pc'[u] \notin Starting
    BY <1>1, <1>2, <2>1, NobodyStarts, CancelTaskPc DEF Starting, InLock
  <2>3. QED
    BY <1>2, <2>1, <2>2, DropChild DEF TypeOK, ChildInv, NoOrphanEngine
<1>3. CASE ~(pc[v] \in Starting /\ process \notin alive)
  <2>1. UNCHANGED <<process, owner>>
    BY <1>3 DEF CancelTask, Starting
  <2>2. \A u \in Task : pc'[u] \in Starting => pc'[u] = pc[u]
    BY <1>1, CancelTaskPc DEF Starting, InLock
  <2>3. QED
    BY <2>1, <2>2, SteadyChild
<1>4. QED
  BY <1>2, <1>3

\* So does the chain of cancellations before a stop.
LEMMA CancelsChild ==
  ASSUME EngineConstants, TypeOK, LockInv, ChildInv, NEW c \in Task,
         EnterLock(c) \/ \E v \in {"startup", "recovery", "restart"} : CancelTask(c, v),
         UNCHANGED <<alive, abandoned>>
  PROVE  ChildInv'
<1>1. CASE EnterLock(c)
  <2>1. UNCHANGED <<process, owner>> /\ Goto(c, "waitLock")
    BY <1>1 DEF EnterLock, JoinLock
  <2>2. QED
    BY <2>1, GotoPc, SteadyChild DEF Starting
<1>2. QED
  BY <1>1, CancelTaskChild

\* Every step keeps the child accounted for and the owner lock held.
LEMMA ChildStep ==
  ASSUME EngineConstants, TypeOK, TypeOK', LockInv, ChildInv, [Next]_vars
  PROVE  ChildInv'
<1> USE DEF vars, manager, tasks, os, prompts
<1>1. ASSUME NEW t \in Task, ProbeLive(t)
      PROVE  ChildInv'
  <2>1. \A u \in Task : pc'[u] \in Starting => pc'[u] = pc[u]
    BY <1>1, EndTaskPc, FailTaskPc DEF ProbeLive, SucceedTask, Starting, InLock
  <2>2. QED
    BY <1>1, <2>1, SteadyChild DEF ProbeLive
<1>2. ASSUME NEW t \in Task, Launch(t)
      PROVE  ChildInv'
  <2>1. /\ \A u \in Task \ {t} : pc'[u] \notin Starting
        /\ pc'[t] = "waitReady"
    BY <1>2, GotoPc, NobodyStarts DEF Launch, Holds, InLock
  <2>2. owner' = "us" /\ alive \subseteq abandoned
    <3>1. owner = "us" /\ process = NoProc
      BY <1>2 DEF Launch, ChildInv, StartOwned, Starting
    <3>2. QED
      BY <1>2, <3>1 DEF Launch, ChildInv, NoOrphanEngine, TypeOK, EngineConstants
  <2>3. alive' \subseteq abandoned' \cup {process'}
    BY <1>2, <2>2 DEF Launch
  <2>4. QED
    BY <2>1, <2>2, <2>3 DEF ChildInv, NoOrphanEngine, OwnerCoversEngine, StartOwned, Starting
<1>3. ASSUME NEW t \in Task, PortConflict(t)
      PROVE  ChildInv'
  <2>1. process' = NoProc /\ Holds(t)
    BY <1>3 DEF PortConflict, ChildInv, StartOwned, Starting, Holds, InLock
  <2>2. \A u \in Task : pc'[u] \notin Starting
    BY <1>3, <2>1, FailTaskPc, NobodyStarts DEF PortConflict, Starting, InLock
  <2>3. alive \subseteq abandoned
    BY <1>3, <2>1 DEF PortConflict, ChildInv, NoOrphanEngine, TypeOK, EngineConstants
  <2>4. QED
    BY <1>3, <2>1, <2>2, <2>3, DropChild DEF PortConflict, TypeOK
<1>4. ASSUME NEW t \in Task, ReadyObserved(t)
      PROVE  ChildInv'
  <2>1. \A u \in Task : pc'[u] \in Starting => pc'[u] = pc[u]
    BY <1>4, EndTaskPc DEF ReadyObserved, SucceedTask, Starting, InLock
  <2>2. QED
    BY <1>4, <2>1, SteadyChild DEF ReadyObserved
<1>5. ASSUME NEW t \in Task, StartFails(t)
      PROVE  ChildInv'
  <2>1. CASE process \notin alive
    <3>1. process' = NoProc /\ FailTask(t, "failed")
      BY <1>5, <2>1 DEF StartFails
    <3>2. \A u \in Task : pc'[u] \notin Starting
      BY <1>5, <3>1, FailTaskPc, NobodyStarts DEF StartFails, Starting, InLock, Holds
    <3>3. QED
      BY <1>5, <2>1, <3>1, <3>2, DropChild DEF StartFails, TypeOK, ChildInv, NoOrphanEngine
  <2>2. CASE process \in alive
    <3>1. UNCHANGED <<process, owner>> /\ Goto(t, "failStop")
      BY <1>5, <2>2 DEF StartFails
    <3>2. QED
      BY <1>5, <3>1, GotoPc, SteadyChild DEF StartFails, Starting
  <2>3. QED
    BY <2>1, <2>2
<1>6. ASSUME NEW t \in Task, Terminated(t)
      PROVE  ChildInv'
  <2>1. Holds(t) /\ AfterStop(t) /\ pc[t] \notin Starting
    BY <1>6 DEF Terminated, Stopping, Holds, InLock, Starting
  <2>2. alive' \subseteq abandoned' /\ alive' \subseteq Proc
    BY <1>6 DEF Terminated, ChildInv, NoOrphanEngine, TypeOK
  <2>3. CASE BeginStart(t)
    BY <2>1, <2>2, <2>3, BeginStartChild
  <2>4. CASE process' = NoProc /\ (FailTask(t, phase) \/ EndTask(t))
    <3>1. \A u \in Task : pc'[u] \notin Starting
      BY <2>1, <2>4, FailTaskPc, EndTaskPc, NobodyStarts DEF Starting, InLock
    <3>2. QED
      BY <2>2, <2>4, <3>1, DropChild
  <2>5. QED
    BY <2>1, <2>3, <2>4 DEF AfterStop
<1>7. ASSUME NEW t \in Task, TakeGate(t)
      PROVE  ChildInv'
  BY <1>7, GotoPc, SteadyChild DEF TakeGate, Starting
<1>8. ASSUME NEW t \in Task, IdleCheckRefuses(t)
      PROVE  ChildInv'
  BY <1>8, FailTaskPc, SteadyChild DEF IdleCheckRefuses, Starting, InLock
<1>9. ASSUME NEW t \in Task, IdleCheckPasses(t)
      PROVE  ChildInv'
  <2>1. Holds(t)
    BY <1>9 DEF IdleCheckPasses, Holds, InLock
  <2>2. CASE process \in alive
    <3>1. UNCHANGED <<process, owner>> /\ Goto(t, "drain")
      BY <1>9, <2>2 DEF IdleCheckPasses
    <3>2. QED
      BY <1>9, <3>1, GotoPc, SteadyChild DEF IdleCheckPasses, Starting
  <2>3. CASE process \notin alive
    <3>1. alive' \subseteq abandoned' /\ alive' \subseteq Proc
      BY <1>9, <2>3 DEF IdleCheckPasses, ChildInv, NoOrphanEngine, TypeOK
    <3>2. CASE BeginStart(t)
      BY <2>1, <3>1, <3>2, BeginStartChild
    <3>3. CASE process' = NoProc /\ EndTask(t)
      <4>1. \A u \in Task : pc'[u] \notin Starting
        BY <2>1, <3>3, EndTaskPc, NobodyStarts DEF Starting, InLock
      <4>2. QED
        BY <3>1, <3>3, <4>1, DropChild
    <3>4. QED
      BY <1>9, <2>3, <3>2, <3>3 DEF IdleCheckPasses
  <2>4. QED
    BY <2>2, <2>3
<1>10. ASSUME NEW t \in Task, CancelAwaited(t)
      PROVE  ChildInv'
  BY <1>10, Cancels, CancelsChild DEF CancelAwaited
<1>11. ASSUME NEW t \in Task, DrainLocked(t)
      PROVE  ChildInv'
  BY <1>11, GotoPc, SteadyChild DEF DrainLocked, Starting
<1>12. ASSUME StartInBackground
      PROVE  ChildInv'
  <2>1. UNCHANGED pc \/ Goto("startup", "new")
    BY <1>12 DEF StartInBackground
  <2>2. \A u \in Task : pc'[u] \in Starting => pc'[u] = pc[u]
    BY <2>1, GotoPc DEF Starting, Task
  <2>3. QED
    BY <1>12, <2>2, SteadyChild DEF StartInBackground
<1>13. ASSUME StartupBegins \/ RecoveryWakes
      PROVE  ChildInv'
  BY <1>13, GotoPc, SteadyChild DEF StartupBegins, RecoveryWakes, JoinLock, Starting, Task
<1>14. ASSUME StartupLocked
      PROVE  ChildInv'
  BY <1>14, StartLockedChild DEF StartupLocked, Task
<1>15. ASSUME RecoveryLocked
      PROVE  ChildInv'
  <2>1. CASE StartLocked("recovery")
    BY <1>15, <2>1, StartLockedChild DEF RecoveryLocked, Task
  <2>2. CASE EndTask("recovery") /\ UNCHANGED <<process, phase, owner, record>>
    <3>1. \A u \in Task : pc'[u] \in Starting => pc'[u] = pc[u]
      BY <2>2, EndTaskPc DEF Starting, InLock, Task
    <3>2. QED
      BY <1>15, <2>2, <3>1, SteadyChild DEF RecoveryLocked
  <2>3. QED
    BY <1>15, <2>1, <2>2 DEF RecoveryLocked
<1>16. ASSUME RecoveryBegins \/ ScheduleRestart
      PROVE  ChildInv'
  BY <1>16, GotoPc, SteadyChild DEF RecoveryBegins, ScheduleRestart, Task, Starting
<1>17. ASSUME RestartBegins
      PROVE  ChildInv'
  BY <1>17, Cancels, CancelsChild DEF RestartBegins, Task
<1>18. ASSUME StopRequest
      PROVE  ChildInv'
  BY <1>18, Cancels, CancelsChild DEF StopRequest, Task
<1>19. ASSUME Shutdown
      PROVE  ChildInv'
  BY <1>19, Cancels, CancelsChild DEF Shutdown, Task
<1>20. ASSUME LoopCancels
      PROVE  ChildInv'
  BY <1>20, CancelTaskChild DEF LoopCancels, Task
<1>21. ASSUME Reboot
      PROVE  ChildInv'
  <2>1. process' = NoProc /\ alive' \subseteq abandoned' /\ alive' \subseteq Proc
    BY <1>21 DEF Reboot, ChildInv, NoOrphanEngine, TypeOK
  <2>2. \A u \in Task : pc'[u] \notin Starting
    BY <1>21 DEF Reboot, Starting
  <2>3. QED
    BY <2>1, <2>2, DropChild
<1>22. ASSUME NEW p \in Proc, Monitor(p)
      PROVE  ChildInv'
  <2>1. \A u \in Task : pc'[u] \in Starting => pc'[u] = pc[u]
    BY <1>22, GotoPc DEF Monitor, Starting, Task
  <2>2. CASE process # p
    BY <1>22, <2>1, <2>2, SteadyChild DEF Monitor
  <2>3. CASE process = p
    <3>1. \A u \in Task : pc'[u] \notin Starting
      BY <1>22, <2>1, <2>3 DEF Monitor, LockIdle, Starting, InLock
    <3>2. QED
      BY <1>22, <2>3, <3>1, DropChild DEF Monitor, TypeOK, ChildInv, NoOrphanEngine
  <2>4. QED
    BY <2>2, <2>3
<1>23. ASSUME NEW p \in Proc, Exit(p)
      PROVE  ChildInv'
  BY <1>23 DEF Exit, ChildInv, NoOrphanEngine, OwnerCoversEngine, StartOwned
<1>24. ASSUME Rival
      PROVE  ChildInv'
  BY <1>24 DEF Rival, ChildInv, NoOrphanEngine, OwnerCoversEngine, StartOwned
<1>25. ASSUME UNCHANGED <<process, owner, alive, abandoned, pc>>
      PROVE  ChildInv'
  BY <1>25, SteadyChild
<1>26. ASSUME \/ StatusBegins \/ StatusEnds \/ LateArrives \/ LateLost
              \/ \E p \in Proc : BecomeReady(p) \/ Wedge(p) \/ FinishPrompt(p)
              \/ \E c \in Client : TakeSubmissionGate(c) \/ Answer(c)
      PROVE  UNCHANGED <<process, owner, alive, abandoned, pc>>
  BY <1>26 DEF StatusBegins, StatusEnds, LateArrives, LateLost, BecomeReady, Wedge,
       FinishPrompt, TakeSubmissionGate, Answer, PromptAccepted, PromptFails, PromptTimesOut
<1>27. QED
  BY <1>1, <1>2, <1>3, <1>4, <1>5, <1>6, <1>7, <1>8, <1>9, <1>10, <1>11, <1>12, <1>13, <1>14,
     <1>15, <1>16, <1>17, <1>18, <1>19, <1>20, <1>21, <1>22, <1>23, <1>24, <1>25, <1>26
     DEF Next, Run, Requests

\* The two facts about the child, and what makes them inductive, always hold.
LEMMA ChildAlways == Spec => []ChildInv
<1>1. Init => ChildInv
  BY DEF Init, ChildInv, NoOrphanEngine, OwnerCoversEngine, StartOwned, Starting
<1>2. Init => LockInv
  BY DEF Init, LockInv, HolderFirst, Queued, Contenders, InLock
<1>3. TypeOK /\ LockInv /\ [Next]_vars => LockInv'
  BY LockStep
<1>4. TypeOK /\ TypeOK' /\ LockInv /\ ChildInv /\ [Next]_vars => ChildInv'
  BY ChildStep, EngineConstants
<1>5. QED
  BY <1>1, <1>2, <1>3, <1>4, TypeCorrect, PTL DEF Spec

\* No failure or cancellation path leaves an engine process behind that the manager
\* no longer refers to, unless the wait after its kill timed out.
THEOREM EngineNeverOrphaned == Spec => []NoOrphanEngine
<1>1. ChildInv => NoOrphanEngine
  BY DEF ChildInv
<1>2. QED
  BY <1>1, ChildAlways, PTL

\* No failure or cancellation path gives the cross-process owner lock back while the
\* manager's child is still running.
THEOREM OwnerLockCoversEngine == Spec => []OwnerCoversEngine
<1>1. ChildInv => OwnerCoversEngine
  BY DEF ChildInv
<1>2. QED
  BY <1>1, ChildAlways, PTL
-----------------------------------------------------------------------------
(***************************************************************************)
(* The submission gate.  DrainNeverInterrupts needs that a producer with a *)
(* POST in flight and a stop between its idle check and the end of its     *)
(* drain each hold the gate, so that they exclude each other.              *)
(***************************************************************************)
Drained  == {"idleCheck", "drain"}
GateHeld == /\ \A c \in posting : gate = c
            /\ \A t \in Task : pc[t] \in Drained => gate = t
GateInv  == GateHeld /\ DrainNeverInterrupts

\* What leaving the lock, or a step that is not about the gate, does to it.
GateSame(t) == gate' = gate \/ gate' = IF gate = t THEN Free ELSE gate

\* While a task holds the lock nobody else is at or past an idle check.
LEMMA NobodyDrains ==
  ASSUME LockInv, NEW t \in Task, Holds(t), NEW u \in Task, u # t
  PROVE  pc[u] \notin Drained
  BY OneHolder DEF Holds, Drained, InLock

\* Once nobody is at or past an idle check only the producers matter.
LEMMA AfterDrain ==
  ASSUME EngineConstants, TypeOK, GateInv, NEW t \in Task, GateSame(t), UNCHANGED posting,
         \A u \in Task : pc'[u] \notin Drained
  PROVE  GateInv'
<1>1. GateHeld'
  BY DEF EngineConstants, TypeOK, GateInv, GateHeld, GateSame
<1>2. DrainNeverInterrupts'
  BY DEF DrainNeverInterrupts, Drained, Task
<1>3. QED
  BY <1>1, <1>2 DEF GateInv

\* A step that lets those at or past their idle check be, and adds no work.
LEMMA BesideDrain ==
  ASSUME EngineConstants, TypeOK, GateInv, NEW t \in Task, GateSame(t), UNCHANGED posting,
         UNCHANGED process, alive' \subseteq alive,
         \A p \in Proc : work[p] = 0 => work'[p] = 0,
         \A u \in Task : pc'[u] \in Drained =>
            u # t /\ pc'[u] = pc[u] /\ (u \in {"stop", "restart"} => force'[u] = force[u])
  PROVE  GateInv'
<1>1. GateHeld'
  BY DEF EngineConstants, TypeOK, GateInv, GateHeld, GateSame
<1>2. DrainNeverInterrupts'
  BY DEF GateInv, DrainNeverInterrupts, Drained, Task, TypeOK
<1>3. QED
  BY <1>1, <1>2 DEF GateInv

\* Leaving the lock frees the gate only if the task itself held it.
LEMMA LeaveLockGate ==
  ASSUME NEW t, LeaveLock(t) \/ UNCHANGED gate
  PROVE  GateSame(t)
  BY DEF LeaveLock, GateSame

\* A start leaves nobody at or past an idle check.
LEMMA BeginStartGate ==
  ASSUME TypeOK, LockInv, NEW t \in Task, Holds(t), BeginStart(t)
  PROVE  GateSame(t) /\ \A u \in Task : pc'[u] \notin Drained
<1>1. CASE EndTask(t) \/ FailTask(t, "failed")
  BY <1>1, EndTaskPc, FailTaskPc, NobodyDrains, LeaveLockGate DEF EndTask, FailTask, Drained, InLock
<1>2. CASE Goto(t, "probePort") /\ UNCHANGED gate
  BY <1>2, GotoPc, NobodyDrains DEF GateSame, Drained
<1>3. QED
  BY <1>1, <1>2 DEF BeginStart

\* The same for _start_locked.
LEMMA StartLockedGate ==
  ASSUME TypeOK, LockInv, NEW t \in Task, Holds(t), StartLocked(t)
  PROVE  GateSame(t) /\ \A u \in Task : pc'[u] \notin Drained
<1>1. CASE Goto(t, "probeLive") /\ UNCHANGED gate
  BY <1>1, GotoPc, NobodyDrains DEF GateSame, Drained
<1>2. QED
  BY <1>1, BeginStartGate DEF StartLocked

\* The end of a lock holder leaves nobody at or past an idle check.
LEMMA EndsGate ==
  ASSUME TypeOK, LockInv, NEW t \in Task, Holds(t), EndTask(t) \/ \E ph : FailTask(t, ph)
  PROVE  GateSame(t) /\ \A u \in Task : pc'[u] \notin Drained
  BY EndTaskPc, FailTaskPc, NobodyDrains, LeaveLockGate DEF EndTask, FailTask, Drained, InLock

\* Cancelling a task, with or without the cleanup of its child.
LEMMA CancelTaskGate ==
  ASSUME EngineConstants, TypeOK, LockInv, GateInv, NEW c \in Task,
         NEW v \in {"startup", "recovery", "restart"}, CancelTask(c, v),
         UNCHANGED <<alive, work, posting>>,
         \A u \in {"stop", "restart"} : pc[u] \in Drained => force'[u] = force[u]
  PROVE  GateInv'
<1>1. v \in Task /\ pc'[v] \notin Drained
  BY CancelTaskPc DEF Task, Drained
<1>2. \A u \in Task \ {v} : pc'[u] \in Drained => pc'[u] = pc[u]
  BY CancelTaskPc DEF Drained, InLock
<1>3. GateSame(v)
  BY LeaveLockGate DEF CancelTask
<1>4. CASE pc[v] \in Starting
  <2>1. \A u \in Task : pc'[u] \notin Drained
    BY <1>1, <1>2, <1>4, NobodyDrains DEF Holds, Starting, InLock
  <2>2. QED
    BY <1>1, <1>3, <2>1, AfterDrain
<1>5. CASE pc[v] \notin Starting
  <2>1. UNCHANGED process
    BY <1>5 DEF CancelTask, Starting
  <2>2. QED
    BY <1>1, <1>2, <1>3, <2>1, BesideDrain
<1>6. QED
  BY <1>4, <1>5

\* The chain of cancellations before a stop, whose tasks are not draining.
LEMMA CancelsGate ==
  ASSUME EngineConstants, TypeOK, LockInv, GateInv, NEW c \in Task,
         EnterLock(c) \/ \E v \in {"startup", "recovery", "restart"} : CancelTask(c, v),
         UNCHANGED <<alive, work, posting>>,
         \A u \in {"stop", "restart"} : pc[u] \in Drained => force'[u] = force[u]
  PROVE  GateInv'
<1>1. CASE EnterLock(c)
  <2>1. UNCHANGED <<process, gate>> /\ Goto(c, "waitLock")
    BY <1>1 DEF EnterLock, JoinLock
  <2>2. \A u \in Task : pc'[u] \in Drained => u # c /\ pc'[u] = pc[u]
    BY <2>1, GotoPc DEF Drained
  <2>3. QED
    BY <2>1, <2>2, BesideDrain DEF GateSame
<1>2. QED
  BY <1>1, CancelTaskGate

\* A step of one task that neither touches a child nor leaves it at an idle check.
LEMMA GotoGate ==
  ASSUME EngineConstants, TypeOK, GateInv, NEW t \in Task, NEW l, Goto(t, l), l \notin Drained,
         UNCHANGED <<gate, posting, process, alive, work>>,
         \A u \in {"stop", "restart"} : u # t => force'[u] = force[u]
  PROVE  GateInv'
<1>1. \A u \in Task : pc'[u] \in Drained => u # t /\ pc'[u] = pc[u]
  BY GotoPc
<1>2. QED
  BY <1>1, BesideDrain DEF GateSame

\* Every step keeps the gate with the drainer, and its engine without work.
LEMMA GateStep ==
  ASSUME EngineConstants, TypeOK, LockInv, GateInv, [Next]_vars
  PROVE  GateInv'
<1> USE DEF vars, manager, tasks, os, prompts
<1>1. ASSUME NEW t \in Task, ProbeLive(t)
      PROVE  GateInv'
  BY <1>1, EndsGate, AfterDrain DEF ProbeLive, SucceedTask, Holds, InLock
<1>2. ASSUME NEW t \in Task, Launch(t)
      PROVE  GateInv'
  <2>1. \A u \in Task : pc'[u] \notin Drained
    BY <1>2, GotoPc, NobodyDrains DEF Launch, Holds, InLock, Drained
  <2>2. QED
    BY <1>2, <2>1, AfterDrain DEF Launch, GateSame
<1>3. ASSUME NEW t \in Task, PortConflict(t)
      PROVE  GateInv'
  BY <1>3, EndsGate, AfterDrain DEF PortConflict, Holds, InLock
<1>4. ASSUME NEW t \in Task, ReadyObserved(t)
      PROVE  GateInv'
  BY <1>4, EndsGate, AfterDrain DEF ReadyObserved, SucceedTask, Holds, InLock
<1>5. ASSUME NEW t \in Task, StartFails(t)
      PROVE  GateInv'
  <2>1. Holds(t)
    BY <1>5 DEF StartFails, Holds, InLock
  <2>2. CASE FailTask(t, "failed")
    BY <1>5, <2>1, <2>2, EndsGate, AfterDrain DEF StartFails
  <2>3. CASE Goto(t, "failStop") /\ UNCHANGED gate
    <3>1. \A u \in Task : pc'[u] \notin Drained
      BY <2>1, <2>3, GotoPc, NobodyDrains DEF Drained
    <3>2. QED
      BY <1>5, <2>3, <3>1, AfterDrain DEF StartFails, GateSame
  <2>4. QED
    BY <1>5, <2>2, <2>3 DEF StartFails
<1>6. ASSUME NEW t \in Task, Terminated(t)
      PROVE  GateInv'
  <2>1. Holds(t) /\ UNCHANGED posting
    BY <1>6 DEF Terminated, Stopping, Holds, InLock
  <2>2. BeginStart(t) \/ EndTask(t) \/ \E ph : FailTask(t, ph)
    BY <1>6 DEF Terminated, AfterStop
  <2>3. QED
    BY <2>1, <2>2, BeginStartGate, EndsGate, AfterDrain
<1>7. ASSUME NEW t \in Task, TakeGate(t)
      PROVE  GateInv'
  <2>1. pc'[t] = "idleCheck" /\ \A u \in Task \ {t} : pc'[u] = pc[u]
    BY <1>7, GotoPc DEF TakeGate
  <2>2. posting = {} /\ \A u \in Task : pc[u] \notin Drained
    BY <1>7 DEF TakeGate, GateInv, GateHeld, TypeOK, EngineConstants
  <2>3. GateHeld'
    BY <1>7, <2>1, <2>2 DEF TakeGate, GateHeld
  <2>4. DrainNeverInterrupts'
    BY <2>1, <2>2 DEF DrainNeverInterrupts, Drained, Task
  <2>5. QED
    BY <2>3, <2>4 DEF GateInv
<1>8. ASSUME NEW t \in Task, IdleCheckRefuses(t)
      PROVE  GateInv'
  BY <1>8, EndsGate, AfterDrain DEF IdleCheckRefuses, Holds, InLock
<1>9. ASSUME NEW t \in Task, IdleCheckPasses(t)
      PROVE  GateInv'
  <2>1. Holds(t) /\ UNCHANGED <<posting, force, work, alive>> /\ pc[t] = "idleCheck"
    BY <1>9 DEF IdleCheckPasses, Holds, InLock
  <2>2. CASE /\ Forced(t) \/ QueueSeenIdle
             /\ Goto(t, "drain") /\ UNCHANGED <<process, gate>>
    <3>1. pc'[t] = "drain" /\ \A u \in Task \ {t} : pc'[u] = pc[u] /\ pc[u] \notin Drained
      BY <2>1, <2>2, GotoPc, NobodyDrains
    <3>2. GateHeld'
      BY <2>1, <2>2, <3>1 DEF GateInv, GateHeld, Drained
    <3>3. DrainNeverInterrupts'
      BY <2>1, <2>2, <3>1 DEF DrainNeverInterrupts, Forced, QueueSeenIdle, Drained, Task
    <3>4. QED
      BY <3>2, <3>3 DEF GateInv
  <2>3. CASE BeginStart(t) \/ EndTask(t)
    BY <2>1, <2>3, BeginStartGate, EndsGate, AfterDrain
  <2>4. QED
    BY <1>9, <2>2, <2>3 DEF IdleCheckPasses
<1>10. ASSUME NEW t \in Task, CancelAwaited(t)
      PROVE  GateInv'
  BY <1>10, Cancels, CancelsGate DEF CancelAwaited
<1>11. ASSUME NEW t \in Task, DrainLocked(t)
      PROVE  GateInv'
  BY <1>11, GotoGate DEF DrainLocked, Drained
<1>12. ASSUME UNCHANGED <<pc, gate, posting, process, alive, work, force>>
      PROVE  GateInv'
  BY <1>12 DEF GateInv, GateHeld, DrainNeverInterrupts
<1>13. ASSUME StartInBackground
      PROVE  GateInv'
  <2>1. UNCHANGED <<gate, posting, process, alive, work, force>>
    BY <1>13 DEF StartInBackground
  <2>2. CASE UNCHANGED pc
    BY <1>12, <2>1, <2>2
  <2>3. CASE Goto("startup", "new")
    BY <2>1, <2>3, GotoGate DEF Drained, Task
  <2>4. QED
    BY <1>13, <2>2, <2>3 DEF StartInBackground
<1>14. ASSUME StartupBegins \/ RecoveryWakes \/ RecoveryBegins
      PROVE  GateInv'
  BY <1>14, GotoGate DEF StartupBegins, RecoveryWakes, RecoveryBegins, JoinLock, Drained, Task
<1>15. ASSUME ScheduleRestart
      PROVE  GateInv'
  <2>1. force'["stop"] = force["stop"]
    BY <1>15 DEF ScheduleRestart, TypeOK
  <2>2. QED
    BY <1>15, <2>1, GotoGate DEF ScheduleRestart, Drained, Task
<1>16. ASSUME StartupLocked
      PROVE  GateInv'
  BY <1>16, StartLockedGate, AfterDrain DEF StartupLocked, Task, Holds
<1>17. ASSUME RecoveryLocked
      PROVE  GateInv'
  BY <1>17, StartLockedGate, EndsGate, AfterDrain DEF RecoveryLocked, Task, Holds
<1>18. ASSUME RestartBegins
      PROVE  GateInv'
  BY <1>18, Cancels, CancelsGate DEF RestartBegins, Task
<1>19. ASSUME StopRequest
      PROVE  GateInv'
  <2>1. \A u \in {"stop", "restart"} : pc[u] \in Drained => force'[u] = force[u]
    BY <1>19 DEF StopRequest, Drained, TypeOK
  <2>2. QED
    BY <1>19, <2>1, Cancels, CancelsGate DEF StopRequest, Task
<1>20. ASSUME Shutdown
      PROVE  GateInv'
  BY <1>20, Cancels, CancelsGate DEF Shutdown, Task
<1>21. ASSUME LoopCancels
      PROVE  GateInv'
  BY <1>21, CancelTaskGate DEF LoopCancels, Task
<1>22. ASSUME Reboot
      PROVE  GateInv'
  BY <1>22 DEF Reboot, GateInv, GateHeld, DrainNeverInterrupts, Drained, Task
<1>23. ASSUME NEW p \in Proc, Monitor(p)
      PROVE  GateInv'
  <2>1. UNCHANGED <<gate, posting, alive, work, force>>
    BY <1>23 DEF Monitor
  <2>2. CASE process # p
    BY <1>12, <1>23, <2>1, <2>2 DEF Monitor
  <2>3. CASE process = p
    <3>1. \A u \in Task : pc'[u] \notin Drained
      BY <1>23, <2>3, GotoPc DEF Monitor, LockIdle, Drained, InLock, Task
    <3>2. QED
      BY <2>1, <3>1, AfterDrain DEF GateSame, Task
  <2>4. QED
    BY <2>2, <2>3
<1>24. ASSUME NEW c \in Client, TakeSubmissionGate(c)
      PROVE  GateInv'
  <2>1. posting = {} /\ \A u \in Task : pc[u] \notin Drained
    BY <1>24 DEF TakeSubmissionGate, GateInv, GateHeld, TypeOK, EngineConstants
  <2>2. QED
    BY <1>24, <2>1 DEF TakeSubmissionGate, GateInv, GateHeld, DrainNeverInterrupts, Drained, Task
<1>25. ASSUME NEW c \in Client, Answer(c)
      PROVE  GateInv'
  <2>1. posting = {c} /\ (posting' = {}) /\ UNCHANGED <<pc, process, alive, force>>
    BY <1>25 DEF Answer, EndPost, PromptAccepted, PromptFails, PromptTimesOut, GateInv, GateHeld
  <2>2. \A u \in Task : pc[u] \notin Drained
    BY <2>1 DEF GateInv, GateHeld, EngineConstants
  <2>3. QED
    BY <2>1, <2>2 DEF GateInv, GateHeld, DrainNeverInterrupts, Drained, Task
<1>26. ASSUME NEW p \in Proc, Exit(p) \/ FinishPrompt(p)
      PROVE  GateInv'
  <2>1. \A q \in Proc : work[q] = 0 => work'[q] = 0
    BY <1>26 DEF Exit, ServiceGone, FinishPrompt, TypeOK
  <2>2. UNCHANGED <<pc, gate, posting, process, force>> /\ alive' \subseteq alive
    BY <1>26 DEF Exit, FinishPrompt
  <2>3. QED
    BY <2>1, <2>2 DEF GateInv, GateHeld, DrainNeverInterrupts, TypeOK
<1>27. ASSUME \/ StatusBegins \/ StatusEnds \/ LateArrives \/ LateLost \/ Rival
              \/ \E p \in Proc : BecomeReady(p) \/ Wedge(p)
      PROVE  UNCHANGED <<pc, gate, posting, process, alive, work, force>>
  BY <1>27 DEF StatusBegins, StatusEnds, LateArrives, LateLost, Rival, BecomeReady, Wedge
<1>28. QED
  BY <1>1, <1>2, <1>3, <1>4, <1>5, <1>6, <1>7, <1>8, <1>9, <1>10, <1>11, <1>12, <1>13, <1>14,
     <1>15, <1>16, <1>17, <1>18, <1>19, <1>20, <1>21, <1>22, <1>23, <1>24, <1>25, <1>26, <1>27
     DEF Next, Run, Requests

\* An unforced stop or restart that signalled the engine found it without accepted
\* work, and no producer of this process can hand it work until it is gone.
THEOREM DrainInterruptsNothing == Spec => []DrainNeverInterrupts
<1>1. Init => LockInv /\ GateInv
  BY DEF Init, LockInv, HolderFirst, Queued, Contenders, InLock, GateInv, GateHeld,
     DrainNeverInterrupts, Drained, Task
<1>2. TypeOK /\ LockInv /\ [Next]_vars => LockInv'
  BY LockStep
<1>3. TypeOK /\ LockInv /\ GateInv /\ [Next]_vars => GateInv'
  BY GateStep, EngineConstants
<1>4. GateInv => DrainNeverInterrupts
  BY DEF GateInv
<1>5. QED
  BY <1>1, <1>2, <1>3, <1>4, TypeCorrect, PTL DEF Spec

-----------------------------------------------------------------------------
(***************************************************************************)
(* The wish to run the engine.  LaunchWanted needs to know where the       *)
(* autostart and the recovery can be: they cancel nobody and drain nothing, *)
(* so they wait for no task; an autostart on its way to the engine is      *)
(* wanted, because whoever withdraws the wish cancels it in the same step; *)
(* and a recovery about to launch is wanted, or whoever withdrew the wish  *)
(* is still waiting for the autostart it cancelled first.                  *)
(***************************************************************************)
Alone    == {"idle", "new", "sleep", "waitLock", "probeLive", "probePort", "waitReady",
             "failStop", "cancelStop"}
Entering == {"waitLock", "probeLive", "probePort", "waitReady"}

WishInv ==
  /\ \A t \in {"startup", "recovery"} : pc[t] \in Alone
  /\ pc["startup"] \in Entering => Wanted
  /\ pc["recovery"] = "probePort" => Wanted \/ WillCancelRecovery

\* What every step does to the wish and to the two tasks it is about.
WishKept ==
  /\ \A t \in {"startup", "recovery"} : pc'[t] \in Alone
  /\ pc'["startup"] \in Entering
       => Wanted' \/ (pc["startup"] \in Entering /\ (Wanted => Wanted'))
  /\ pc'["recovery"] \in {"probeLive", "probePort"}
       => pc'["recovery"] = pc["recovery"] \/ (Wanted /\ Wanted')
  /\ pc'["recovery"] = "probePort"
       => /\ WillCancelRecovery => WillCancelRecovery'
          /\ Wanted => Wanted' \/ WillCancelRecovery'

\* That is enough.
LEMMA WishFollows ==
  ASSUME WishInv, WishKept
  PROVE  WishInv' /\ (Enters("recovery") => Wanted)
  BY DEF WishInv, WishKept, Enters

\* A step of task t that may wake who awaits a task, and may schedule the recovery.
Moves(t) ==
  \A u \in Task \ {t} :
    \/ pc'[u] = pc[u]
    \/ \E v \in Task : pc[u] = Awaits(v) /\ pc'[u] = Ended(v)
    \/ u = "recovery" /\ pc'[u] = "new"

\* Waking up leads on from the wait for the autostart, and no other wait is affected.
LEMMA Wakes ==
  ASSUME NEW v \in Task
  PROVE  /\ Awaits(v) \notin Alone /\ Ended(v) \notin Alone
         /\ Awaits(v) \in {"awaitStartup", "startupEnded"} => Ended(v) = "startupEnded"
         /\ Awaits(v) # "startupEnded"
         /\ (Awaits(v) = "awaitStartup" => v = "startup")
  BY DEF Task, Awaits, Ended, Alone

\* A task that ends, fails or goes on.
LEMMA EndMoves ==
  ASSUME TypeOK, NEW t \in Task, EndTask(t)
  PROVE  Moves(t) /\ pc'[t] \in {"idle", "done"} /\ (t # "shutdown" => pc'[t] = "idle")
  BY DEF TypeOK, EndTask, Moves

\* A failed recovery sleeps, another failed task returns.
LEMMA FailMoves ==
  ASSUME TypeOK, NEW t \in Task, NEW ph, FailTask(t, ph)
  PROVE  Moves(t) /\ pc'[t] \in {"idle", "sleep", "new"}
  BY DEF TypeOK, FailTask, Moves, Task

\* A task that goes on.
LEMMA GotoMoves ==
  ASSUME TypeOK, NEW t \in Task, NEW l, Goto(t, l)
  PROVE  Moves(t) /\ pc'[t] = l
  BY GotoPc DEF Moves

\* A step of a task that is not waiting for the autostart keeps the wish, unless it makes
\* the autostart or the recovery enter a start.
LEMMA MovesKeep ==
  ASSUME TypeOK, WishInv, NEW t \in Task, Moves(t), UNCHANGED <<desired, closing>>,
         pc[t] \notin {"awaitStartup", "startupEnded"},
         t \in {"startup", "recovery"} => pc'[t] \in Alone,
         t = "startup" /\ pc'[t] \in Entering => pc[t] \in Entering,
         t = "recovery" /\ pc'[t] \in {"probeLive", "probePort"} => Wanted
  PROVE  WishKept
  <1>1. Wanted' = Wanted BY DEF Wanted
  <1>2. ASSUME NEW u \in {"startup", "recovery"}, u # t
        PROVE  pc'[u] = pc[u] \/ (u = "recovery" /\ pc'[u] = "new")
    BY <1>2, Wakes DEF Moves, WishInv, Task
  <1>3. ASSUME NEW c \in {"stop", "shutdown"}, pc[c] \in {"awaitStartup", "startupEnded"}
        PROVE  pc'[c] \in {"awaitStartup", "startupEnded"}
    <2>1. c \in Task \ {t} BY <1>3 DEF Task
    <2> QED BY <1>3, <2>1, Wakes DEF Moves
  <1>4. WillCancelRecovery => WillCancelRecovery' BY <1>3 DEF WillCancelRecovery
  <1>5. \A u \in {"startup", "recovery"} : pc'[u] \in Alone
    BY <1>2 DEF WishInv, Alone
  <1>6. pc'["startup"] \in Entering => pc["startup"] \in Entering
    BY <1>2 DEF Entering
  <1>7. pc'["recovery"] \in {"probeLive", "probePort"} => pc'["recovery"] = pc["recovery"] \/ Wanted
    BY <1>2
  <1> QED BY <1>1, <1>4, <1>5, <1>6, <1>7 DEF WishKept

\* What a cancellation does to the tasks.
LEMMA CancelMoves ==
  ASSUME TypeOK, NEW c \in Task, NEW v \in {"startup", "recovery", "restart"}, c # v,
         CancelTask(c, v)
  PROVE  /\ pc'[v] \in {"idle", "cancelStop"}
         /\ pc[c] # "done" => pc'[c] \in {Awaits(v), Ended(v)}
         /\ \A u \in Task \ {v} : \/ pc'[u] = pc[u]
                                  \/ (u = c /\ pc[c] # "done") /\ pc'[u] \in {Awaits(v), Ended(v)}
                                  \/ pc[u] = Awaits(v) /\ pc'[u] \in {Awaits(v), Ended(v)}
  BY DEF TypeOK, CancelTask, Task

\* A cancellation by somebody who does not wait for the autostart, or of the recovery.
LEMMA CancelKeeps ==
  ASSUME TypeOK, WishInv, NEW c \in Task \ {"startup", "recovery"},
         NEW v \in {"startup", "recovery", "restart"}, c # v, CancelTask(c, v),
         UNCHANGED <<desired, closing>> \/ Wanted',
         v = "recovery" \/ pc[c] \notin {"awaitStartup", "startupEnded"}
  PROVE  WishKept
  <1>0. v \in Task BY DEF Task
  <1>1. Wanted => Wanted' BY DEF Wanted
  <1>2. ASSUME NEW u \in {"startup", "recovery"}, u # v PROVE pc'[u] = pc[u]
    BY <1>0, <1>2, Wakes, CancelMoves DEF WishInv, Task
  <1>3. pc'[v] \in {"idle", "cancelStop"} BY CancelMoves
  <1>4. ASSUME v # "recovery", NEW d \in {"stop", "shutdown"},
               pc[d] \in {"awaitStartup", "startupEnded"}
        PROVE  pc'[d] \in {"awaitStartup", "startupEnded"}
    <2>1. d \in Task \ {v} /\ d # c BY <1>4 DEF Task
    <2> QED BY <1>0, <1>4, <2>1, Wakes, CancelMoves
  <1>5. v # "recovery" => (WillCancelRecovery => WillCancelRecovery')
    BY <1>4 DEF WillCancelRecovery
  <1>6. \A u \in {"startup", "recovery"} : pc'[u] \in Alone
    BY <1>2, <1>3 DEF WishInv, Alone
  <1>7. pc'["startup"] \in Entering => pc["startup"] \in Entering
    BY <1>2, <1>3 DEF Entering
  <1>8. pc'["recovery"] \in {"probeLive", "probePort"}
          => pc'["recovery"] = pc["recovery"] /\ v # "recovery"
    BY <1>2, <1>3
  <1> QED BY <1>1, <1>5, <1>6, <1>7, <1>8 DEF WishKept

\* Turning to the lock.
LEMMA EnterKeeps ==
  ASSUME TypeOK, WishInv, NEW c \in Task \ {"startup", "recovery"}, EnterLock(c),
         UNCHANGED <<desired, closing>> \/ Wanted',
         pc["recovery"] # "probePort" \/ pc[c] \notin {"awaitStartup", "startupEnded"}
  PROVE  WishKept
  <1>1. \A u \in Task \ {c} : pc'[u] = pc[u]
    BY GotoPc DEF EnterLock, JoinLock
  <1>2. Wanted => Wanted' BY DEF Wanted
  <1>3. pc'["startup"] = pc["startup"] /\ pc'["recovery"] = pc["recovery"]
    BY <1>1 DEF Task
  <1>4. pc'["recovery"] = "probePort" => (WillCancelRecovery => WillCancelRecovery')
    BY <1>1, <1>3 DEF WillCancelRecovery, Task
  <1> QED BY <1>2, <1>3, <1>4 DEF WishKept, WishInv

\* Who goes on after the recovery, or takes it with it.
LEMMA CancelRecoveryKeeps ==
  ASSUME TypeOK, WishInv, NEW c \in Task \ {"startup", "recovery"},
         \/ CancelRecovery(c)
         \/ AfterRecovery(c) /\ pc[c] \notin {"awaitStartup", "startupEnded"},
         UNCHANGED <<desired, closing>> \/ Wanted'
  PROVE  WishKept
  <1>1. CASE CancelRecovery(c) /\ Active("recovery")
    BY <1>1, CancelKeeps DEF CancelRecovery
  <1>2. CASE AfterRecovery(c)
             /\ (pc["recovery"] # "probePort" \/ pc[c] \notin {"awaitStartup", "startupEnded"})
    <2>1. CASE EnterLock(c) BY <1>2, <2>1, EnterKeeps
    <2>2. CASE c = "shutdown" /\ CancelTask(c, "restart")
      <3>1. CASE pc[c] \notin {"awaitStartup", "startupEnded"} BY <2>2, <3>1, CancelKeeps
      <3>2. CASE pc["recovery"] # "probePort"
        <4>1. /\ pc'["startup"] = pc["startup"] /\ pc'["recovery"] = pc["recovery"]
              /\ Wanted => Wanted'
          BY <2>2, CancelMoves, Wakes DEF WishInv, Wanted, Task
        <4> QED BY <3>2, <4>1 DEF WishKept, WishInv
      <3> QED BY <1>2, <3>1, <3>2
    <2> QED BY <1>2, <2>1, <2>2 DEF AfterRecovery, CancelRestart
  <1>3. ASSUME ~Active("recovery") PROVE pc["recovery"] # "probePort" BY <1>3 DEF Active
  <1> QED BY <1>1, <1>2, <1>3 DEF CancelRecovery

\* Who withdraws the wish cancels the autostart and then the recovery.
LEMMA WithdrawKeeps ==
  ASSUME TypeOK, WishInv, NEW c \in {"stop", "shutdown"}, pc[c] = "idle", CancelStartup(c)
  PROVE  WishKept
  <1>0. c \in Task /\ "startup" \in Task /\ "recovery" \in Task BY DEF Task
  <1>1. CASE Active("startup")
    <2>1. CancelTask(c, "startup") BY <1>1 DEF CancelStartup
    <2>2. pc'["startup"] \in {"idle", "cancelStop"} /\ pc'["recovery"] = pc["recovery"]
      BY <1>0, <2>1, CancelMoves, Wakes DEF WishInv
    <2>3. pc'[c] \in {"awaitStartup", "startupEnded"}
      BY <1>0, <2>1, CancelMoves DEF Awaits, Ended
    <2>4. WillCancelRecovery' BY <2>3 DEF WillCancelRecovery
    <2> QED BY <2>2, <2>4 DEF WishKept, WishInv, Alone, Entering
  <1>2. CASE ~Active("startup")
    <2>1. CancelRecovery(c) /\ pc["startup"] \notin Entering
      BY <1>2 DEF CancelStartup, Active, Entering
    <2>2. pc'["startup"] = pc["startup"] /\ pc'["recovery"] \in Alone
          /\ pc'["recovery"] \notin {"probeLive", "probePort"}
      <3>1. CASE Active("recovery")
        <4>1. CancelTask(c, "recovery") BY <2>1, <3>1 DEF CancelRecovery
        <4> QED BY <1>0, <4>1, CancelMoves, Wakes DEF WishInv, Alone
      <3>2. CASE ~Active("recovery")
        <4>1. EnterLock(c) \/ (c = "shutdown" /\ CancelTask(c, "restart"))
          BY <2>1, <3>2 DEF CancelRecovery, AfterRecovery, CancelRestart
        <4>2. pc'["startup"] = pc["startup"] /\ pc'["recovery"] = pc["recovery"]
          <5>1. CASE EnterLock(c)
            BY <1>0, <5>1, GotoPc DEF EnterLock, JoinLock
          <5>2. CASE c = "shutdown" /\ CancelTask(c, "restart")
            <6>1. "restart" \in Task BY DEF Task
            <6> QED BY <1>0, <5>2, <6>1, CancelMoves, Wakes DEF WishInv
          <5> QED BY <4>1, <5>1, <5>2
        <4> QED BY <3>2, <4>2 DEF Active, WishInv
      <3> QED BY <3>1, <3>2
    <2> QED BY <2>1, <2>2 DEF WishKept, WishInv
  <1> QED BY <1>1, <1>2

\* Every step keeps the wish.
LEMMA WishStep ==
  ASSUME TypeOK, WishInv, [Next]_vars
  PROVE  WishKept
  <1> USE DEF vars, manager, tasks, os, prompts
  <1>a. ASSUME NEW t \in Task, Moves(t), UNCHANGED <<desired, closing>>,
               pc[t] \notin {"awaitStartup", "startupEnded"},
               pc'[t] \in {"idle", "sleep", "new"} \/ t = "shutdown"
        PROVE  WishKept
    BY <1>a, MovesKeep DEF Alone, Entering
  <1>b. ASSUME NEW t \in Task, UNCHANGED <<desired, closing>>,
               pc[t] \notin {"awaitStartup", "startupEnded"},
               EndTask(t) \/ \E ph : FailTask(t, ph)
        PROVE  WishKept
    BY <1>a, <1>b, EndMoves, FailMoves
  \* A label of a start leads on to another one; the others no such task has.
  <1>c. ASSUME NEW t \in Task, UNCHANGED <<desired, closing>>,
               \/ /\ pc[t] \in Entering
                  /\ Goto(t, "waitReady") \/ Goto(t, "failStop")
               \/ /\ t \notin {"startup", "recovery"}
                  /\ pc[t] \notin {"awaitStartup", "startupEnded"}
                  /\ \E l \in Label : Goto(t, l)
        PROVE  WishKept
    BY <1>c, GotoMoves, MovesKeep DEF Alone, Entering
  <1>d. ASSUME UNCHANGED <<pc, desired, closing>> PROVE WishKept
    BY <1>d DEF WishKept, WishInv, Wanted, WillCancelRecovery
  <1>1. ASSUME NEW t \in Task, ProbeLive(t) PROVE WishKept
    BY <1>1, <1>b DEF ProbeLive, SucceedTask
  <1>2. ASSUME NEW t \in Task, Launch(t) PROVE WishKept
    BY <1>2, <1>c DEF Launch, Entering
  <1>3. ASSUME NEW t \in Task, PortConflict(t) PROVE WishKept
    BY <1>3, <1>b DEF PortConflict
  <1>4. ASSUME NEW t \in Task, ReadyObserved(t) PROVE WishKept
    BY <1>4, <1>b DEF ReadyObserved, SucceedTask
  <1>5. ASSUME NEW t \in Task, StartFails(t) PROVE WishKept
    BY <1>5, <1>b, <1>c DEF StartFails, Entering
  \* The entry of a start: nobody but the three comes here.
  <1>e. ASSUME NEW t \in Task, BeginStart(t), UNCHANGED <<desired, closing>>,
               pc[t] \notin {"awaitStartup", "startupEnded"},
               \/ t \notin {"startup", "recovery"}
               \/ pc[t] \in Entering /\ Wanted
        PROVE  WishKept
    <2>1. CASE EndTask(t) \/ FailTask(t, "failed") BY <1>b, <1>e, <2>1
    <2>2. CASE Goto(t, "probePort")
      <3>1. Moves(t) /\ pc'[t] = "probePort" BY <2>2, GotoMoves
      <3> QED BY <1>e, <3>1, MovesKeep DEF Alone, Entering
    <2> QED BY <1>e, <2>1, <2>2 DEF BeginStart
  <1>f. ASSUME NEW t \in Task, StartLocked(t), UNCHANGED <<desired, closing>>,
               pc[t] = "waitLock", Wanted
        PROVE  WishKept
    <2>1. CASE Goto(t, "probeLive")
      <3>1. Moves(t) /\ pc'[t] = "probeLive" BY <2>1, GotoMoves
      <3> QED BY <1>f, <3>1, MovesKeep DEF Alone, Entering
    <2>2. CASE BeginStart(t) BY <1>e, <1>f, <2>2 DEF Entering
    <2> QED BY <1>f, <2>1, <2>2 DEF StartLocked
  <1>6. ASSUME NEW t \in Task, Terminated(t) PROVE WishKept
    <2>1. UNCHANGED <<desired, closing>> /\ pc[t] \notin {"awaitStartup", "startupEnded"}
      BY <1>6 DEF Terminated, Stopping
    <2>2. CASE pc[t] = "drain" /\ t = "restart"
      BY <1>6, <2>1, <2>2, <1>e DEF Terminated, AfterStop
    <2>3. CASE pc[t] = "failStop"
      BY <1>6, <2>1, <2>3, <1>b DEF Terminated, AfterStop
    <2>4. CASE ~(pc[t] = "drain" /\ t = "restart") /\ pc[t] # "failStop"
      BY <1>6, <2>1, <2>4, <1>b DEF Terminated, AfterStop
    <2> QED BY <2>2, <2>3, <2>4
  <1>7. ASSUME NEW t \in Task, TakeGate(t) \/ DrainLocked(t) PROVE WishKept
    BY <1>7, <1>c DEF TakeGate, DrainLocked, Granted, WishInv, Alone, Label, InLock
  <1>8. ASSUME NEW t \in Task, IdleCheckRefuses(t) PROVE WishKept
    BY <1>8, <1>b DEF IdleCheckRefuses
  <1>9. ASSUME NEW t \in Task, IdleCheckPasses(t) PROVE WishKept
    <2>1. /\ UNCHANGED <<desired, closing>> /\ pc[t] \notin {"awaitStartup", "startupEnded"}
          /\ t \notin {"startup", "recovery"}
      BY <1>9 DEF IdleCheckPasses, WishInv, Alone
    <2>2. CASE Goto(t, "drain") BY <2>1, <2>2, <1>c DEF Label, InLock
    <2> QED BY <1>9, <2>1, <2>2, <1>b, <1>e DEF IdleCheckPasses
  <1>10. ASSUME NEW c \in Task, CancelAwaited(c) PROVE WishKept
    <2>1. UNCHANGED <<desired, closing>> /\ c \in Task \ {"startup", "recovery"}
      BY <1>10 DEF CancelAwaited, WishInv, Alone
    <2>2. CASE CancelRecovery(c) BY <2>1, <2>2, CancelRecoveryKeeps
    <2>3. CASE pc[c] = "recoveryEnded" /\ AfterRecovery(c) BY <2>1, <2>3, CancelRecoveryKeeps
    <2>4. CASE pc[c] = "restartEnded" /\ EnterLock(c) BY <2>1, <2>4, EnterKeeps
    <2> QED BY <1>10, <2>2, <2>3, <2>4 DEF CancelAwaited
  \* A step after which the engine is wanted.
  <1>g. ASSUME NEW t \in Task \ {"stop", "shutdown"}, Wanted', NEW l \in Alone, Goto(t, l),
               t = "recovery" => l \notin {"probeLive", "probePort"}
        PROVE  WishKept
    <2>1. pc'[t] = l /\ \A u \in Task \ {t} : pc'[u] = pc[u] BY <1>g, GotoPc
    <2>2. WillCancelRecovery => WillCancelRecovery'
      BY <1>g, <2>1 DEF WillCancelRecovery, Task
    <2>3. ASSUME NEW u \in {"startup", "recovery"} PROVE pc'[u] \in Alone
      BY <1>g, <2>1, <2>3 DEF WishInv, Task
    <2>4. pc'["recovery"] \in {"probeLive", "probePort"} => pc'["recovery"] = pc["recovery"]
      BY <1>g, <2>1 DEF Task
    <2> QED BY <1>g, <2>2, <2>3, <2>4 DEF WishKept
  <1>11. ASSUME StartInBackground PROVE WishKept
    <2>1. Wanted' BY <1>11 DEF StartInBackground, Wanted
    <2>2. CASE UNCHANGED pc BY <2>1, <2>2 DEF WishKept, WishInv, WillCancelRecovery
    <2>3. CASE Goto("startup", "new") BY <2>1, <2>3, <1>g DEF Task, Alone
    <2> QED BY <1>11, <2>2, <2>3 DEF StartInBackground
  <1>12. ASSUME StartupBegins PROVE WishKept
    BY <1>12, <1>g DEF StartupBegins, JoinLock, Wanted, Task, Alone
  <1>13. ASSUME StartupLocked PROVE WishKept
    <2>1. Wanted /\ pc["startup"] = "waitLock"
      BY <1>13 DEF StartupLocked, Granted, WishInv, Entering
    <2> QED BY <1>13, <2>1, <1>f DEF StartupLocked, Task
  <1>14. ASSUME RecoveryBegins \/ RecoveryWakes PROVE WishKept
    <2>1. PICK l \in {"sleep", "idle", "waitLock"} : Goto("recovery", l)
      BY <1>14 DEF RecoveryBegins, RecoveryWakes, JoinLock
    <2>2. /\ UNCHANGED <<desired, closing>> /\ "recovery" \in Task
          /\ pc["recovery"] \notin {"awaitStartup", "startupEnded"}
      BY <1>14 DEF RecoveryBegins, RecoveryWakes, Task
    <2> QED BY <2>1, <2>2, GotoMoves, MovesKeep DEF Alone
  <1>15. ASSUME RecoveryLocked PROVE WishKept
    BY <1>15, <1>b, <1>f DEF RecoveryLocked, Granted, Task
  <1>16. ASSUME ScheduleRestart PROVE WishKept
    BY <1>16, <1>c DEF ScheduleRestart, Active, Task, Label
  <1>17. ASSUME RestartBegins PROVE WishKept
    <2>1. Wanted' BY <1>17 DEF RestartBegins, Wanted
    <2> QED BY <1>17, <2>1, CancelRecoveryKeeps DEF RestartBegins, Task
  <1>18. ASSUME StopRequest PROVE WishKept
    BY <1>18, WithdrawKeeps DEF StopRequest
  <1>19. ASSUME Shutdown PROVE WishKept
    BY <1>19, WithdrawKeeps DEF Shutdown, Serving
  <1>20. ASSUME LoopCancels PROVE WishKept
    BY <1>20, CancelKeeps DEF LoopCancels, Task
  <1>21. ASSUME Reboot PROVE WishKept
    <2>1. pc'["startup"] = "idle" /\ pc'["recovery"] = "idle" BY <1>21 DEF Reboot, Task
    <2> QED BY <2>1 DEF WishKept, Alone, Entering
  <1>22. ASSUME NEW p \in Proc, Monitor(p) PROVE WishKept
    <2>1. UNCHANGED <<desired, closing>> BY <1>22 DEF Monitor
    <2>2. CASE UNCHANGED pc BY <1>d, <2>1, <2>2
    <2>3. CASE Goto("recovery", "new")
      <3>1. "recovery" \in Task /\ pc["recovery"] \notin {"awaitStartup", "startupEnded"}
        BY DEF WishInv, Alone, Task
      <3> QED BY <2>1, <2>3, <3>1, <1>a, GotoMoves
    <2> QED BY <1>22, <2>2, <2>3 DEF Monitor
  <1>23. ASSUME \/ StatusBegins \/ StatusEnds \/ LateArrives \/ LateLost \/ Rival
                \/ \E p \in Proc : BecomeReady(p) \/ Exit(p) \/ Wedge(p) \/ FinishPrompt(p)
                \/ \E c \in Client : TakeSubmissionGate(c) \/ Answer(c)
         PROVE  UNCHANGED <<pc, desired, closing>>
    BY <1>23 DEF StatusBegins, StatusEnds, LateArrives, LateLost, Rival, BecomeReady, Exit, Wedge,
         FinishPrompt, TakeSubmissionGate, Answer, PromptAccepted, PromptFails, PromptTimesOut
  <1> QED
    BY <1>d, <1>1, <1>2, <1>3, <1>4, <1>5, <1>6, <1>7, <1>8, <1>9, <1>10, <1>11, <1>12, <1>13,
       <1>14, <1>15, <1>16, <1>17, <1>18, <1>19, <1>20, <1>21, <1>22, <1>23
       DEF Next, Run, Requests

\* Autostart and recovery enter a start only for an engine that is wanted, and launch a
\* child after the wish was withdrawn only if they are about to be cancelled.
THEOREM OnlyWantedLaunches == Spec => LaunchWanted
  <1>1. Init => WishInv BY DEF Init, WishInv, Alone, Entering, Task
  <1>2. ASSUME TypeOK, WishInv, [Next]_vars
        PROVE  /\ WishInv'
               /\ [\A t \in {"startup", "recovery"} :
                     /\ Enters(t) => Wanted
                     /\ Launches(t) => Wanted \/ (t = "recovery" /\ WillCancelRecovery)]_vars
    <2>1. WishInv' /\ (Enters("recovery") => Wanted) BY <1>2, WishStep, WishFollows
    <2>2. Enters("startup") => Wanted BY <1>2 DEF Enters, WishInv, Entering
    <2>3. Launches("startup") => Wanted BY <1>2 DEF Launches, WishInv, Entering
    <2>4. Launches("recovery") => Wanted \/ WillCancelRecovery BY <1>2 DEF Launches, WishInv
    <2> QED BY <2>1, <2>2, <2>3, <2>4
  <1> QED BY <1>1, <1>2, TypeCorrect, PTL DEF Spec, LaunchWanted

-----------------------------------------------------------------------------
(***************************************************************************)
(* SubmissionQueue: type correctness, NeverRequeued, OncePerReservation and*)
(* that the queue implements JobLifecycle, for any number of workers and   *)
(* jobs and any attempt limit.                                             *)
(*                                                                         *)
(* The argument.  A row that a claim or the sweep has locked is written by *)
(* nobody else, so both act on what they read (LockKeeps, LockAlone): a    *)
(* waiting job is handed out once per attempt, and goes back only while it *)
(* has attempts left (Retryable).  All other writers of the status take    *)
(* the job out of the queue, and a worker posts only after it has done so  *)
(* itself (OutOfQueue).  Every worker that may still post got there by a   *)
(* claim of its own, so accepted prompts and such workers together are     *)
(* never more than the reservations (Counted).                             *)
(***************************************************************************)
\* Where a session of each kind can be.
WorkerPlaces == {"idle", "claim", "owner", "beat", "ready", "unfit", "begin", "refuse",
                 "post", "mark"}

SessionsPlaced ==
  /\ \A w \in Worker : at[w] \in WorkerPlaces
  /\ at[Sweep] \in {"idle", "sweep"} /\ at[Operator] \in {"idle", "move"}
  /\ \A s \in Session : at[s] # "idle" => job[s] \in Job

\* What a session is about to write is allowed there.
ResultsKnown ==
  /\ \A w \in Worker : at[w] = "mark" => result[w] \in Outcome
  /\ at[Operator] = "move" => result[Operator] \in Targets

QTypes == QueueTypeOK /\ SessionsPlaced /\ ResultsKnown

\* Nobody writes a row that a claim or the sweep has locked, so both find it as they
\* have read it.
Locking(s) == at[s] \in {"claim", "sweep"}

LockKeeps ==
  \A s \in Session : Locking(s) =>
    /\ status[job[s]] = IF at[s] = "claim" THEN "pending" ELSE "reserved"
    /\ count[s] = attempts[job[s]]

LockAlone == \A s, u \in Session : Locking(s) /\ Locking(u) /\ job[s] = job[u] => s = u

Retryable == \A j \in Job : status[j] = "pending" => attempts[j] < MaxAttempts

\* A job is out of the queue before a prompt of it is posted.
OutOfQueue ==
  /\ \A w \in Worker : at[w] = "post" => status[job[w]] \notin {"pending", "reserved"}
  /\ NeverRequeued

\* The workers that claimed a job and may still post it: with the prompts already
\* accepted they are not more than its reservations.
Engaged(j) == {w \in Worker : job[w] = j /\ at[w] \in WorkerPlaces \ {"idle", "claim", "mark"}}

Counted == \A j \in Job : /\ IsFiniteSet(Engaged(j))
                          /\ accepted[j] + Cardinality(Engaged(j)) <= attempts[j]

QInv == QTypes /\ LockKeeps /\ LockAlone /\ Retryable /\ OutOfQueue /\ Counted

\* The actions of workers, in three groups, and of the others.
OtherStep == \/ \E j \in Job : Ages(j)
             \/ SweepReads \/ SweepWrites
             \/ OperatorReads \/ OperatorWrites

ClaimStep(w) == \/ ClaimReads(w) \/ ClaimWrites(w) \/ HeartbeatReads(w)
                \/ HeartbeatWrites(w) \/ Crash(w)

\* Sessions are told apart.
LEMMA SessionsDiffer ==
  /\ Sweep \in Session /\ Operator \in Session
  /\ Worker \subseteq Session
  /\ \A w \in Worker : w # Sweep /\ w # Operator
  /\ Sweep # Operator
  BY QueueConstants DEF Session, Sweep, Operator

\* The queue starts with waiting jobs and idle sessions.
LEMMA QueueStarts ==
  ASSUME QueueInit PROVE QInv
  <1> USE QueueConstants, TargetsLeaveQueue DEF QueueInit
  <1>1. \A s \in Session : at[s] = "idle" OBVIOUS
  <1>2. QueueTypeOK
    BY DEF QueueTypeOK, State, Steps
  <1>3. SessionsPlaced /\ ResultsKnown
    BY <1>1, SessionsDiffer DEF SessionsPlaced, ResultsKnown, WorkerPlaces
  <1>4. LockKeeps /\ LockAlone BY <1>1 DEF LockKeeps, LockAlone, Locking
  <1>5. Retryable BY DEF Retryable
  <1>6. OutOfQueue BY <1>1, SessionsDiffer DEF OutOfQueue, NeverRequeued
  <1>7. ASSUME NEW j \in Job
        PROVE  IsFiniteSet(Engaged(j)) /\ accepted[j] + Cardinality(Engaged(j)) <= attempts[j]
    <2>1. Engaged(j) = {} BY <1>1, SessionsDiffer DEF Engaged
    <2> QED BY <2>1, FS_EmptySet
  <1> QED BY <1>2, <1>3, <1>4, <1>5, <1>6, <1>7 DEF QInv, QTypes, Counted

\* Types and places, over the steps of a worker up to its claim and its death.
LEMMA ClaimTypes ==
  ASSUME QInv, NEW w \in Worker, ClaimStep(w)
  PROVE  QTypes'
  <1> USE SessionsDiffer, QueueConstants
      DEF QInv, QTypes, QueueTypeOK, SessionsPlaced, ResultsKnown, WorkerPlaces, IsAt, MoveTo,
          Finish, SetStatus, row, bounds, Steps
  <1>1. CASE ClaimReads(w)
    BY <1>1 DEF ClaimReads
  <1>2. CASE ClaimWrites(w)
    BY <1>2 DEF ClaimWrites, LockKeeps, Locking, Retryable, State
  <1>3. CASE HeartbeatReads(w) BY <1>3 DEF HeartbeatReads
  <1>4. CASE HeartbeatWrites(w) BY <1>4 DEF HeartbeatWrites
  <1>5. CASE Crash(w) BY <1>5 DEF Crash
  <1> QED BY <1>1, <1>2, <1>3, <1>4, <1>5 DEF ClaimStep

\* Types and places, over the steps of a submission.
LEMMA SubmitTypes ==
  ASSUME QInv, NEW w \in Worker, Submits(w)
  PROVE  QTypes'
  <1> USE SessionsDiffer, QueueConstants
      DEF QInv, QTypes, QueueTypeOK, SessionsPlaced, ResultsKnown, WorkerPlaces, IsAt, MoveTo,
          Finish, SetStatus, row, bounds, Steps
  <1>0. Outcome \subseteq State BY DEF Outcome, State
  <1>1. CASE Readiness(w) BY <1>1 DEF Readiness
  <1>2. CASE TransitionReads(w) BY <1>2 DEF TransitionReads
  <1>3. CASE TransitionWrites(w)
    BY <1>3 DEF TransitionWrites, State, Outcome
  <1>4. CASE PostReturns(w) BY <1>0, <1>4 DEF PostReturns
  <1>5. CASE Marks(w) BY <1>5 DEF Marks
  <1> QED BY <1>1, <1>2, <1>3, <1>4, <1>5 DEF Submits

\* Types and places, over the steps of the sweep, the operator and the clock.
LEMMA OtherTypes ==
  ASSUME QInv, OtherStep
  PROVE  QTypes'
  <1> USE SessionsDiffer, QueueConstants, TargetsLeaveQueue
      DEF QInv, QTypes, QueueTypeOK, SessionsPlaced, ResultsKnown, WorkerPlaces, IsAt, MoveTo,
          Finish, SetStatus, row, session, bounds,
          Steps
  <1>1. ASSUME NEW j \in Job, Ages(j) PROVE QTypes' BY <1>1 DEF Ages
  <1>2. CASE SweepReads BY <1>2 DEF SweepReads
  <1>3. CASE SweepWrites BY <1>3 DEF SweepWrites, State
  <1>4. CASE OperatorReads BY <1>4 DEF OperatorReads
  <1>5. CASE OperatorWrites BY <1>5 DEF OperatorWrites
  <1> QED BY <1>1, <1>2, <1>3, <1>4, <1>5 DEF OtherStep

\* Locks, over the steps of a worker up to its claim and its death.
LEMMA ClaimLocks ==
  ASSUME QInv, NEW w \in Worker, ClaimStep(w)
  PROVE  LockKeeps' /\ LockAlone'
  <1> USE SessionsDiffer
      DEF QInv, QTypes, QueueTypeOK, SessionsPlaced, WorkerPlaces, LockKeeps, LockAlone,
          Locking, Session, IsAt, MoveTo, Finish, SetStatus,
          row, bounds, Locked
  <1>1. CASE ClaimReads(w) BY <1>1 DEF ClaimReads
  <1>2. CASE ClaimWrites(w) BY <1>2 DEF ClaimWrites
  <1>3. CASE HeartbeatReads(w) BY <1>3 DEF HeartbeatReads
  <1>4. CASE HeartbeatWrites(w) BY <1>4 DEF HeartbeatWrites
  <1>5. CASE Crash(w) BY <1>5 DEF Crash
  <1> QED BY <1>1, <1>2, <1>3, <1>4, <1>5 DEF ClaimStep

\* Locks, over the steps of a submission.
LEMMA SubmitLocks ==
  ASSUME QInv, NEW w \in Worker, Submits(w)
  PROVE  LockKeeps' /\ LockAlone'
  <1> USE SessionsDiffer
      DEF QInv, QTypes, QueueTypeOK, SessionsPlaced, WorkerPlaces, LockKeeps, LockAlone,
          Locking, Session, IsAt, MoveTo, Finish, SetStatus,
          row, bounds, Locked
  <1>1. CASE Readiness(w) BY <1>1 DEF Readiness
  <1>2. CASE TransitionReads(w) BY <1>2 DEF TransitionReads
  <1>3. CASE TransitionWrites(w) BY <1>3 DEF TransitionWrites
  <1>4. CASE PostReturns(w) BY <1>4 DEF PostReturns
  <1>5. CASE Marks(w) BY <1>5 DEF Marks
  <1> QED BY <1>1, <1>2, <1>3, <1>4, <1>5 DEF Submits

\* Locks, over the steps of the sweep, the operator and the clock.
LEMMA OtherLocks ==
  ASSUME QInv, OtherStep
  PROVE  LockKeeps' /\ LockAlone'
  <1> USE SessionsDiffer
      DEF QInv, QTypes, QueueTypeOK, SessionsPlaced, WorkerPlaces, LockKeeps, LockAlone,
          Locking, Session, IsAt, MoveTo, Finish, SetStatus,
          row, session, bounds, Locked
  <1>1. ASSUME NEW j \in Job, Ages(j) PROVE LockKeeps' /\ LockAlone'
    BY <1>1 DEF Ages
  <1>2. CASE SweepReads BY <1>2 DEF SweepReads
  <1>3. CASE SweepWrites BY <1>3 DEF SweepWrites
  <1>4. CASE OperatorReads BY <1>4 DEF OperatorReads
  <1>5. CASE OperatorWrites BY <1>5 DEF OperatorWrites
  <1> QED BY <1>1, <1>2, <1>3, <1>4, <1>5 DEF OtherStep

\* A waiting job can be tried again, and a posted one is out of the queue, over the
\* steps of a worker up to its claim and its death.
LEMMA ClaimOrder ==
  ASSUME QInv, NEW w \in Worker, ClaimStep(w)
  PROVE  Retryable' /\ OutOfQueue'
  <1> USE SessionsDiffer
      DEF QInv, QTypes, QueueTypeOK, SessionsPlaced, WorkerPlaces, LockKeeps, Locking,
          Retryable, OutOfQueue, NeverRequeued, IsAt, MoveTo, Finish,
          SetStatus, row, bounds
  <1>1. CASE ClaimReads(w) BY <1>1 DEF ClaimReads
  <1>2. CASE ClaimWrites(w) BY <1>2 DEF ClaimWrites
  <1>3. CASE HeartbeatReads(w) BY <1>3 DEF HeartbeatReads
  <1>4. CASE HeartbeatWrites(w) BY <1>4 DEF HeartbeatWrites
  <1>5. CASE Crash(w) BY <1>5 DEF Crash
  <1> QED BY <1>1, <1>2, <1>3, <1>4, <1>5 DEF ClaimStep

\* The same over the steps of a submission.
LEMMA SubmitOrder ==
  ASSUME QInv, NEW w \in Worker, Submits(w)
  PROVE  Retryable' /\ OutOfQueue'
  <1> USE SessionsDiffer
      DEF QInv, QTypes, QueueTypeOK, SessionsPlaced, ResultsKnown, WorkerPlaces, Retryable,
          OutOfQueue, NeverRequeued, IsAt, MoveTo, Finish,
          SetStatus, row, bounds, Outcome
  <1>1. CASE Readiness(w) BY <1>1 DEF Readiness
  <1>2. CASE TransitionReads(w) BY <1>2 DEF TransitionReads
  <1>3. CASE TransitionWrites(w) BY <1>3 DEF TransitionWrites
  <1>4. CASE PostReturns(w) BY <1>4 DEF PostReturns
  <1>5. CASE Marks(w) BY <1>5 DEF Marks
  <1> QED BY <1>1, <1>2, <1>3, <1>4, <1>5 DEF Submits

\* The same over the steps of the sweep, the operator and the clock.
LEMMA OtherOrder ==
  ASSUME QInv, OtherStep
  PROVE  Retryable' /\ OutOfQueue'
  <1> USE SessionsDiffer
      DEF QInv, QTypes, QueueTypeOK, SessionsPlaced, ResultsKnown, WorkerPlaces, LockKeeps,
          Locking, Retryable, OutOfQueue, NeverRequeued, IsAt, MoveTo,
          Finish, SetStatus, row, session, bounds
  <1>1. ASSUME NEW j \in Job, Ages(j) PROVE Retryable' /\ OutOfQueue'
    BY <1>1 DEF Ages
  <1>2. CASE SweepReads BY <1>2 DEF SweepReads
  <1>3. CASE SweepWrites BY <1>3 DEF SweepWrites
  <1>4. CASE OperatorReads BY <1>4 DEF OperatorReads
  <1>5. CASE OperatorWrites
    BY <1>5, TargetsLeaveQueue DEF OperatorWrites
  <1> QED BY <1>1, <1>2, <1>3, <1>4, <1>5 DEF OtherStep

\* Counting, where no worker becomes engaged and no number changes.
LEMMA CountKept ==
  ASSUME QInv, UNCHANGED <<attempts, accepted>>, \A j \in Job : Engaged(j)' \subseteq Engaged(j)
  PROVE  Counted'
  <1> SUFFICES ASSUME NEW j \in Job
               PROVE  /\ IsFiniteSet(Engaged(j)')
                      /\ accepted'[j] + Cardinality(Engaged(j)') <= attempts'[j]
    BY DEF Counted
  <1>1. /\ IsFiniteSet(Engaged(j)) /\ accepted[j] + Cardinality(Engaged(j)) <= attempts[j]
        /\ accepted[j] \in Nat /\ attempts[j] \in Nat
    BY DEF QInv, Counted, QTypes, QueueTypeOK
  <1>2. /\ IsFiniteSet(Engaged(j)') /\ Cardinality(Engaged(j)') <= Cardinality(Engaged(j))
    BY <1>1, FS_Subset
  <1>3. Cardinality(Engaged(j)) \in Nat /\ Cardinality(Engaged(j)') \in Nat
    BY <1>1, <1>2, FS_CardinalityType
  <1> QED BY <1>1, <1>2, <1>3

\* Counting, when a claim is written: one reservation more, one worker more.
LEMMA CountClaim ==
  ASSUME QInv, NEW w \in Worker, ClaimWrites(w)
  PROVE  Counted'
  <1> USE DEF QInv, QTypes, QueueTypeOK
  <1>0. PICK k \in Job : k = job[w]
    BY SessionsDiffer DEF ClaimWrites, PostReturns, IsAt, SessionsPlaced
  <1>1. /\ at[w] = "claim" /\ w \in Session /\ k \in Job
        /\ at' = [at EXCEPT ![w] = "owner"] /\ UNCHANGED <<job, accepted>>
        /\ attempts' = [attempts EXCEPT ![k] = count[w] + 1] /\ count[w] = attempts[k]
    BY <1>0, SessionsDiffer DEF ClaimWrites, IsAt, MoveTo, LockKeeps, Locking,
       SessionsPlaced
  <1>2. \A j \in Job \ {k} : Engaged(j)' = Engaged(j) /\ attempts'[j] = attempts[j]
    BY <1>0, <1>1, SessionsDiffer DEF Engaged
  <1>3. Engaged(k)' = Engaged(k) \cup {w} /\ w \notin Engaged(k)
    BY <1>0, <1>1, SessionsDiffer DEF Engaged, WorkerPlaces
  <1>4. /\ IsFiniteSet(Engaged(k)) /\ accepted[k] + Cardinality(Engaged(k)) <= attempts[k]
        /\ accepted[k] \in Nat /\ attempts[k] \in Nat
    BY <1>1 DEF Counted
  <1>5. /\ IsFiniteSet(Engaged(k)') /\ Cardinality(Engaged(k)') = Cardinality(Engaged(k)) + 1
        /\ Cardinality(Engaged(k)) \in Nat
    BY <1>3, <1>4, FS_AddElement, FS_CardinalityType
  <1>6. accepted'[k] + Cardinality(Engaged(k)') <= attempts'[k]
    BY <1>1, <1>4, <1>5
  <1>7. ASSUME NEW j \in Job
        PROVE  /\ IsFiniteSet(Engaged(j)')
               /\ accepted'[j] + Cardinality(Engaged(j)') <= attempts'[j]
    <2>1. CASE j = k BY <2>1, <1>5, <1>6
    <2>2. CASE j # k BY <2>2, <1>1, <1>2 DEF Counted
    <2> QED BY <2>1, <2>2
  <1> QED BY <1>7 DEF Counted

\* Counting, when the engine has answered: at most one prompt more, one worker less.
LEMMA CountPost ==
  ASSUME QInv, NEW w \in Worker, PostReturns(w)
  PROVE  Counted'
  <1> USE DEF QInv, QTypes, QueueTypeOK
  <1>0. PICK k \in Job : k = job[w]
    BY SessionsDiffer DEF ClaimWrites, PostReturns, IsAt, SessionsPlaced
  <1>1. /\ at[w] = "post" /\ w \in Session /\ k \in Job
        /\ at' = [at EXCEPT ![w] = "mark"] /\ UNCHANGED <<job, attempts>>
    BY <1>0, SessionsDiffer DEF PostReturns, IsAt, MoveTo, row, SessionsPlaced
  <1>2. /\ \A j \in Job \ {k} : accepted'[j] = accepted[j]
        /\ accepted'[k] \in {accepted[k], accepted[k] + 1}
    BY <1>0, <1>1 DEF PostReturns
  <1>3. \A j \in Job \ {k} : Engaged(j)' = Engaged(j)
    BY <1>0, <1>1, SessionsDiffer DEF Engaged
  <1>4. Engaged(k)' = Engaged(k) \ {w} /\ w \in Engaged(k)
    BY <1>0, <1>1, SessionsDiffer DEF Engaged, WorkerPlaces
  <1>5. /\ IsFiniteSet(Engaged(k)) /\ accepted[k] + Cardinality(Engaged(k)) <= attempts[k]
        /\ accepted[k] \in Nat /\ attempts[k] \in Nat
    BY <1>1 DEF Counted
  <1>6. /\ IsFiniteSet(Engaged(k)') /\ Cardinality(Engaged(k)') = Cardinality(Engaged(k)) - 1
        /\ Cardinality(Engaged(k)) \in Nat
    BY <1>4, <1>5, FS_RemoveElement, FS_CardinalityType
  <1>7. accepted'[k] + Cardinality(Engaged(k)') <= attempts'[k]
    BY <1>1, <1>2, <1>5, <1>6
  <1>8. ASSUME NEW j \in Job
        PROVE  /\ IsFiniteSet(Engaged(j)')
               /\ accepted'[j] + Cardinality(Engaged(j)') <= attempts'[j]
    <2>1. CASE j = k BY <2>1, <1>6, <1>7
    <2>2. CASE j # k BY <2>2, <1>1, <1>2, <1>3 DEF Counted
    <2> QED BY <2>1, <2>2
  <1> QED BY <1>8 DEF Counted

\* Counting, over every step.
LEMMA CountStep ==
  ASSUME QInv, QueueNext PROVE Counted'
  <1> USE SessionsDiffer
      DEF QInv, QTypes, QueueTypeOK, SessionsPlaced, Engaged, WorkerPlaces, IsAt,
          MoveTo, Finish, row, session, bounds
  <1> DEFINE Less == /\ UNCHANGED <<attempts, accepted>>
                     /\ \A j \in Job : Engaged(j)' \subseteq Engaged(j)
  <1>1. ASSUME NEW w \in Worker, ClaimReads(w) PROVE Less BY <1>1 DEF ClaimReads
  <1>2. ASSUME NEW w \in Worker, HeartbeatReads(w) PROVE Less
    BY <1>2 DEF HeartbeatReads
  <1>3. ASSUME NEW w \in Worker, HeartbeatWrites(w) PROVE Less
    BY <1>3 DEF HeartbeatWrites
  <1>4. ASSUME NEW w \in Worker, Crash(w) PROVE Less BY <1>4 DEF Crash
  <1>5. ASSUME NEW w \in Worker, Readiness(w) PROVE Less BY <1>5 DEF Readiness
  <1>6. ASSUME NEW w \in Worker, TransitionReads(w) PROVE Less
    BY <1>6 DEF TransitionReads
  <1>7. ASSUME NEW w \in Worker, TransitionWrites(w) PROVE Less
    BY <1>7 DEF TransitionWrites
  <1>8. ASSUME NEW w \in Worker, Marks(w) PROVE Less BY <1>8 DEF Marks
  <1>9. ASSUME NEW j \in Job, Ages(j) PROVE Less BY <1>9 DEF Ages
  <1>10. ASSUME OtherStep PROVE Less
    BY <1>9, <1>10 DEF OtherStep, SweepReads, SweepWrites, OperatorReads,
       OperatorWrites
  <1> HIDE DEF Less
  <1>11. Less => Counted'
    BY CountKept DEF Less
  <1> QED
    BY <1>1, <1>2, <1>3, <1>4, <1>5, <1>6, <1>7, <1>8, <1>10, <1>11, CountClaim, CountPost
    DEF QueueNext, Submits, Sweeps, OtherStep

\* Every step of the queue keeps the invariant.
LEMMA QueueStep ==
  ASSUME QInv, [QueueNext]_queueVars PROVE QInv'
  <1>1. CASE QueueNext
    <2>1. Counted' BY <1>1, CountStep
    <2>2. ASSUME NEW w \in Worker, ClaimStep(w) PROVE QInv'
      BY <2>1, <2>2, ClaimTypes, ClaimLocks, ClaimOrder DEF QInv
    <2>3. ASSUME NEW w \in Worker, Submits(w) PROVE QInv'
      BY <2>1, <2>3, SubmitTypes, SubmitLocks, SubmitOrder DEF QInv
    <2>4. CASE OtherStep
      BY <2>1, <2>4, OtherTypes, OtherLocks, OtherOrder DEF QInv
    <2> QED BY <1>1, <2>2, <2>3, <2>4 DEF QueueNext, ClaimStep, OtherStep, Sweeps
  <1>2. CASE UNCHANGED queueVars
    BY <1>2 DEF queueVars, row, session, bounds, QInv, QTypes,
       QueueTypeOK, SessionsPlaced, ResultsKnown, LockKeeps, LockAlone, Locking, Retryable,
       OutOfQueue, NeverRequeued, Counted, Engaged
  <1> QED BY <1>1, <1>2

\* The queue's inductive invariant.
THEOREM QueueInvariant == QueueSpec => []QInv
  <1>1. QueueInit => QInv BY QueueStarts
  <1>2. QInv /\ [QueueNext]_queueVars => QInv' BY QueueStep
  <1> QED BY <1>1, <1>2, PTL DEF QueueSpec

\* Once the engine has accepted a prompt of a job, nothing brings its row back.
THEOREM QueueNeverRequeues == QueueSpec => []NeverRequeued
  <1>1. QInv => NeverRequeued BY DEF QInv, OutOfQueue
  <1> QED BY <1>1, QueueInvariant, PTL

\* Never more prompts than reservations.
THEOREM QueueOncePerReservation == QueueSpec => []OncePerReservation
  <1>1. ASSUME QInv, NEW j \in Job PROVE accepted[j] <= attempts[j]
    <2>1. /\ IsFiniteSet(Engaged(j)) /\ accepted[j] + Cardinality(Engaged(j)) <= attempts[j]
          /\ accepted[j] \in Nat /\ attempts[j] \in Nat
      BY <1>1 DEF QInv, Counted, QTypes, QueueTypeOK
    <2>2. Cardinality(Engaged(j)) \in Nat BY <2>1, FS_CardinalityType
    <2> QED BY <2>1, <2>2
  <1>2. QInv => OncePerReservation BY <1>1 DEF OncePerReservation
  <1> QED BY <1>2, QueueInvariant, PTL

\* The type invariant of the queue.
THEOREM QueueTypes == QueueSpec => []QueueTypeOK
  <1>1. QInv => QueueTypeOK BY DEF QInv, QTypes
  <1> QED BY <1>1, QueueInvariant, PTL

JobPlaces == [j \in Job |-> PlaceOf(status[j])]

\* A status that is neither waiting nor reserved is out of the queue.
LEMMA PlaceValues ==
  /\ PlaceOf("pending") = "waiting" /\ PlaceOf("reserved") = "reserved"
  /\ \A st \in State \ {"pending", "reserved"} : PlaceOf(st) = "left"
  BY DEF PlaceOf, State

\* The queue starts as the life cycle does.
LEMMA LifecycleInit ==
  ASSUME QueueInit PROVE Promise!Init
  BY PlaceValues DEF QueueInit, Promise!Init

\* A row that leaves the queue, or has left it, maps to Leave or to no step.
LEMMA LeavesQueue ==
  ASSUME QInv, NEW j \in Job, NEW st \in State \ {"pending", "reserved"},
         status' = [status EXCEPT ![j] = st], UNCHANGED <<attempts, accepted>>
  PROVE  Promise!Leave(j)
  BY PlaceValues DEF QInv, QTypes, QueueTypeOK, Promise!Leave

\* A claim hands a waiting job out.
LEMMA ClaimHandsOut ==
  ASSUME QInv, NEW w \in Worker, ClaimWrites(w)
  PROVE  \E j \in Job : Promise!HandOut(j)
  <1> USE DEF QInv, QTypes, QueueTypeOK
  <1>1. PICK j \in Job : j = job[w]
    BY SessionsDiffer DEF ClaimWrites, IsAt, SessionsPlaced
  <1>2. /\ status[j] = "pending" /\ count[w] = attempts[j] /\ attempts[j] < MaxAttempts
        /\ status' = [status EXCEPT ![j] = "reserved"] /\ accepted' = accepted
        /\ attempts' = [attempts EXCEPT ![j] = attempts[j] + 1]
    BY <1>1, SessionsDiffer DEF ClaimWrites, IsAt, SetStatus, LockKeeps,
       Locking, Retryable
  <1>3. Promise!HandOut(j) BY <1>1, <1>2, PlaceValues DEF Promise!HandOut
  <1> QED BY <1>3

\* The sweep takes a reserved job back, or gives it up after its last attempt.
LEMMA SweepTakesBack ==
  ASSUME QInv, SweepWrites
  PROVE  \E j \in Job : Promise!TakeBack(j) \/ Promise!Leave(j)
  <1> USE DEF QInv, QTypes, QueueTypeOK
  <1>1. PICK j \in Job : j = job[Sweep]
    BY SessionsDiffer DEF SweepWrites, IsAt, SessionsPlaced
  <1>2. /\ status[j] = "reserved" /\ count[Sweep] = attempts[j]
        /\ status' = [status EXCEPT ![j] = IF attempts[j] < MaxAttempts THEN "pending"
                                                                        ELSE "timeout"]
        /\ UNCHANGED <<attempts, accepted>>
    BY <1>1, SessionsDiffer DEF SweepWrites, IsAt, SetStatus, LockKeeps,
       Locking
  <1>3. CASE attempts[j] < MaxAttempts
    BY <1>2, <1>3, PlaceValues DEF Promise!TakeBack
  <1>4. CASE ~(attempts[j] < MaxAttempts)
    BY <1>2, <1>4, LeavesQueue DEF State
  <1> QED BY <1>3, <1>4

\* An accepted prompt is one of a job that has left, with a reservation to spare.
LEMMA PostAccepts ==
  ASSUME QInv, NEW w \in Worker, PostReturns(w)
  PROVE  \/ \E j \in Job : Promise!Accept(j)
         \/ UNCHANGED <<status, attempts, accepted>>
  <1> USE DEF QInv, QTypes, QueueTypeOK
  <1>1. PICK j \in Job : j = job[w]
    BY SessionsDiffer DEF PostReturns, IsAt, SessionsPlaced
  <1>2. /\ at[w] = "post" /\ UNCHANGED <<status, attempts>>
        /\ accepted' \in {accepted, [accepted EXCEPT ![j] = @ + 1]}
    BY <1>1 DEF PostReturns, IsAt, row
  <1>3. status[j] \in State \ {"pending", "reserved"} /\ w \in Engaged(j)
    BY <1>1, <1>2 DEF OutOfQueue, Engaged, WorkerPlaces
  <1>4. /\ IsFiniteSet(Engaged(j)) /\ accepted[j] + Cardinality(Engaged(j)) <= attempts[j]
        /\ accepted[j] \in Nat /\ attempts[j] \in Nat
    BY DEF Counted
  <1>5. Cardinality(Engaged(j)) \in Nat /\ Cardinality(Engaged(j)) # 0
    BY <1>3, <1>4, FS_CardinalityType, FS_EmptySet
  <1>6. accepted[j] < attempts[j] BY <1>4, <1>5
  <1>7. PlaceOf(status[j]) = "left" BY <1>3, PlaceValues
  <1> QED BY <1>2, <1>6, <1>7 DEF Promise!Accept

\* The other writers of the status take the job out of the queue.
LEMMA WritersLeave ==
  ASSUME QInv,
         \/ \E w \in Worker : TransitionWrites(w) \/ Marks(w)
         \/ OperatorWrites
  PROVE  \E j \in Job : Promise!Leave(j)
  <1> DEFINE Leaves == \E j \in Job, st \in State \ {"pending", "reserved"} :
                         /\ status' = [status EXCEPT ![j] = st]
                         /\ UNCHANGED <<attempts, accepted>>
  <1> USE SessionsDiffer
      DEF QInv, QTypes, QueueTypeOK, SessionsPlaced, ResultsKnown, IsAt, SetStatus,
          bounds, State
  <1>1. ASSUME NEW w \in Worker, TransitionWrites(w) PROVE Leaves
    BY <1>1 DEF TransitionWrites
  <1>2. ASSUME NEW w \in Worker, Marks(w) PROVE Leaves
    BY <1>2 DEF Marks, Outcome
  <1>3. ASSUME OperatorWrites PROVE Leaves
    BY <1>3, TargetsLeaveQueue DEF OperatorWrites
  <1>4. Leaves BY <1>1, <1>2, <1>3
  <1> QED BY <1>4, LeavesQueue

\* Every step of the queue is a step of the life cycle or none.
LEMMA LifecycleStep ==
  ASSUME QInv, [QueueNext]_queueVars
  PROVE  [Promise!Next]_<<JobPlaces, attempts, accepted>>
  <1> DEFINE Kept == UNCHANGED <<status, attempts, accepted>>
  <1> USE DEF row, bounds
  <1>1. ASSUME NEW w \in Worker, \/ ClaimReads(w) \/ HeartbeatReads(w)
                                 \/ HeartbeatWrites(w) \/ Crash(w)
        PROVE  Kept
    BY <1>1 DEF ClaimReads, HeartbeatReads, HeartbeatWrites, Crash
  <1>2. ASSUME NEW w \in Worker, Readiness(w) \/ TransitionReads(w) PROVE Kept
    BY <1>2 DEF Readiness, TransitionReads
  <1>3. ASSUME \/ \E j \in Job : Ages(j)
               \/ SweepReads \/ OperatorReads \/ UNCHANGED queueVars
        PROVE  Kept
    BY <1>3 DEF Ages, SweepReads, OperatorReads, queueVars
  <1>4. Kept => UNCHANGED <<JobPlaces, attempts, accepted>> BY DEF JobPlaces
  <1> HIDE DEF Kept
  <1>5. CASE Kept BY <1>4, <1>5
  <1>6. CASE Promise!Next BY <1>6
  <1> QED
    BY <1>1, <1>2, <1>3, <1>5, <1>6, ClaimHandsOut, SweepTakesBack, PostAccepts, WritersLeave
    DEF QueueNext, Submits, Sweeps, Promise!Next, Kept

\* The refinement: the queue keeps the promise of JobLifecycle.
THEOREM QueueKeepsLifecycle == QueueSpec => KeepsLifecycle
  <1>1. QueueInit => Promise!Init BY LifecycleInit
  <1>2. QInv /\ [QueueNext]_queueVars => [Promise!Next]_<<JobPlaces, attempts, accepted>>
    BY LifecycleStep
  <1> QED BY <1>1, <1>2, QueueInvariant, PTL DEF QueueSpec, KeepsLifecycle, Promise!Spec, JobPlaces

-----------------------------------------------------------------------------
(***************************************************************************)
(* The supervisors of the local stack, for any number of them, of services *)
(* and of faults.  Of the trees: a tree is in the list of what its         *)
(* supervisor owns from the moment its job object exists, and the one      *)
(* before that moment belongs to the service being started; so the stop    *)
(* before a relaunch and the finally clause miss none.  Of the lock: whom a *)
(* supervisor found running when it was started has ended or still runs    *)
(* when it reads the lock, so a lock it unlinks was taken after that.      *)
(***************************************************************************)
\* A step that changes the record of one supervisor only, and keeps its types.
OnlyRun(s) == /\ run'[s] \in RunState /\ run' = [run EXCEPT ![s] = run'[s]]

\* A supervisor that is given a well-typed record.
LEMMA GivenType ==
  ASSUME SupervisorTypeOK, NEW s \in Supervisors, NEW r \in RunState,
         run' = [run EXCEPT ![s] = r]
  PROVE  OnlyRun(s) /\ run'[s] = r /\ run' \in [Supervisors -> RunState]
  BY DEF SupervisorTypeOK, OnlyRun

\* Moving on keeps the fields of a supervisor.
LEMMA GoType ==
  ASSUME SupervisorTypeOK, NEW s \in Supervisors, NEW p, Go(s, p),
         p \in {"create", "write", "read", "unlink", "look", "assign", "wait", "verify",
                "stop", "backoff", "watch", "closing", "drop"}
  PROVE  OnlyRun(s) /\ run'[s] = [run[s] EXCEPT !.pc = p]
  <1>1. run[s] \in RunState /\ run \in [Supervisors -> RunState] BY DEF SupervisorTypeOK
  <1>2. run'[s] = [run[s] EXCEPT !.pc = p] BY <1>1 DEF Go
  <1>3. run' = [run EXCEPT ![s] = run'[s]] BY <1>1, <1>2 DEF Go
  <1>4. [run[s] EXCEPT !.pc = p] \in RunState BY <1>1 DEF RunState
  <1> QED BY <1>2, <1>3, <1>4 DEF OnlyRun

\* A supervisor that ends.
LEMMA EndType ==
  ASSUME SupervisorTypeOK, NEW s \in Supervisors, End(s)
  PROVE  OnlyRun(s) /\ run'[s] = Fresh("ended")
  <1>1. Fresh("ended") \in RunState
    BY SupervisorAssumption DEF Fresh, RunState, Services
  <1> QED BY <1>1 DEF SupervisorTypeOK, End, OnlyRun

\* The steps on the lock file keep the types.
LEMMA LockTypes ==
  ASSUME SupervisorTypeOK, NEW s \in Supervisors,
         \/ Start(s) \/ Create(s) \/ WriteLock(s) \/ ReadLock(s) \/ UnlinkLock(s)
         \/ Release(s) \/ DropLock(s)
  PROVE  SupervisorTypeOK' /\ OnlyRun(s)
  <1> USE SupervisorAssumption DEF surroundings
  <1>0. run[s] \in RunState BY DEF SupervisorTypeOK
  <1>a. End(s) => OnlyRun(s) BY EndType
  <1>b. \A p \in {"write", "read", "unlink", "drop", "look"} : Go(s, p) => OnlyRun(s)
    BY GoType
  <1>c. OnlyRun(s) => run' \in [Supervisors -> RunState]
    BY DEF OnlyRun, SupervisorTypeOK
  <1>d. Unlinked(s) => /\ lock' = NoLock /\ faults' \in 0 .. MaxFaults
                       /\ stolen' \subseteq Supervisors \X Supervisors \X BOOLEAN
    <2>1. lock \in Supervisors => (lock \in run[s].began) \in BOOLEAN OBVIOUS
    <2>2. ASSUME lock \in Supervisors
          PROVE  <<s, lock, lock \in run[s].began>> \in Supervisors \X Supervisors \X BOOLEAN
      BY <2>1, <2>2
    <2> QED BY <2>2 DEF Unlinked, SupervisorTypeOK
  <1>1. CASE Start(s)
    <2> DEFINE b == {t \in Supervisors : Running(t)}
    <2> DEFINE r == [run[s] EXCEPT !.pc = "create", !.began = b]
    <2>1. r \in RunState BY <1>0 DEF RunState
    <2>2. run' = [run EXCEPT ![s] = r] BY <1>1 DEF Start, SupervisorTypeOK
    <2> HIDE DEF r
    <2>3. OnlyRun(s) BY <2>1, <2>2, GivenType
    <2> QED BY <1>c, <1>1, <2>3 DEF Start, SupervisorTypeOK
  <1>2. CASE Create(s) BY <1>b, <1>c, <1>2 DEF Create, SupervisorTypeOK
  <1>3. CASE WriteLock(s)
    <2> DEFINE r == [run[s] EXCEPT !.pc = "look", !.began = {}]
    <2>1. r \in RunState BY <1>0 DEF RunState
    <2>2. run' = [run EXCEPT ![s] = r] BY <1>3 DEF WriteLock, SupervisorTypeOK
    <2> HIDE DEF r
    <2>3. OnlyRun(s) BY <2>1, <2>2, GivenType
    <2> QED BY <1>c, <1>3, <2>3 DEF WriteLock, SupervisorTypeOK
  <1>4. CASE ReadLock(s) BY <1>a, <1>b, <1>c, <1>4 DEF ReadLock, SupervisorTypeOK
  <1>5. CASE UnlinkLock(s)
    <2>1. ASSUME run' = [run EXCEPT ![s].pc = "create", ![s].attempt = 2] PROVE OnlyRun(s)
      <3> DEFINE r == [run[s] EXCEPT !.pc = "create", !.attempt = 2]
      <3>1. 2 \in 1 .. 2 /\ run[s].attempt \in 1 .. 2 BY <1>0 DEF RunState
      <3>3. r \in RunState BY <1>0, <3>1 DEF RunState
      <3>2. run' = [run EXCEPT ![s] = r] BY <2>1 DEF SupervisorTypeOK
      <3> HIDE DEF r
      <3> QED BY <3>2, <3>3, GivenType
    <2> QED BY <1>a, <1>c, <1>d, <1>5, <2>1 DEF UnlinkLock, SupervisorTypeOK
  <1>6. CASE Release(s) BY <1>a, <1>b, <1>c, <1>6 DEF Release, SupervisorTypeOK
  <1>7. CASE DropLock(s) BY <1>a, <1>c, <1>d, <1>7 DEF DropLock, SupervisorTypeOK
  <1> QED BY <1>1, <1>2, <1>3, <1>4, <1>5, <1>6, <1>7

\* The steps of starting, watching and replacing keep the types.
LEMMA RunTypes ==
  ASSUME SupervisorTypeOK, NEW s \in Supervisors,
         \/ Look(s) \/ Assign(s) \/ LaunchFails(s) \/ WaitReady(s) \/ WaitExited(s)
         \/ WaitTimesOut(s) \/ Verify(s) \/ Watch(s) \/ Stop(s) \/ StopUnconfirmed(s)
         \/ Relaunch(s)
  PROVE  SupervisorTypeOK' /\ OnlyRun(s)
  <1> USE SupervisorAssumption DEF surroundings, Fault
  <1>0. /\ run[s] \in RunState /\ run[s].service \in Services
        /\ child \in [Supervisors -> [Services -> Trees]]
    BY DEF SupervisorTypeOK, RunState
  <1>a. \A p \in {"assign", "closing", "backoff", "verify", "stop"} : Go(s, p) => OnlyRun(s)
    BY GoType
  <1>b. OnlyRun(s) => run' \in [Supervisors -> RunState]
    BY DEF OnlyRun, SupervisorTypeOK
  <1>c. ASSUME NEW tree \in Trees, Becomes(s, tree)
        PROVE  child' \in [Supervisors -> [Services -> Trees]]
    BY <1>0, <1>c DEF Becomes
  <1>d. {"new", "starting", "gone"} \subseteq Trees BY DEF Trees, Rooted
  <1>e. ASSUME NEW r \in RunState, run' = [run EXCEPT ![s] = r] PROVE OnlyRun(s)
    BY <1>e, GivenType
  <1>f. Proceed(s) => OnlyRun(s)
    <2> DEFINE i == run[s].service
               w == run[s].task = "watch" \/ i = Last
               r == [run[s] EXCEPT !.pc = IF w THEN "watch" ELSE "look",
                                   !.task = IF w THEN "watch" ELSE "boot",
                                   !.service = After(i)]
    <2>1. After(i) \in Services BY <1>0 DEF After, Services
    <2>2. r \in RunState BY <1>0, <2>1 DEF RunState
    <2>3. Proceed(s) => run' = [run EXCEPT ![s] = r] BY <1>0 DEF Proceed, SupervisorTypeOK
    <2> HIDE DEF r
    <2> QED BY <2>2, <2>3, <1>e
  <1>g. Replacing(s) => OnlyRun(s)
    <2> DEFINE r == [run[s] EXCEPT !.pc = "backoff",
                                   !.task = IF run[s].task = "boot" THEN "retry" ELSE run[s].task]
    <2>1. r \in RunState BY <1>0 DEF RunState
    <2>2. Replacing(s) => run' = [run EXCEPT ![s] = r] BY <1>0 DEF Replacing, SupervisorTypeOK
    <2> HIDE DEF r
    <2> QED BY <2>1, <2>2, <1>e
  <1>1. CASE Look(s)
    <2>1. OnlyRun(s) BY <1>a, <1>f, <1>1 DEF Look
    <2>2. child' \in [Supervisors -> [Services -> Trees]] BY <1>0, <1>c, <1>d, <1>1 DEF Look
    <2> QED BY <1>b, <1>1, <2>1, <2>2 DEF Look, SupervisorTypeOK
  <1>2. CASE Assign(s)
    <2> DEFINE o == run[s].owned \cup {run[s].service}
               r == [run[s] EXCEPT !.pc = "wait", !.owned = o]
    <2>1. r \in RunState BY <1>0 DEF RunState
    <2>2. run' = [run EXCEPT ![s] = r] BY <1>2 DEF Assign, SupervisorTypeOK
    <2> HIDE DEF r
    <2>3. OnlyRun(s) BY <2>1, <2>2, <1>e
    <2>4. child' \in [Supervisors -> [Services -> Trees]] BY <1>c, <1>d, <1>2 DEF Assign
    <2> QED BY <1>b, <1>2, <2>3, <2>4 DEF Assign, SupervisorTypeOK
  <1>3. CASE LaunchFails(s)
    <2>1. OnlyRun(s) BY <1>a, <1>3 DEF LaunchFails
    <2>2. child' \in [Supervisors -> [Services -> Trees]] BY <1>c, <1>d, <1>3 DEF LaunchFails
    <2> QED BY <1>b, <1>3, <2>1, <2>2 DEF LaunchFails, SupervisorTypeOK
  <1>4. CASE WaitReady(s) \/ WaitExited(s) \/ WaitTimesOut(s)
    <2>1. OnlyRun(s) BY <1>a, <1>4 DEF WaitReady, WaitExited, WaitTimesOut
    <2> QED BY <1>b, <1>4, <2>1 DEF WaitReady, WaitExited, WaitTimesOut, SupervisorTypeOK
  <1>5. CASE Verify(s)
    <2>1. OnlyRun(s) BY <1>a, <1>f, <1>5 DEF Verify
    <2> QED BY <1>b, <1>5, <2>1 DEF Verify, SupervisorTypeOK
  <1>6. CASE Watch(s)
    <2> DEFINE i == run[s].service
               n == IF Answers(i) THEN 0 ELSE run[s].missed[i] + 1
               k == IF i \in run[s].owned THEN n % FailureThreshold ELSE 0
               q == [run[s] EXCEPT !.pc = "stop", !.missed[i] = 0]
               r == [run[s] EXCEPT !.service = After(i), !.missed[i] = k]
    <2>1. n \in Nat /\ k \in 0 .. FailureThreshold - 1
      BY <1>0 DEF RunState
    <2>2. run[s].missed \in [Services -> 0 .. FailureThreshold - 1]
          /\ 0 \in 0 .. FailureThreshold - 1
      BY <1>0 DEF RunState
    <2> HIDE DEF k, n
    <2>3. After(i) \in Services BY <1>0 DEF After, Services
    <2>4. q \in RunState /\ r \in RunState BY <1>0, <2>1, <2>2, <2>3 DEF RunState
    <2>5. run' = [run EXCEPT ![s] = q] \/ run' = [run EXCEPT ![s] = r]
      <3>1. \/ run' = [run EXCEPT ![s].pc = "stop", ![s].missed[i] = 0]
            \/ run' = [run EXCEPT ![s].service = After(i), ![s].missed[i] = k]
        BY <1>6 DEF Watch, k, n
      <3>2. [run EXCEPT ![s].pc = "stop", ![s].missed[i] = 0] = [run EXCEPT ![s] = q]
        BY <1>0 DEF SupervisorTypeOK, RunState
      <3>3. [run EXCEPT ![s].service = After(i), ![s].missed[i] = k] = [run EXCEPT ![s] = r]
        BY <1>0 DEF SupervisorTypeOK, RunState
      <3> QED BY <3>1, <3>2, <3>3
    <2> HIDE DEF q, r
    <2>6. OnlyRun(s) BY <2>4, <2>5, <1>e
    <2> QED BY <1>b, <1>6, <2>6 DEF Watch, SupervisorTypeOK
  <1>7. CASE Stop(s)
    <2>1. OnlyRun(s) BY <1>g, <1>7 DEF Stop
    <2>2. child' \in [Supervisors -> [Services -> Trees]]
      BY <1>c, <1>d, <1>7 DEF Stop, StoppedTree
    <2> QED BY <1>b, <1>7, <2>1, <2>2 DEF Stop, SupervisorTypeOK
  <1>8. CASE StopUnconfirmed(s)
    <2>1. OnlyRun(s) BY <1>g, <1>8 DEF StopUnconfirmed
    <2>2. child' \in [Supervisors -> [Services -> Trees]]
      BY <1>c, <1>d, <1>8 DEF StopUnconfirmed
    <2>3. listener' \in [Services -> Listeners]
      BY <1>0, <1>8 DEF StopUnconfirmed, SupervisorTypeOK, Listeners
    <2> QED BY <1>b, <1>8, <2>1, <2>2, <2>3 DEF StopUnconfirmed, SupervisorTypeOK
  <1>9. CASE Relaunch(s)
    <2>1. OnlyRun(s) BY <1>a, <1>9 DEF Relaunch
    <2>2. child' \in [Supervisors -> [Services -> Trees]] BY <1>c, <1>d, <1>9 DEF Relaunch
    <2> QED BY <1>b, <1>9, <2>1, <2>2 DEF Relaunch, SupervisorTypeOK
  <1> QED BY <1>1, <1>2, <1>3, <1>4, <1>5, <1>6, <1>7, <1>8, <1>9

\* The end of a supervisor and the faults of its children keep the types.
LEMMA EndTypes ==
  ASSUME SupervisorTypeOK, NEW s \in Supervisors,
         \/ Interrupt(s) \/ CloseChild(s) \/ Die(s)
         \/ \E i \in Services : Serve(s, i) \/ EngineReady(s, i) \/ ChildFails(s, i)
  PROVE  SupervisorTypeOK'
  <1> USE DEF SupervisorTypeOK, Fault
  <1>a. End(s) \/ Go(s, "closing") => run' \in [Supervisors -> RunState]
    BY EndType, GoType DEF OnlyRun
  <1>b. {"gone", "hung", "live", "tail", "ready"} \subseteq Trees
    BY DEF Trees, Rooted, Listening
  <1>c. listener' \in Survivors(s) => listener' \in [Services -> Listeners] BY DEF Survivors
  <1>d. ASSUME NEW i \in Services, NEW tree \in Trees, child' = [child EXCEPT ![s][i] = tree]
        PROVE  child' \in [Supervisors -> [Services -> Trees]]
    BY <1>d
  <1>e. ASSUME NEW c \in [Services -> Trees], child' = [child EXCEPT ![s] = c]
        PROVE  child' \in [Supervisors -> [Services -> Trees]]
    BY <1>e
  <1>1. CASE Interrupt(s)
    <2> DEFINE c == [i \in Services |-> IF child[s][i] = "new" THEN "gone" ELSE child[s][i]]
    <2>1. c \in [Services -> Trees] BY <1>b
    <2>2. child' = [child EXCEPT ![s] = c] BY <1>1 DEF Interrupt
    <2> HIDE DEF c
    <2>3. child' \in [Supervisors -> [Services -> Trees]] BY <2>1, <2>2, <1>e
    <2> QED BY <1>a, <1>c, <1>1, <2>3 DEF Interrupt
  <1>2. CASE CloseChild(s)
    <2>1. child' \in [Supervisors -> [Services -> Trees]]
      <3>1. PICK i \in Services : child' = [child EXCEPT ![s][i] = "gone"]
        BY <1>2 DEF CloseChild, StoppedTree, RunState
      <3> QED BY <3>1, <1>b, <1>d
    <2> QED BY <1>2, <2>1 DEF CloseChild
  <1>3. CASE Die(s)
    <2> DEFINE c == [i \in Services |-> "gone"]
    <2>1. c \in [Services -> Trees] BY <1>b
    <2>2. child' = [child EXCEPT ![s] = c] BY <1>3 DEF Die
    <2> HIDE DEF c
    <2>3. child' \in [Supervisors -> [Services -> Trees]] BY <2>1, <2>2, <1>e
    <2> QED BY <1>a, <1>c, <1>3, <2>3, SupervisorAssumption DEF Die
  <1>4. ASSUME NEW i \in Services, Serve(s, i) \/ EngineReady(s, i) \/ ChildFails(s, i)
        PROVE  SupervisorTypeOK'
    <2>1. PICK tree \in Trees : child' = [child EXCEPT ![s][i] = tree]
      BY <1>b, <1>4 DEF Serve, EngineReady, ChildFails
    <2>2. child' \in [Supervisors -> [Services -> Trees]] BY <2>1, <1>d
    <2> QED BY <1>4, <2>2, SupervisorAssumption DEF Serve, EngineReady, ChildFails
  <1> QED BY <1>1, <1>2, <1>3, <1>4

\* The type invariant of the supervisors.
THEOREM SupervisorTypes == SupervisorSpec => []SupervisorTypeOK
  <1> USE SupervisorAssumption
  <1>1. ASSUME SupervisorInit PROVE SupervisorTypeOK
    <2>1. Fresh("off") \in RunState BY DEF Fresh, RunState, Services
    <2> QED BY <1>1, <2>1 DEF SupervisorInit, SupervisorTypeOK, Trees, Listeners
  <1>2. ASSUME SupervisorTypeOK, [SupervisorNext]_supervisorVars PROVE SupervisorTypeOK'
    <2>1. ASSUME NEW i \in Services, ListenerComes(i) \/ ListenerLeaves(i)
          PROVE  SupervisorTypeOK'
      <3>1. listener' \in [Services -> Listeners]
        BY <1>2, <2>1 DEF ListenerComes, ListenerLeaves, SupervisorTypeOK, Listeners
      <3> QED BY <1>2, <2>1, <3>1 DEF ListenerComes, ListenerLeaves, SupervisorTypeOK, Fault
    <2>2. CASE UNCHANGED supervisorVars
      BY <1>2, <2>2 DEF supervisorVars, SupervisorTypeOK
    <2> QED BY <1>2, <2>1, <2>2, LockTypes, RunTypes, EndTypes DEF SupervisorNext, Step
  <1> QED BY <1>1, <1>2, PTL DEF SupervisorSpec

\* The trees a supervisor has launched and not stopped are in the list of what it owns,
\* but for the one between its creation and its job object; where it starts and where it
\* ends there is none.
Outside == {"off", "create", "write", "read", "unlink", "drop", "ended"}

Kept(s, i) == child[s][i] # "gone" => i \in run[s].owned /\ child[s][i] # "new"

TreesOf(s) ==
  /\ run[s].pc # "assign" => \A i \in Services : Kept(s, i)
  /\ run[s].pc = "assign" => /\ Mine(s) = "new"
                             /\ \A i \in Services \ {run[s].service} : Kept(s, i)
  /\ run[s].pc \in Outside => \A i \in Services : child[s][i] = "gone"
  /\ run[s].pc = "backoff" => Mine(s) = "gone"

\* A supervisor without trees.
LEMMA NoTrees ==
  ASSUME NEW s \in Supervisors, \A i \in Services : child'[s][i] = "gone",
         run'[s].pc # "assign", run'[s].service \in Services
  PROVE  TreesOf(s)'
  BY DEF TreesOf, Kept, Mine

\* The trees of a supervisor over its steps on the lock file.
LEMMA LockTrees ==
  ASSUME SupervisorTypeOK, SupervisorTypeOK', NEW s \in Supervisors, TreesOf(s),
         \/ Start(s) \/ Create(s) \/ WriteLock(s) \/ ReadLock(s) \/ UnlinkLock(s)
         \/ Release(s) \/ DropLock(s)
  PROVE  TreesOf(s)'
  <1>0. child' = child
    BY DEF Start, Create, WriteLock, ReadLock, UnlinkLock, Release, DropLock, surroundings
  <1>1. \A i \in Services : child[s][i] = "gone"
    <2>1. CASE ~Release(s)
      BY <2>1 DEF Start, Create, WriteLock, ReadLock, UnlinkLock, DropLock, At, TreesOf, Outside
    <2>2. CASE Release(s) BY <2>2 DEF Release, At, TreesOf, Kept
    <2> QED BY <2>1, <2>2
  <1>2. run'[s].service \in Services BY DEF SupervisorTypeOK, RunState
  <1>3. run[s] \in RunState /\ run \in [Supervisors -> RunState] BY DEF SupervisorTypeOK
  <1>4. ASSUME End(s) PROVE run'[s].pc # "assign"
    BY <1>4, EndType DEF Fresh
  <1>5. ASSUME NEW p \in {"write", "read", "unlink", "drop"}, Go(s, p)
        PROVE  run'[s].pc # "assign"
    BY <1>3, <1>5 DEF Go, RunState
  <1>6. run'[s].pc # "assign"
    <2>1. CASE Start(s) BY <2>1, <1>3 DEF Start, RunState
    <2>2. CASE Create(s) BY <2>2, <1>5 DEF Create
    <2>3. CASE WriteLock(s) BY <2>3, <1>3 DEF WriteLock, RunState
    <2>4. CASE ReadLock(s) BY <2>4, <1>4, <1>5 DEF ReadLock
    <2>5. CASE UnlinkLock(s)
      <3>1. ASSUME run' = [run EXCEPT ![s].pc = "create", ![s].attempt = 2]
            PROVE  run'[s].pc # "assign"
        BY <3>1, <1>3 DEF RunState
      <3> QED BY <2>5, <3>1, <1>4 DEF UnlinkLock
    <2>6. CASE Release(s) BY <2>6, <1>4, <1>5 DEF Release
    <2>7. CASE DropLock(s) BY <2>7, <1>4 DEF DropLock
    <2> QED BY <2>1, <2>2, <2>3, <2>4, <2>5, <2>6, <2>7
  <1> QED BY <1>0, <1>1, <1>2, <1>6, NoTrees

\* The same over starting, watching and replacing.
LEMMA RunTrees ==
  ASSUME SupervisorTypeOK, NEW s \in Supervisors, TreesOf(s),
         \/ Look(s) \/ Assign(s) \/ LaunchFails(s) \/ WaitReady(s) \/ WaitExited(s)
         \/ WaitTimesOut(s) \/ Verify(s) \/ Watch(s) \/ Stop(s) \/ StopUnconfirmed(s)
         \/ Relaunch(s)
  PROVE  TreesOf(s)'
  <1> USE DEF surroundings, Fault, At
  <1>0. /\ run[s] \in RunState /\ run \in [Supervisors -> RunState]
        /\ run[s].service \in Services /\ child \in [Supervisors -> [Services -> Trees]]
    BY DEF SupervisorTypeOK, RunState
  <1>a. ASSUME NEW p \in {"assign", "closing", "backoff", "verify", "stop"}, Go(s, p)
        PROVE  run'[s].pc = p /\ run'[s].owned = run[s].owned /\ run'[s].service = run[s].service
    BY <1>0, <1>a DEF Go, RunState
  <1>b. ASSUME NEW tree, Becomes(s, tree)
        PROVE  child'[s] = [child[s] EXCEPT ![run[s].service] = tree]
    BY <1>0, <1>b DEF Becomes
  <1>c. ASSUME Proceed(s) PROVE run'[s].pc \in {"watch", "look"} /\ run'[s].owned = run[s].owned
    BY <1>0, <1>c DEF Proceed, RunState
  <1>d. ASSUME Replacing(s)
        PROVE  run'[s].pc = "backoff" /\ run'[s].owned = run[s].owned
               /\ run'[s].service = run[s].service
    BY <1>0, <1>d DEF Replacing, RunState
  \* It moves on and leaves its trees alone.
  <1>e. ASSUME child'[s] = child[s], run'[s].owned = run[s].owned,
               run[s].pc \notin Outside \cup {"assign"},
               run'[s].pc \notin Outside \cup {"assign", "backoff"}
        PROVE  TreesOf(s)'
    BY <1>e DEF TreesOf, Kept
  <1>1. CASE Look(s)
    <2>1. CASE Proceed(s) /\ UNCHANGED child BY <1>c, <1>e, <1>1, <2>1 DEF Look, Outside
    <2>2. CASE Go(s, "closing") /\ UNCHANGED child BY <1>a, <1>e, <1>1, <2>2 DEF Look, Outside
    <2>3. CASE Becomes(s, "new") /\ Go(s, "assign")
      <3>1. /\ run'[s].pc = "assign" /\ run'[s].owned = run[s].owned
            /\ run'[s].service = run[s].service /\ run[s].pc = "look"
        BY <1>a, <1>1, <2>3 DEF Look
      <3>2. child'[s] = [child[s] EXCEPT ![run[s].service] = "new"] BY <1>b, <2>3
      <3> QED BY <1>0, <3>1, <3>2 DEF TreesOf, Kept, Mine, Outside
    <2> QED BY <1>1, <2>1, <2>2, <2>3 DEF Look
  <1>2. CASE Assign(s)
    <2>1. /\ run'[s].pc = "wait" /\ run'[s].owned = run[s].owned \cup {run[s].service}
          /\ run[s].pc = "assign"
      BY <1>0, <1>2 DEF Assign, RunState
    <2>2. child'[s] = [child[s] EXCEPT ![run[s].service] = "starting"] BY <1>b, <1>2 DEF Assign
    <2> QED BY <1>0, <2>1, <2>2 DEF TreesOf, Kept, Outside
  <1>3. CASE LaunchFails(s)
    <2>1. /\ run'[s].pc \in {"closing", "backoff"} /\ run'[s].owned = run[s].owned
          /\ run'[s].service = run[s].service /\ run[s].pc = "assign"
      BY <1>a, <1>3 DEF LaunchFails
    <2>2. child'[s] = [child[s] EXCEPT ![run[s].service] = "gone"] BY <1>b, <1>3 DEF LaunchFails
    <2> QED BY <1>0, <2>1, <2>2 DEF TreesOf, Kept, Outside, Mine
  <1>4. CASE WaitReady(s) \/ WaitExited(s) \/ WaitTimesOut(s)
    BY <1>a, <1>e, <1>4 DEF WaitReady, WaitExited, WaitTimesOut, Outside
  <1>5. CASE Verify(s) BY <1>a, <1>c, <1>e, <1>5 DEF Verify, Outside
  <1>6. CASE Watch(s)
    <2> DEFINE i == run[s].service
               n == IF Answers(i) THEN 0 ELSE run[s].missed[i] + 1
               k == IF i \in run[s].owned THEN n % FailureThreshold ELSE 0
    <2>1. \/ run' = [run EXCEPT ![s].pc = "stop", ![s].missed[i] = 0]
          \/ run' = [run EXCEPT ![s].service = After(i), ![s].missed[i] = k]
      BY <1>6 DEF Watch
    <2> HIDE DEF k, n
    <2>2. run'[s].pc \in {"stop", "watch"} /\ run'[s].owned = run[s].owned /\ run[s].pc = "watch"
      BY <1>0, <1>6, <2>1 DEF Watch, RunState
    <2> QED BY <1>e, <1>6, <2>2 DEF Watch, Outside
  <1>7. CASE Stop(s) \/ StopUnconfirmed(s)
    <2>1. /\ run[s].pc = "stop" /\ run'[s].pc = "backoff" /\ run'[s].owned = run[s].owned
          /\ run'[s].service = run[s].service
      BY <1>d, <1>7 DEF Stop, StopUnconfirmed
    <2>2. child'[s] = [child[s] EXCEPT ![run[s].service] = "gone"]
      BY <1>b, <1>7 DEF Stop, StopUnconfirmed, StoppedTree
    <2> QED BY <1>0, <2>1, <2>2 DEF TreesOf, Kept, Outside, Mine
  <1>8. CASE Relaunch(s)
    <2>1. /\ run'[s].pc = "assign" /\ run'[s].owned = run[s].owned
          /\ run'[s].service = run[s].service /\ run[s].pc = "backoff"
      BY <1>a, <1>8 DEF Relaunch
    <2>2. child'[s] = [child[s] EXCEPT ![run[s].service] = "new"] BY <1>b, <1>8 DEF Relaunch
    <2> QED BY <1>0, <2>1, <2>2 DEF TreesOf, Kept, Mine, Outside
  <1> QED BY <1>1, <1>2, <1>3, <1>4, <1>5, <1>6, <1>7, <1>8

\* The same over the end of a supervisor and over what happens to its children.
LEMMA EndTrees ==
  ASSUME SupervisorTypeOK, NEW s \in Supervisors, TreesOf(s),
         \/ Interrupt(s) \/ CloseChild(s) \/ Die(s)
         \/ \E i \in Services : Serve(s, i) \/ EngineReady(s, i) \/ ChildFails(s, i)
  PROVE  TreesOf(s)'
  <1> USE DEF At, Fault
  <1>0. /\ run[s] \in RunState /\ run \in [Supervisors -> RunState]
        /\ run[s].service \in Services /\ child \in [Supervisors -> [Services -> Trees]]
    BY DEF SupervisorTypeOK, RunState
  <1>a. End(s) => run'[s].pc = "ended" /\ run'[s].service = 1
    BY EndType DEF Fresh
  <1>b. 1 \in Services BY SupervisorAssumption DEF Services
  <1>1. CASE Interrupt(s)
    <2> DEFINE c == [i \in Services |-> IF child[s][i] = "new" THEN "gone" ELSE child[s][i]]
    <2>1. child' = [child EXCEPT ![s] = c] BY <1>0, <1>1 DEF Interrupt
    <2>2. child'[s] = c BY <1>0, <2>1
    <2>3. CASE Running(s)
      <3>1. /\ run'[s].pc = "closing" /\ run'[s].owned = run[s].owned
            /\ run'[s].service = run[s].service
        BY <1>0, <1>1, <2>3 DEF Interrupt, Go, RunState
      <3>2. ASSUME NEW i \in Services PROVE Kept(s, i)'
        BY <1>0, <2>2, <3>1, <3>2 DEF TreesOf, Kept, Mine
      <3> QED BY <3>1, <3>2 DEF TreesOf, Outside
    <2>4. CASE ~Running(s)
      <3>1. run[s].pc \in Outside BY <1>1, <2>4 DEF Interrupt, Running, Alive, Outside
      <3>2. \A i \in Services : child'[s][i] = "gone" BY <2>2, <3>1 DEF TreesOf
      <3>3. run'[s].pc = "ended" /\ run'[s].service = 1 BY <1>a, <1>1, <2>4 DEF Interrupt
      <3> QED BY <1>b, <3>2, <3>3, NoTrees
    <2> QED BY <2>3, <2>4
  <1>2. CASE Die(s)
    <2>1. \A i \in Services : child'[s][i] = "gone" BY <1>0, <1>2 DEF Die
    <2>2. run'[s].pc = "ended" /\ run'[s].service = 1 BY <1>a, <1>2 DEF Die
    <2> QED BY <1>b, <2>1, <2>2, NoTrees
  \* A tree that is there and is not new becomes another one.
  <1>c. ASSUME NEW i \in Services, NEW tree, tree # "new", UNCHANGED run,
               child[s][i] \notin {"new", "gone"}, child' = [child EXCEPT ![s][i] = tree]
        PROVE  TreesOf(s)'
    <2>1. child'[s] = [child[s] EXCEPT ![i] = tree] BY <1>0, <1>c
    <2>2. ~(run[s].pc \in {"assign", "backoff"} /\ i = run[s].service)
      BY <1>c DEF TreesOf, Mine
    <2>3. run[s].pc \notin Outside BY <1>c DEF TreesOf
    <2> QED BY <1>0, <1>c, <2>1, <2>2, <2>3 DEF TreesOf, Kept, Mine
  <1>3. CASE CloseChild(s)
    <2>1. PICK i \in Services : child[s][i] # "gone" /\ child' = [child EXCEPT ![s][i] = "gone"]
      BY <1>0, <1>3 DEF CloseChild, StoppedTree, RunState
    <2>2. child[s][i] # "new" BY <1>3 DEF CloseChild, TreesOf, Kept
    <2> QED BY <1>c, <1>3, <2>1, <2>2 DEF CloseChild
  <1>4. ASSUME NEW i \in Services, Serve(s, i) \/ EngineReady(s, i) \/ ChildFails(s, i)
        PROVE  TreesOf(s)'
    <2>1. UNCHANGED run BY <1>4 DEF Serve, EngineReady, ChildFails
    <2>2. CASE Serve(s, i) BY <1>c, <2>1, <2>2 DEF Serve
    <2>3. CASE EngineReady(s, i) BY <1>c, <2>1, <2>3 DEF EngineReady
    <2>4. CASE ChildFails(s, i) BY <1>c, <2>1, <2>4 DEF ChildFails, Rooted
    <2> QED BY <1>4, <2>2, <2>3, <2>4
  <1> QED BY <1>1, <1>2, <1>3, <1>4

\* A step of one supervisor leaves the trees of the others alone.
LEMMA OthersTrees ==
  ASSUME SupervisorTypeOK, NEW s \in Supervisors, NEW t \in Supervisors \ {s}, TreesOf(t),
         run'[t] = run[t], child'[t] = child[t]
  PROVE  TreesOf(t)'
  BY DEF TreesOf, Kept, Mine

\* A step of one supervisor changes its record and its trees only.
LEMMA OneAtATime ==
  ASSUME SupervisorTypeOK, NEW s \in Supervisors, NEW t \in Supervisors \ {s},
         \/ Start(s) \/ Step(s)
         \/ Interrupt(s) \/ Die(s) \/ LaunchFails(s) \/ WaitTimesOut(s) \/ StopUnconfirmed(s)
         \/ \E i \in Services : Serve(s, i) \/ EngineReady(s, i) \/ ChildFails(s, i)
  PROVE  run'[t] = run[t] /\ child'[t] = child[t]
  <1> USE DEF surroundings
  <1>1. run \in [Supervisors -> RunState] /\ child \in [Supervisors -> [Services -> Trees]]
    BY DEF SupervisorTypeOK
  <1>a. ASSUME NEW tree, Becomes(s, tree) PROVE child'[t] = child[t] BY <1>1, <1>a DEF Becomes
  <1>b. End(s) => run'[t] = run[t] BY <1>1 DEF End
  <1>c. ASSUME NEW p, Go(s, p) PROVE run'[t] = run[t] BY <1>1, <1>c DEF Go
  <1>d. OnlyRun(s) => run'[t] = run[t] BY <1>1 DEF OnlyRun
  <1>2. CASE Start(s) \/ Create(s) \/ WriteLock(s) \/ ReadLock(s) \/ UnlinkLock(s)
             \/ Release(s) \/ DropLock(s)
    BY <1>2, <1>d, LockTypes
       DEF Start, Create, WriteLock, ReadLock, UnlinkLock, Release, DropLock
  <1>3. CASE \/ Look(s) \/ Assign(s) \/ LaunchFails(s) \/ WaitReady(s) \/ WaitExited(s)
             \/ WaitTimesOut(s) \/ Verify(s) \/ Watch(s) \/ Stop(s) \/ StopUnconfirmed(s)
             \/ Relaunch(s)
    <2>1. run'[t] = run[t] BY <1>3, <1>d, RunTypes
    <2>2. child'[t] = child[t]
      BY <1>3, <1>a DEF Look, Assign, LaunchFails, WaitReady, WaitExited, WaitTimesOut, Verify,
                        Watch, Stop, StopUnconfirmed, Relaunch
    <2> QED BY <2>1, <2>2
  <1>4. CASE Interrupt(s) \/ Die(s)
    BY <1>1, <1>4, <1>b, <1>c DEF Interrupt, Die
  <1>5. CASE CloseChild(s) BY <1>1, <1>5 DEF CloseChild
  <1>6. ASSUME NEW i \in Services, Serve(s, i) \/ EngineReady(s, i) \/ ChildFails(s, i)
        PROVE  run'[t] = run[t] /\ child'[t] = child[t]
    BY <1>1, <1>6 DEF Serve, EngineReady, ChildFails
  <1> QED BY <1>2, <1>3, <1>4, <1>5, <1>6 DEF Step

\* The trees of all supervisors over any step.
LEMMA AllTrees ==
  ASSUME SupervisorTypeOK, SupervisorTypeOK', \A s \in Supervisors : TreesOf(s),
         [SupervisorNext]_supervisorVars
  PROVE  \A s \in Supervisors : TreesOf(s)'
  <1>1. ASSUME UNCHANGED <<run, child>> PROVE \A s \in Supervisors : TreesOf(s)'
    BY <1>1 DEF TreesOf, Kept, Mine
  <1>2. ASSUME NEW s \in Supervisors,
               \/ Start(s) \/ Step(s)
               \/ Interrupt(s) \/ Die(s) \/ LaunchFails(s) \/ WaitTimesOut(s)
               \/ StopUnconfirmed(s)
               \/ \E i \in Services : Serve(s, i) \/ EngineReady(s, i) \/ ChildFails(s, i)
        PROVE  \A t \in Supervisors : TreesOf(t)'
    <2>1. TreesOf(s)' BY <1>2, LockTrees, RunTrees, EndTrees DEF Step
    <2>2. ASSUME NEW t \in Supervisors \ {s} PROVE TreesOf(t)'
      BY <1>2, <2>2, OneAtATime, OthersTrees
    <2> QED BY <2>1, <2>2
  <1>3. ASSUME NEW i \in Services, ListenerComes(i) \/ ListenerLeaves(i)
        PROVE  UNCHANGED <<run, child>>
    BY <1>3 DEF ListenerComes, ListenerLeaves
  <1>4. CASE UNCHANGED supervisorVars BY <1>1, <1>4 DEF supervisorVars
  <1> QED BY <1>1, <1>2, <1>3, <1>4 DEF SupervisorNext

\* Nothing of a tree is left behind (the lists of the supervisors are complete).
THEOREM NothingLeftBehind == SupervisorSpec => []NoneLeftBehind
  <1> DEFINE AllTreesOf == \A s \in Supervisors : TreesOf(s)
  <1>1. SupervisorInit => AllTreesOf
    <2> SUFFICES ASSUME SupervisorInit, NEW s \in Supervisors PROVE TreesOf(s)
      OBVIOUS
    <2>1. run[s].pc = "off" /\ \A i \in Services : child[s][i] = "gone"
      BY DEF SupervisorInit, Fresh
    <2> QED BY <2>1 DEF TreesOf, Kept
  <1>2. SupervisorTypeOK /\ SupervisorTypeOK' /\ AllTreesOf /\ [SupervisorNext]_supervisorVars
          => AllTreesOf'
    BY AllTrees
  <1>3. AllTreesOf => NoneLeftBehind
    BY DEF NoneLeftBehind, TreesOf, At, Outside
  <1> HIDE DEF AllTreesOf
  <1> QED BY <1>1, <1>2, <1>3, SupervisorTypes, PTL DEF SupervisorSpec

-----------------------------------------------------------------------------
\* The lock file: one supervisor at a time writes it; who runs holds it or has lost it to a
\* thief, and has forgotten whom it had found running; whom a supervisor found running
\* when it was started still runs or has ended; and a thief was started before his victim
\* got the lock.
LockFileInv ==
  /\ \A s \in Supervisors : At(s, "write") => lock = Torn
  /\ \A s, t \in Supervisors : At(s, "write") /\ At(t, "write") => s = t
  /\ \A s \in Supervisors : Running(s) => lock = s \/ \E p \in stolen : p[2] = s
  /\ \A s \in Supervisors : Running(s) => run[s].began = {}
  /\ \A s \in Supervisors : \A t \in run[s].began : Running(t) \/ At(t, "ended")
  /\ \A s \in Supervisors :
       At(s, "unlink") /\ lock \in Supervisors /\ Running(lock) => lock \notin run[s].began
  /\ \A p \in stolen : p[3] = FALSE

\* A step of s that leaves the lock alone, begins neither to write nor to unlink it, and
\* makes nobody run who did not.
LEMMA QuietLock ==
  ASSUME SupervisorTypeOK, LockFileInv, NEW s \in Supervisors,
         UNCHANGED <<lock, stolen>>, \A t \in Supervisors \ {s} : run'[t] = run[t],
         run'[s].pc \notin {"write", "unlink"},
         Running(s)' => Running(s),
         Running(s) \/ At(s, "ended") => Running(s)' \/ At(s, "ended")',
         run'[s].began \subseteq run[s].began
  PROVE  LockFileInv'
  <1> USE DEF At, Running, Alive
  <1>0. \A t \in Supervisors : run[t].began \subseteq Supervisors BY DEF SupervisorTypeOK, RunState
  <1>1. \A t \in Supervisors : At(t, "write")' => At(t, "write") OBVIOUS
  <1>2. \A t \in Supervisors : Running(t)' => Running(t) OBVIOUS
  <1>3. \A t \in Supervisors : Running(t) \/ At(t, "ended") => Running(t)' \/ At(t, "ended")'
    OBVIOUS
  <1>4. \A t \in Supervisors : run'[t].began \subseteq run[t].began OBVIOUS
  <1>5. \A t \in Supervisors : At(t, "unlink")' => At(t, "unlink") OBVIOUS
  <1> HIDE DEF At, Running, Alive
  <1>6. (\A t \in Supervisors : At(t, "write") => lock = Torn)' BY <1>1 DEF LockFileInv
  <1>7. (\A t, u \in Supervisors : At(t, "write") /\ At(u, "write") => t = u)'
    BY <1>1 DEF LockFileInv
  <1>8. (\A t \in Supervisors : Running(t) => lock = t \/ \E p \in stolen : p[2] = t)'
    BY <1>2 DEF LockFileInv
  <1>9. (\A t \in Supervisors : Running(t) => run[t].began = {})' BY <1>2, <1>4 DEF LockFileInv
  <1>10. (\A t \in Supervisors : \A u \in run[t].began : Running(u) \/ At(u, "ended"))'
    BY <1>0, <1>3, <1>4 DEF LockFileInv
  <1>11. (\A t \in Supervisors :
            At(t, "unlink") /\ lock \in Supervisors /\ Running(lock) => lock \notin run[t].began)'
    BY <1>2, <1>4, <1>5 DEF LockFileInv
  <1>12. (\A p \in stolen : p[3] = FALSE)' BY DEF LockFileInv
  <1> QED BY <1>6, <1>7, <1>8, <1>9, <1>10, <1>11, <1>12 DEF LockFileInv

\* A supervisor that unlinks the lock, and goes on to create it or ends.
LEMMA UnlinkedLock ==
  ASSUME SupervisorTypeOK, LockFileInv, NEW s \in Supervisors,
         Unlinked(s), ~BeingWritten,
         At(s, "unlink") \/ Running(s),
         \A t \in Supervisors \ {s} : run'[t] = run[t],
         run'[s].pc \in {"create", "ended"}, Running(s) => At(s, "ended")',
         run'[s].began \subseteq run[s].began
  PROVE  LockFileInv'
  <1> USE SupervisorAssumption
  <1>0. \A t \in Supervisors : run[t].began \subseteq Supervisors BY DEF SupervisorTypeOK, RunState
  <1>a. lock' = NoLock /\ NoLock \notin Supervisors BY DEF Unlinked
  <1>b. lock \in Supervisors /\ Running(lock) => lock \notin run[s].began
    BY DEF LockFileInv
  <1>e. \A a, b, c : <<a, b, c>>[2] = b /\ <<a, b, c>>[3] = c OBVIOUS
  <1>c. \A p \in stolen' : p \in stolen \/ (lock \notin run[s].began /\ p[3] = FALSE)
    <2>1. CASE UNCHANGED stolen BY <2>1
    <2>2. CASE /\ lock \in Supervisors \ {s} /\ Running(lock)
               /\ stolen' = stolen \cup {<<s, lock, lock \in run[s].began>>}
      <3>1. lock \notin run[s].began BY <1>b, <2>2
      <3>2. (lock \in run[s].began) = FALSE BY <3>1
      <3>3. stolen' = stolen \cup {<<s, lock, FALSE>>} BY <2>2, <3>2
      <3>4. <<s, lock, FALSE>>[3] = FALSE BY <1>e
      <3> QED BY <3>1, <3>3, <3>4, Zenon
    <2> QED BY <2>1, <2>2 DEF Unlinked
  <1>d. stolen \subseteq stolen' /\ (lock \in Supervisors \ {s} /\ Running(lock)
                                       => \E p \in stolen' : p[2] = lock)
    <2>1. <<s, lock, lock \in run[s].began>>[2] = lock BY <1>e, Zenon
    <2> QED BY <2>1, Zenon DEF Unlinked
  <1>1. \A t \in Supervisors : ~At(t, "write")'
    BY DEF At, BeingWritten
  <1>2. \A t \in Supervisors : Running(t)' => Running(t) /\ t # s
    BY DEF At, Running, Alive
  <1>3. \A t \in Supervisors : Running(t) \/ At(t, "ended") => Running(t)' \/ At(t, "ended")'
    BY DEF At, Running, Alive
  <1>4. \A t \in Supervisors : run'[t].began \subseteq run[t].began OBVIOUS
  <1>5. (\A t \in Supervisors : At(t, "write") => lock = Torn)' BY <1>1
  <1>6. (\A t, u \in Supervisors : At(t, "write") /\ At(u, "write") => t = u)' BY <1>1
  <1>7. (\A t \in Supervisors : Running(t) => lock = t \/ \E p \in stolen : p[2] = t)'
    BY <1>2, <1>d DEF LockFileInv
  <1>8. (\A t \in Supervisors : Running(t) => run[t].began = {})' BY <1>2, <1>4 DEF LockFileInv
  <1>9. (\A t \in Supervisors : \A u \in run[t].began : Running(u) \/ At(u, "ended"))'
    BY <1>0, <1>3, <1>4 DEF LockFileInv
  <1>10. (\A t \in Supervisors :
            At(t, "unlink") /\ lock \in Supervisors /\ Running(lock) => lock \notin run[t].began)'
    BY <1>a
  <1>11. (\A p \in stolen : p[3] = FALSE)' BY <1>c DEF LockFileInv
  <1> QED BY <1>5, <1>6, <1>7, <1>8, <1>9, <1>10, <1>11 DEF LockFileInv

\* The lock over the steps that are about it.
LEMMA LockSteps ==
  ASSUME SupervisorTypeOK, LockFileInv, NEW s \in Supervisors,
         \/ Start(s) \/ Create(s) \/ WriteLock(s) \/ ReadLock(s) \/ UnlinkLock(s)
         \/ Release(s) \/ DropLock(s)
  PROVE  LockFileInv'
  <1> USE SupervisorAssumption
  <1>0. /\ run[s] \in RunState /\ run \in [Supervisors -> RunState]
        /\ \A t \in Supervisors : run[t].began \subseteq Supervisors
    BY DEF SupervisorTypeOK, RunState
  <1>a. \A t \in Supervisors \ {s} : run'[t] = run[t] BY <1>0, LockTypes DEF OnlyRun
  <1>b. ASSUME End(s) PROVE run'[s].pc = "ended" /\ run'[s].began = {}
    BY <1>b, EndType DEF Fresh
  <1>c. ASSUME NEW p \in {"write", "read", "unlink", "drop"}, Go(s, p)
        PROVE  run'[s].pc = p /\ run'[s].began = run[s].began
    BY <1>0, <1>c DEF Go, RunState
  <1>1. CASE Start(s)
    <2>1. /\ run'[s].pc = "create" /\ run'[s].began = {t \in Supervisors : Running(t)}
          /\ At(s, "off") /\ UNCHANGED <<lock, stolen>>
      BY <1>0, <1>1 DEF Start, RunState
    <2>2. \A t \in Supervisors : Running(t)' <=> Running(t)
      BY <1>a, <2>1 DEF Running, Alive, At
    <2>3. \A t \in Supervisors : At(t, "ended") <=> At(t, "ended")'
      BY <1>a, <2>1 DEF At
    <2>4. \A t \in Supervisors : At(t, "write")' => At(t, "write") BY <1>a, <2>1 DEF At
    <2>5. \A t \in Supervisors : At(t, "unlink")' => At(t, "unlink") /\ t # s
      BY <1>a, <2>1 DEF At
    <2>6. ~Running(s) BY <2>1 DEF Running, Alive
    <2>7. (\A t \in Supervisors : At(t, "write") => lock = Torn)' BY <2>1, <2>4 DEF LockFileInv
    <2>8. (\A t, u \in Supervisors : At(t, "write") /\ At(u, "write") => t = u)'
      BY <2>4 DEF LockFileInv
    <2>9. (\A t \in Supervisors : Running(t) => lock = t \/ \E p \in stolen : p[2] = t)'
      BY <2>1, <2>2 DEF LockFileInv
    <2>10. (\A t \in Supervisors : Running(t) => run[t].began = {})'
      BY <1>a, <2>2, <2>6 DEF LockFileInv
    <2>11. (\A t \in Supervisors : \A u \in run[t].began : Running(u) \/ At(u, "ended"))'
      BY <1>0, <1>a, <2>1, <2>2, <2>3 DEF LockFileInv
    <2>12. (\A t \in Supervisors :
              At(t, "unlink") /\ lock \in Supervisors /\ Running(lock) => lock \notin run[t].began)'
      BY <1>a, <2>1, <2>2, <2>5 DEF LockFileInv
    <2>13. (\A p \in stolen : p[3] = FALSE)' BY <2>1 DEF LockFileInv
    <2> QED BY <2>7, <2>8, <2>9, <2>10, <2>11, <2>12, <2>13 DEF LockFileInv
  <1>2. CASE Create(s)
    <2>1. CASE lock' = lock /\ Go(s, "read")
      BY <1>a, <1>c, <1>2, <2>1, QuietLock DEF Create, Running, Alive, At
    <2>2. CASE lock = NoLock /\ lock' = Torn /\ Go(s, "write")
      <3>1. /\ run'[s].pc = "write" /\ run'[s].began = run[s].began
            /\ At(s, "create") /\ UNCHANGED stolen
        BY <1>c, <1>2, <2>2 DEF Create
      <3>2. \A t \in Supervisors : Running(t)' <=> Running(t)
        BY <1>a, <3>1 DEF Running, Alive, At
      <3>3. \A t \in Supervisors : At(t, "ended") <=> At(t, "ended")'
        BY <1>a, <3>1 DEF At
      <3>4. \A t \in Supervisors : At(t, "write")' => t = s
        BY <1>a, <2>2 DEF At, LockFileInv
      <3>5. \A t \in Supervisors : run'[t].began = run[t].began BY <1>a, <3>1
      <3>6. (\A t \in Supervisors : At(t, "write") => lock = Torn)' BY <2>2
      <3>7. (\A t, u \in Supervisors : At(t, "write") /\ At(u, "write") => t = u)' BY <3>4
      <3>8. (\A t \in Supervisors : Running(t) => lock = t \/ \E p \in stolen : p[2] = t)'
        BY <2>2, <3>1, <3>2 DEF LockFileInv
      <3>9. (\A t \in Supervisors : Running(t) => run[t].began = {})' BY <3>2, <3>5 DEF LockFileInv
      <3>10. (\A t \in Supervisors : \A u \in run[t].began : Running(u) \/ At(u, "ended"))'
        BY <1>0, <3>2, <3>3, <3>5 DEF LockFileInv
      <3>11. (\A t \in Supervisors : At(t, "unlink") /\ lock \in Supervisors /\ Running(lock)
                                       => lock \notin run[t].began)'
        BY <2>2
      <3>12. (\A p \in stolen : p[3] = FALSE)' BY <3>1 DEF LockFileInv
      <3> QED BY <3>6, <3>7, <3>8, <3>9, <3>10, <3>11, <3>12 DEF LockFileInv
    <2> QED BY <1>2, <2>1, <2>2 DEF Create
  <1>3. CASE WriteLock(s)
    <2>1. /\ run'[s].pc = "look" /\ run'[s].began = {}
          /\ At(s, "write") /\ lock = Torn /\ lock' = s /\ UNCHANGED stolen
      BY <1>0, <1>3 DEF WriteLock, RunState, LockFileInv
    <2>2. \A t \in Supervisors : Running(t)' => Running(t) \/ t = s
      BY <1>a DEF Running, Alive, At
    <2>3. \A t \in Supervisors : Running(t) \/ At(t, "ended") => Running(t)' \/ At(t, "ended")'
      BY <1>a, <2>1 DEF Running, Alive, At
    <2>4. \A t \in Supervisors : ~At(t, "write")' BY <1>a, <2>1 DEF At, LockFileInv
    <2>5. \A t \in Supervisors : run'[t].began \subseteq run[t].began BY <1>a, <2>1
    <2>6. \A t \in Supervisors : s \notin run[t].began
      BY <2>1 DEF LockFileInv, Running, Alive, At
    <2>7. (\A t \in Supervisors : At(t, "write") => lock = Torn)' BY <2>4
    <2>8. (\A t, u \in Supervisors : At(t, "write") /\ At(u, "write") => t = u)' BY <2>4
    <2>9. (\A t \in Supervisors : Running(t) => lock = t \/ \E p \in stolen : p[2] = t)'
      BY <2>1, <2>2 DEF LockFileInv
    <2>10. (\A t \in Supervisors : Running(t) => run[t].began = {})'
      BY <2>1, <2>2, <2>5 DEF LockFileInv
    <2>11. (\A t \in Supervisors : \A u \in run[t].began : Running(u) \/ At(u, "ended"))'
      BY <1>0, <2>3, <2>5 DEF LockFileInv
    <2>12. (\A t \in Supervisors :
              At(t, "unlink") /\ lock \in Supervisors /\ Running(lock) => lock \notin run[t].began)'
      BY <2>1, <2>5, <2>6
    <2>13. (\A p \in stolen : p[3] = FALSE)' BY <2>1 DEF LockFileInv
    <2> QED BY <2>7, <2>8, <2>9, <2>10, <2>11, <2>12, <2>13 DEF LockFileInv
  <1>4. CASE ReadLock(s)
    <2>1. UNCHANGED <<lock, stolen>> /\ At(s, "read") BY <1>4 DEF ReadLock
    <2>2. CASE End(s)
      BY <1>a, <1>b, <2>1, <2>2, QuietLock DEF Running, Alive, At
    <2>3. CASE ~OwnerIsActive(lock) /\ Go(s, "unlink")
      <3>1. run'[s].pc = "unlink" /\ run'[s].began = run[s].began BY <1>c, <2>3
      <3>2. \A t \in Supervisors : Running(t)' <=> Running(t)
        BY <1>a, <2>1, <3>1 DEF Running, Alive, At
      <3>3. \A t \in Supervisors : At(t, "ended") <=> At(t, "ended")'
        BY <1>a, <2>1, <3>1 DEF At
      <3>4. \A t \in Supervisors : At(t, "write")' => At(t, "write") BY <1>a, <3>1 DEF At
      <3>5. \A t \in Supervisors : run'[t].began = run[t].began BY <1>a, <3>1
      <3>6. \A t \in Supervisors : At(t, "unlink")' => At(t, "unlink") \/ t = s
        BY <1>a DEF At
      <3>7. ~(lock \in Supervisors /\ Running(lock)) BY <2>3 DEF OwnerIsActive, Running
      <3>8. (\A t \in Supervisors : At(t, "write") => lock = Torn)' BY <2>1, <3>4 DEF LockFileInv
      <3>9. (\A t, u \in Supervisors : At(t, "write") /\ At(u, "write") => t = u)'
        BY <3>4 DEF LockFileInv
      <3>10. (\A t \in Supervisors : Running(t) => lock = t \/ \E p \in stolen : p[2] = t)'
        BY <2>1, <3>2 DEF LockFileInv
      <3>11. (\A t \in Supervisors : Running(t) => run[t].began = {})' BY <3>2, <3>5 DEF LockFileInv
      <3>12. (\A t \in Supervisors : \A u \in run[t].began : Running(u) \/ At(u, "ended"))'
        BY <1>0, <3>2, <3>3, <3>5 DEF LockFileInv
      <3>13. (\A t \in Supervisors : At(t, "unlink") /\ lock \in Supervisors /\ Running(lock)
                                       => lock \notin run[t].began)'
        BY <2>1, <3>2, <3>7
      <3>14. (\A p \in stolen : p[3] = FALSE)' BY <2>1 DEF LockFileInv
      <3> QED BY <3>8, <3>9, <3>10, <3>11, <3>12, <3>13, <3>14 DEF LockFileInv
    <2> QED BY <1>4, <2>2, <2>3 DEF ReadLock
  <1>5. CASE UnlinkLock(s)
    <2>1. At(s, "unlink") /\ ~Running(s) BY <1>5 DEF UnlinkLock, Running, At
    <2>2. CASE End(s) /\ UNCHANGED <<lock, stolen>>
      BY <1>a, <1>b, <2>1, <2>2, QuietLock DEF Running, Alive, At
    <2>3. CASE ~BeingWritten /\ Unlinked(s)
      <3>1. run'[s].pc \in {"create", "ended"} /\ run'[s].began \subseteq run[s].began
        <4>1. CASE End(s) BY <1>b, <4>1
        <4>2. CASE run' = [run EXCEPT ![s].pc = "create", ![s].attempt = 2]
          BY <1>0, <4>2 DEF RunState
        <4> QED BY <1>5, <4>1, <4>2 DEF UnlinkLock
      <3> QED BY <1>a, <2>1, <2>3, <3>1, UnlinkedLock
    <2> QED BY <1>5, <2>2, <2>3 DEF UnlinkLock
  <1>6. CASE Release(s)
    <2>1. UNCHANGED <<lock, stolen>> /\ At(s, "closing") BY <1>6 DEF Release
    <2>2. run'[s].pc \in {"drop", "ended"} /\ run'[s].began \subseteq run[s].began
      BY <1>b, <1>c, <1>6 DEF Release
    <2> QED BY <1>a, <2>1, <2>2, QuietLock DEF Running, Alive, At
  <1>7. CASE DropLock(s)
    <2>1. Running(s) /\ End(s) BY <1>7 DEF DropLock, Running, Alive, At
    <2>2. run'[s].pc = "ended" /\ run'[s].began = {} BY <1>b, <2>1
    <2>3. CASE UNCHANGED <<lock, stolen>>
      BY <1>a, <2>1, <2>2, <2>3, QuietLock DEF Running, Alive, At
    <2>4. CASE ~BeingWritten /\ Unlinked(s)
      <3>1. At(s, "ended")' BY <2>2 DEF At
      <3> QED BY <1>a, <2>1, <2>2, <2>4, <3>1, UnlinkedLock
    <2> QED BY <1>7, <2>3, <2>4 DEF DropLock
  <1> QED BY <1>1, <1>2, <1>3, <1>4, <1>5, <1>6, <1>7

\* The lock over the other steps of a supervisor: until it holds the lock it can only end.
LEMMA OtherSteps ==
  ASSUME SupervisorTypeOK, LockFileInv, NEW s \in Supervisors,
         \/ Look(s) \/ Assign(s) \/ LaunchFails(s) \/ WaitReady(s) \/ WaitExited(s)
         \/ WaitTimesOut(s) \/ Verify(s) \/ Watch(s) \/ Stop(s) \/ StopUnconfirmed(s)
         \/ Relaunch(s) \/ Interrupt(s) \/ Die(s)
  PROVE  LockFileInv'
  <1> USE DEF surroundings, Fault, At
  <1>0. run[s] \in RunState /\ run \in [Supervisors -> RunState] BY DEF SupervisorTypeOK
  <1>1. UNCHANGED <<lock, stolen>>
    BY DEF Look, Assign, LaunchFails, WaitReady, WaitExited, WaitTimesOut, Verify, Watch, Stop,
           StopUnconfirmed, Relaunch, Interrupt, Die
  <1>2. \A t \in Supervisors \ {s} : run'[t] = run[t] BY OneAtATime DEF Step
  <1> DEFINE Onwards == /\ run'[s].began = run[s].began
                        /\ run'[s].pc \in {"look", "assign", "wait", "verify", "stop", "backoff",
                                           "watch", "closing"}
  <1>a. ASSUME NEW p \in {"assign", "closing", "backoff", "verify", "stop"}, Go(s, p)
        PROVE  Onwards
    BY <1>0, <1>a DEF Go, RunState
  <1>b. Proceed(s) => Onwards BY <1>0 DEF Proceed, RunState
  <1>c. Replacing(s) => Onwards BY <1>0 DEF Replacing, RunState
  <1>d. CASE End(s) /\ Alive(s)
    <2>1. run'[s].pc = "ended" /\ run'[s].began = {} BY <1>d, EndType DEF Fresh
    <2> QED BY <1>1, <1>2, <1>d, <2>1, QuietLock DEF Running, Alive
  <1>e. CASE Onwards /\ Running(s)
    BY <1>1, <1>2, <1>e, QuietLock DEF Running, Alive
  <1>3. CASE Look(s) BY <1>a, <1>b, <1>e, <1>3 DEF Look, Running, Alive
  <1>4. CASE Assign(s)
    <2>1. Onwards BY <1>0, <1>4 DEF Assign, RunState
    <2> QED BY <1>e, <1>4, <2>1 DEF Assign, Running, Alive
  <1>5. CASE LaunchFails(s) BY <1>a, <1>e, <1>5 DEF LaunchFails, Running, Alive
  <1>6. CASE WaitReady(s) \/ WaitExited(s) \/ WaitTimesOut(s)
    BY <1>a, <1>e, <1>6 DEF WaitReady, WaitExited, WaitTimesOut, Running, Alive
  <1>7. CASE Verify(s) BY <1>a, <1>b, <1>e, <1>7 DEF Verify, Running, Alive
  <1>8. CASE Watch(s)
    <2> DEFINE i == run[s].service
               n == IF Answers(i) THEN 0 ELSE run[s].missed[i] + 1
               k == IF i \in run[s].owned THEN n % FailureThreshold ELSE 0
    <2>1. \/ run' = [run EXCEPT ![s].pc = "stop", ![s].missed[i] = 0]
          \/ run' = [run EXCEPT ![s].service = After(i), ![s].missed[i] = k]
      BY <1>8 DEF Watch
    <2> HIDE DEF k, n
    <2>2. Onwards BY <1>0, <1>8, <2>1 DEF Watch, RunState
    <2> QED BY <1>e, <1>8, <2>2 DEF Watch, Running, Alive
  <1>9. CASE Stop(s) \/ StopUnconfirmed(s)
    BY <1>c, <1>e, <1>9 DEF Stop, StopUnconfirmed, Running, Alive
  <1>10. CASE Relaunch(s) BY <1>a, <1>e, <1>10 DEF Relaunch, Running, Alive
  <1>11. CASE Interrupt(s) BY <1>a, <1>d, <1>e, <1>11 DEF Interrupt
  <1>12. CASE Die(s) BY <1>d, <1>12 DEF Die
  <1> QED BY <1>3, <1>4, <1>5, <1>6, <1>7, <1>8, <1>9, <1>10, <1>11, <1>12

\* The lock over the steps that leave the lock and the supervisors alone.
LEMMA IdleLock ==
  ASSUME LockFileInv, UNCHANGED <<lock, run, stolen>>
  PROVE  LockFileInv'
  BY DEF LockFileInv, At, Running, Alive

\* The invariant of the lock file (acquire_lock, release_lock).
LEMMA LockInvariant == SupervisorSpec => []LockFileInv
  <1>1. ASSUME SupervisorInit PROVE LockFileInv
    <2>1. \A s \in Supervisors : run[s].pc = "off" /\ run[s].began = {}
      BY <1>1 DEF SupervisorInit, Fresh
    <2>2. stolen = {} BY <1>1 DEF SupervisorInit
    <2> QED BY <2>1, <2>2 DEF LockFileInv, At, Running, Alive
  <1>2. ASSUME SupervisorTypeOK, LockFileInv, [SupervisorNext]_supervisorVars PROVE LockFileInv'
    <2>1. ASSUME NEW s \in Supervisors,
                 \/ CloseChild(s)
                 \/ \E i \in Services : Serve(s, i) \/ EngineReady(s, i) \/ ChildFails(s, i)
          PROVE  LockFileInv'
      BY <1>2, <2>1, IdleLock DEF CloseChild, Serve, EngineReady, ChildFails
    <2>2. ASSUME NEW i \in Services, ListenerComes(i) \/ ListenerLeaves(i) PROVE LockFileInv'
      BY <1>2, <2>2, IdleLock DEF ListenerComes, ListenerLeaves
    <2>3. CASE UNCHANGED supervisorVars BY <1>2, <2>3, IdleLock DEF supervisorVars
    <2> QED BY <1>2, <2>1, <2>2, <2>3, LockSteps, OtherSteps DEF SupervisorNext, Step
  <1> QED BY <1>1, <1>2, SupervisorTypes, PTL DEF SupervisorSpec

\* Two supervisors run at the same time only after a lock was stolen, and a thief was
\* started before his victim got it.
THEOREM OnlyOneSupervisor == SupervisorSpec => []OneSupervisor
  <1>1. LockFileInv => OneSupervisor
    <2> SUFFICES ASSUME LockFileInv PROVE OneSupervisor OBVIOUS
    <2>1. ASSUME NEW s \in Supervisors, NEW t \in Supervisors, s # t, Running(s), Running(t)
          PROVE  \E p \in stolen : p[2] \in {s, t}
      <3>1. ~(lock = s /\ lock = t) BY <2>1
      <3> QED BY <2>1, <3>1 DEF LockFileInv
    <2>2. \A p \in stolen : ~p[3] BY Zenon DEF LockFileInv
    <2> QED BY <2>1, <2>2 DEF OneSupervisor
  <1> QED BY <1>1, LockInvariant, PTL

=============================================================================
