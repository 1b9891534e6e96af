----------------------------- MODULE ComfyEngine -----------------------------
(***************************************************************************)
(* The lifecycle owner of the bundled ComfyUI engine                       *)
(* (backend/app/services/comfy/engine.py) together with the prompt         *)
(* producers that share its submission gate.                               *)
(*                                                                         *)
(* The manager runs in one asyncio loop, so an action is the code between  *)
(* two awaits.  The coroutines that compete for the manager are the tasks: *)
(* the autostart task, the recovery task, the scheduled restart, an HTTP   *)
(* stop request and the lifespan shutdown.  The per-process monitor never  *)
(* awaits while it holds the lock, so it is one action.  The engine        *)
(* process, the port it serves and the other backends are the environment. *)
(***************************************************************************)
EXTENDS Naturals, FiniteSets

CONSTANTS
  Proc,      \* identities of engine processes, reused once nobody refers to them
  NoProc,    \* self.process is None
  Client,    \* prompt producers sharing _PROCESS_COMFY_SUBMISSION_GATE
  Checked,   \* the producers that go through submission_guard (the native runner)
  Free,      \* the gate is not held
  MaxWork,   \* bound on the prompts one engine has accepted and not finished
  Ops,       \* lifecycle calls made on the backend in this instance
  Faults     \* what may go wrong in this instance

Task == {"startup", "recovery", "restart", "stop", "shutdown"}
AllOps == {"start", "stop", "restart", "shutdown", "status"}
AllFaults == {"crash", "wedge", "config", "conflict", "rival", "hang", "late"}

ASSUME EngineConstants ==
  /\ NoProc \notin Proc
  /\ Checked \subseteq Client
  /\ Client \cap Task = {}
  /\ Free \notin Client \cup Task
  /\ MaxWork \in Nat
  /\ Ops \subseteq AllOps
  /\ Faults \subseteq AllFaults

VARIABLES
  process,   \* self.process
  phase,     \* self._phase
  desired,   \* self._desired_running
  closing,   \* self._closing
  record,    \* newest entry of self._restart_records: open, or how it ended
  owner,     \* who holds engine-owner.lock
  pc,        \* where each task is suspended
  ahead,     \* FIFO of self._lock: the contenders that joined before each task
  gate,      \* holder of the submission gate
  force,     \* the force argument of the stop and restart requests
  statusPc,  \* a status poll that saw a dead process and awaits its probe
  watched,   \* processes with a live monitor task
  abandoned, \* processes released although their kill was never confirmed
  alive,     \* engine processes the operating system still runs
  ready,     \* live engine processes whose API and bridge answer
  work,      \* accepted and unfinished prompts of each engine process
  stray,     \* engines that accepted a prompt whose producer had given up
  posting,   \* producers with a POST /prompt in flight, each holding the gate
  late       \* a timed-out POST is still on its way to the engine

manager == <<process, phase, desired, closing, record, owner>>
tasks   == <<pc, ahead, force, statusPc, watched>>
os      == <<alive, ready, work, stray, abandoned>>
prompts == <<posting, late>>
vars    == <<manager, tasks, os, prompts, gate>>

Phases == {"stopped", "starting", "running", "failed", "recovering",
           "stopping", "restarting"}
\* Labels a task has while it owns self._lock.
InLock == {"waitGate", "idleCheck", "drain", "probeLive", "probePort",
           "waitReady", "failStop", "cancelStop"}
\* A canceller awaits the cancelled task, and resumes once that task has ended.
Awaits(v) == CASE v = "startup" -> "awaitStartup"
               [] v = "recovery" -> "awaitRecovery"
               [] v = "restart" -> "awaitRestart"
               [] OTHER -> "notAwaited"
Ended(v)  == CASE v = "startup" -> "startupEnded"
               [] v = "recovery" -> "recoveryEnded"
               [] OTHER -> "restartEnded"
Label  == InLock \cup {"idle", "new", "sleep", "waitLock", "done",
                       "awaitStartup", "awaitRecovery", "awaitRestart",
                       "startupEnded", "recoveryEnded", "restartEnded"}

TypeOK ==
  /\ process \in Proc \cup {NoProc}
  /\ phase \in Phases
  /\ desired \in BOOLEAN /\ closing \in BOOLEAN
  /\ record \in {"done", "open", "error"}
  /\ owner \in {"none", "us", "other"}
  /\ pc \in [Task -> Label]
  /\ ahead \in [Task -> SUBSET Task]
  /\ gate \in Client \cup Task \cup {Free}
  /\ force \in [{"stop", "restart"} -> BOOLEAN]
  /\ statusPc \in {"idle", "probe"}
  /\ watched \subseteq Proc /\ abandoned \subseteq Proc
  /\ alive \subseteq Proc /\ ready \subseteq alive
  /\ work \in [Proc -> 0 .. MaxWork]
  /\ posting \subseteq Client
  /\ stray \subseteq Proc /\ late \in BOOLEAN

Init ==
  /\ process = NoProc /\ phase = "stopped"
  /\ desired = FALSE /\ closing = FALSE /\ record = "done"
  /\ pc = [t \in Task |-> "idle"]
  /\ ahead = [t \in Task |-> {}]
  /\ force = [t \in {"stop", "restart"} |-> FALSE]
  /\ statusPc = "idle" /\ watched = {}
  /\ owner = "none" /\ gate = Free
  /\ alive = {} /\ ready = {} /\ abandoned = {}
  /\ work = [p \in Proc |-> 0]
  /\ posting = {} /\ late = FALSE /\ stray = {}
-----------------------------------------------------------------------------
(***************************************************************************)
(* The asyncio lock, the gate and the ends of a task.                      *)
(***************************************************************************)
Active(t)  == pc[t] \notin {"idle", "done"}
Contenders == {t \in Task : pc[t] \in InLock \cup {"waitLock"}}
LockIdle   == \A t \in Task : pc[t] \notin InLock
Wanted     == desired /\ ~closing
Serving    == pc["shutdown"] = "idle"   \* uvicorn still accepts requests

\* A process that stops serving takes the prompts it holds with it.
ServiceGone(p) == /\ ready' = ready \ {p} /\ stray' = stray \ {p}
                  /\ work' = [q \in Proc |-> IF q = p THEN 0 ELSE work[q]]

Goto(t, l) == pc' = [pc EXCEPT ![t] = l]

\* `async with self._lock`: queue up behind everyone who came first.
JoinLock(t) == /\ Goto(t, "waitLock")
               /\ ahead' = [ahead EXCEPT ![t] = Contenders]

Granted(t) == pc[t] = "waitLock" /\ ahead[t] = {}

\* Mutant: the gate stays with a task whose stop is over.
LeaveLockKeepsGate(t) ==
  /\ ahead' = [u \in Task |-> IF u = t THEN {} ELSE ahead[u] \ {t}]
  /\ gate' = gate

\* Leaving `async with self._lock` and the gate inside it.
LeaveLock(t) == /\ ahead' = [u \in Task |-> IF u = t THEN {} ELSE ahead[u] \ {t}]
                /\ gate' = IF gate = t THEN Free ELSE gate

\* _release_process_ownership gives the owner lock back if it is held.
OwnerReleased == IF owner = "us" THEN "none" ELSE owner

\* A task returns, or is cancelled: only those who await it react.
EndTask(t) ==
  /\ LeaveLock(t)
  /\ pc' = [u \in Task |-> IF u = t THEN IF t = "shutdown" THEN "done" ELSE "idle"
                           ELSE IF pc[u] = Awaits(t) THEN Ended(t) ELSE pc[u]]

\* Mutant: the scheduled restart swallows its exception without a record.
FailTaskUnrecorded(t, failedPhase) ==
  /\ LeaveLock(t)
  /\ pc' = [pc EXCEPT
       ![t] = IF t = "recovery" /\ Wanted THEN "sleep" ELSE "idle",
       !["recovery"] = IF t = "startup" /\ Wanted /\ @ = "idle" THEN "new" ELSE @]
  /\ phase' = IF t = "recovery" /\ Wanted THEN "recovering" ELSE failedPhase
  /\ record' = record

\* A task ends in an exception that is not a configuration error. The autostart
\* callback schedules recovery, the recovery loop goes round with a longer delay,
\* a scheduled restart only records the error, a stop reports it to its caller.
FailTask(t, failedPhase) ==
  /\ LeaveLock(t)
  /\ pc' = [pc EXCEPT
       ![t] = IF t = "recovery" /\ Wanted THEN "sleep" ELSE "idle",
       !["recovery"] = IF t = "startup" /\ Wanted /\ @ = "idle" THEN "new" ELSE @]
  /\ phase' = IF t = "recovery" /\ Wanted THEN "recovering" ELSE failedPhase
  /\ record' = IF t = "restart" THEN "error" ELSE record
-----------------------------------------------------------------------------
(***************************************************************************)
(* _start_locked: entry, the port check with the launch, the readiness     *)
(* poll.  The caller holds self._lock.                                     *)
(***************************************************************************)
\* The engine handle is gone (or dead and dropped): claim the owner lock.
BeginStart(t) ==
  /\ process' = NoProc
  /\ \/ /\ "config" \in Faults          \* validate() raises: nobody retries
        /\ phase' = "failed" /\ owner' = OwnerReleased
        /\ EndTask(t)
        /\ record' = IF t = "restart" THEN "error" ELSE record
     \/ /\ owner = "other" \/ "rival" \in Faults  \* acquire raises, also when a
        /\ owner' = "other"                       \* rival took what was just released
        /\ FailTask(t, "failed")
     \/ /\ owner # "other"
        /\ owner' = "us" /\ phase' = "starting"
        /\ Goto(t, "probePort")
        /\ UNCHANGED <<record, ahead, gate>>

StartLocked(t) ==
  \/ /\ process \in alive
     /\ Goto(t, "probeLive")
     /\ UNCHANGED <<process, phase, owner, record, ahead, gate>>
  \/ process \notin alive /\ BeginStart(t)

SucceedTask(t) == EndTask(t) /\ record' = IF t = "restart" THEN "done" ELSE record

\* Mutant: an unready live child makes the start give the owner lock back.
ProbeLiveReleases(t) ==
  /\ pc[t] = "probeLive"
  /\ \/ process \in ready /\ phase' = "running" /\ SucceedTask(t) /\ UNCHANGED owner
     \/ FailTask(t, phase) /\ owner' = OwnerReleased
  /\ UNCHANGED <<process, desired, closing, force, statusPc, watched, os, prompts>>

\* A live handle was found: its API decides.
ProbeLive(t) ==
  /\ pc[t] = "probeLive"
  /\ \/ process \in ready /\ phase' = "running" /\ SucceedTask(t)
     \/ FailTask(t, phase)
  /\ UNCHANGED <<process, desired, closing, owner, force, statusPc, watched, os, prompts>>

\* The port is free: Popen.
Launch(t) ==
  /\ pc[t] = "probePort" /\ process = NoProc
  /\ ready = {}
  /\ \E p \in Proc \ (alive \cup watched) :
       /\ process' = p
       /\ alive' = alive \cup {p}
       /\ abandoned' = abandoned \ {p}
  /\ Goto(t, "waitReady")
  /\ UNCHANGED <<phase, desired, closing, record, owner, ahead, force, statusPc,
                 watched, ready, work, stray, prompts, gate>>

\* Somebody else already answers on the engine's URL.
PortConflict(t) ==
  /\ pc[t] = "probePort"
  /\ ready # {} \/ "conflict" \in Faults
  /\ owner' = OwnerReleased
  /\ FailTask(t, "failed")
  /\ UNCHANGED <<process, desired, closing, force, statusPc, watched, os, prompts>>

\* The poll sees a ready engine: the monitor takes over.
ReadyObserved(t) ==
  /\ pc[t] = "waitReady"
  /\ process \in ready
  /\ phase' = "running"
  /\ watched' = watched \cup {process}
  /\ SucceedTask(t)
  /\ UNCHANGED <<process, desired, closing, owner, force, statusPc, os, prompts>>

\* Mutant: a start that times out drops its child without stopping it.
StartFailsUnstopped(t) ==
  /\ pc[t] = "waitReady"
  /\ process' = NoProc /\ owner' = OwnerReleased
  /\ FailTask(t, "failed")
  /\ UNCHANGED <<desired, closing, force, statusPc, watched, os, prompts>>

\* The child exited (_stop_locked then only releases) or the timeout ran out
\* (_stop_locked signals the child and waits for it).
StartFails(t) ==
  /\ pc[t] = "waitReady"
  /\ \/ /\ process \notin alive
        /\ process' = NoProc /\ owner' = OwnerReleased
        /\ FailTask(t, "failed")
     \/ /\ process \in alive
        /\ phase' = "failed" /\ Goto(t, "failStop")
        /\ UNCHANGED <<process, owner, record, ahead, gate>>
  /\ UNCHANGED <<desired, closing, force, statusPc, watched, os, prompts>>
-----------------------------------------------------------------------------
(***************************************************************************)
(* _stop_locked.  "drain" waits for the child signalled by a stop, restart *)
(* or shutdown request, "failStop" after a failed start, "cancelStop" after*)
(* a cancelled start.                                                      *)
(***************************************************************************)
Stopping == {"drain", "failStop", "cancelStop"}

\* self.process = None, the owner lock goes back, and the caller continues.
AfterStop(t) ==
  CASE pc[t] = "drain" /\ t = "restart" -> BeginStart(t)
    [] pc[t] = "failStop" -> /\ process' = NoProc /\ owner' = OwnerReleased
                             /\ FailTask(t, phase)
    [] OTHER -> /\ process' = NoProc /\ owner' = OwnerReleased
                /\ phase' = "stopped"
                /\ EndTask(t) /\ UNCHANGED record

\* The child is gone after terminate or kill, or (fault "hang") even the wait
\* after the kill timed out: the handle is dropped either way.
Terminated(t) ==
  /\ pc[t] \in Stopping
  /\ \/ alive' = alive \ {process} /\ UNCHANGED abandoned
     \/ /\ "hang" \in Faults /\ process \in alive
        /\ abandoned' = abandoned \cup {process} /\ UNCHANGED alive
  /\ ServiceGone(process)
  /\ AfterStop(t)
  /\ UNCHANGED <<desired, closing, force, statusPc, watched, prompts>>

TakeGate(t) ==
  /\ pc[t] = "waitGate" /\ gate = Free
  /\ gate' = t
  /\ Goto(t, "idleCheck")
  /\ UNCHANGED <<manager, ahead, force, statusPc, watched, os, prompts>>

\* _ensure_idle: only an answered, empty queue (or force) lets a live child go.
Forced(t) == t = "shutdown" \/ (t \in {"stop", "restart"} /\ force[t])
QueueSeenIdle == process \in ready /\ work[process] = 0 /\ process \notin stray

IdleCheckRefuses(t) ==
  /\ pc[t] = "idleCheck"
  /\ process \in alive /\ ~Forced(t)    \* busy, or the query failed
  /\ FailTask(t, phase)
  /\ UNCHANGED <<process, owner, desired, closing, force, statusPc, watched, os, prompts>>

\* The stop proper begins: a live child is signalled, a dead one is dropped.
IdleCheckPasses(t) ==
  /\ pc[t] = "idleCheck"
  /\ \/ /\ process \in alive
        /\ Forced(t) \/ QueueSeenIdle
        /\ Goto(t, "drain")
        /\ phase' = IF t = "restart" THEN "restarting" ELSE "stopping"
        /\ UNCHANGED <<process, owner, record, ahead, gate>>
     \/ /\ process \notin alive /\ t = "restart"
        /\ BeginStart(t)
     \/ /\ process \notin alive /\ t # "restart"
        /\ process' = NoProc /\ owner' = OwnerReleased
        /\ phase' = "stopped"
        /\ EndTask(t) /\ UNCHANGED record
  /\ UNCHANGED <<desired, closing, force, statusPc, watched, os, prompts>>
-----------------------------------------------------------------------------
(***************************************************************************)
(* Cancellation.  CancelTask is v.cancel() delivered while c awaits v: a   *)
(* start past its entry stops its child first, every other suspension      *)
(* point just unwinds, so that a second cancel during a clean-up leaves    *)
(* the signalled child to the next lock holder.                            *)
(***************************************************************************)
CancelTask(c, v) ==
  LET starting == pc[v] \in {"probePort", "waitReady"}
      cleanup  == starting /\ process \in alive
      waiter(u) == (u = c /\ pc[c] # "done") \/ pc[u] = Awaits(v)
  IN /\ pc' = [u \in Task |->
                 IF u = v THEN IF cleanup THEN "cancelStop" ELSE "idle"
                 ELSE IF waiter(u) THEN IF cleanup THEN Awaits(v) ELSE Ended(v)
                 ELSE pc[u]]
     /\ IF cleanup THEN UNCHANGED <<ahead, gate>> ELSE LeaveLock(v)
     /\ process' = IF starting /\ ~cleanup THEN NoProc ELSE process
     /\ owner'   = IF starting /\ ~cleanup THEN OwnerReleased ELSE owner
     /\ phase'   = IF cleanup THEN "stopping" ELSE IF starting THEN "stopped" ELSE phase

EnterLock(c) == JoinLock(c) /\ UNCHANGED <<process, owner, phase, gate>>

\* _cancel_background_start, _cancel_recovery, _cancel_monitor and the restart
\* tasks, in that order, each passed over when its task is not running.
CancelRestart(c) ==
  IF c = "shutdown" /\ Active("restart") THEN CancelTask(c, "restart")
  ELSE EnterLock(c)

AfterRecovery(c) ==
  /\ CancelRestart(c)
  /\ watched' = IF c = "shutdown" THEN watched \ {process} ELSE watched

CancelRecovery(c) ==
  IF Active("recovery")
  THEN CancelTask(c, "recovery") /\ UNCHANGED watched
  ELSE AfterRecovery(c)

CancelStartup(c) ==
  IF Active("startup")
  THEN CancelTask(c, "startup") /\ UNCHANGED watched
  ELSE CancelRecovery(c)

\* `await task` returned: on to the next task to cancel, or to the lock.
CancelAwaited(c) ==
  /\ \/ pc[c] = "startupEnded"  /\ CancelRecovery(c)
     \/ pc[c] = "recoveryEnded" /\ AfterRecovery(c)
     \/ pc[c] = "restartEnded"  /\ EnterLock(c) /\ UNCHANGED watched
  /\ UNCHANGED <<desired, closing, record, force, statusPc, os, prompts>>
-----------------------------------------------------------------------------
(***************************************************************************)
(* The operations.                                                         *)
(***************************************************************************)
\* start_in_background: the lifespan's autostart and POST /runtime/engine/start.
StartInBackground ==
  /\ "start" \in Ops /\ Serving
  /\ desired' = TRUE /\ closing' = FALSE
  /\ IF Active("startup") \/ Active("recovery") THEN UNCHANGED pc ELSE Goto("startup", "new")
  /\ UNCHANGED <<process, phase, record, owner, ahead, force, statusPc, watched,
                 os, prompts, gate>>

\* start()
StartupBegins ==
  /\ pc["startup"] = "new"
  /\ desired' = TRUE /\ closing' = FALSE
  /\ JoinLock("startup")
  /\ UNCHANGED <<process, phase, record, owner, force, statusPc, watched, os,
                 prompts, gate>>

StartupLocked ==
  /\ Granted("startup")
  /\ StartLocked("startup")
  /\ UNCHANGED <<desired, closing, force, statusPc, watched, os, prompts>>

\* _recover_until_running: the loop head, the end of the delay, the locked part.
RecoveryBegins ==
  /\ pc["recovery"] = "new"
  /\ IF Wanted THEN Goto("recovery", "sleep") /\ phase' = "recovering"
     ELSE Goto("recovery", "idle") /\ UNCHANGED phase
  /\ UNCHANGED <<process, desired, closing, record, owner, ahead, force, statusPc,
                 watched, os, prompts, gate>>

RecoveryWakes ==
  /\ pc["recovery"] = "sleep"
  /\ IF Wanted THEN JoinLock("recovery") ELSE Goto("recovery", "idle") /\ UNCHANGED ahead
  /\ UNCHANGED <<manager, force, statusPc, watched, os, prompts, gate>>

\* Mutant: the recovery does not look again once it has the lock.
RecoveryLockedStale ==
  /\ Granted("recovery")
  /\ StartLocked("recovery")
  /\ UNCHANGED <<desired, closing, force, statusPc, watched, os, prompts>>

RecoveryLocked ==
  /\ Granted("recovery")
  /\ IF Wanted THEN StartLocked("recovery")
     ELSE EndTask("recovery") /\ UNCHANGED <<process, phase, owner, record>>
  /\ UNCHANGED <<desired, closing, force, statusPc, watched, os, prompts>>

\* schedule_restart: one at a time, and only over an idle queue unless forced.
ScheduleRestart ==
  /\ "restart" \in Ops /\ Serving
  /\ ~Active("restart")
  /\ \E f \in BOOLEAN :
       /\ f \/ process \notin alive \/ QueueSeenIdle
       /\ force' = [force EXCEPT !["restart"] = f]
  /\ record' = "open"
  /\ Goto("restart", "new")
  /\ UNCHANGED <<process, phase, desired, closing, owner, ahead, statusPc, watched,
                 os, prompts, gate>>

\* _run_scheduled_restart and restart() up to their first await.
RestartBegins ==
  /\ pc["restart"] = "new"
  /\ desired' = TRUE /\ closing' = FALSE
  /\ CancelRecovery("restart")
  /\ UNCHANGED <<record, force, statusPc, os, prompts>>

\* stop(force) from POST /runtime/engine/stop.
StopRequest ==
  /\ "stop" \in Ops /\ Serving
  /\ pc["stop"] = "idle"
  /\ \E f \in BOOLEAN : force' = [force EXCEPT !["stop"] = f]
  /\ desired' = FALSE
  /\ CancelStartup("stop")
  /\ UNCHANGED <<closing, record, statusPc, os, prompts>>

\* shutdown() from the lifespan, once the server has no open request.
Shutdown ==
  /\ "shutdown" \in Ops /\ Serving
  /\ pc["stop"] = "idle" /\ statusPc = "idle" /\ posting = {}
  /\ closing' = TRUE /\ desired' = FALSE
  /\ CancelStartup("shutdown")
  /\ UNCHANGED <<record, force, statusPc, os, prompts>>

\* Mutant: a stop does not wait for the lifecycle lock.
DrainUnlocked(t) ==
  /\ t \in {"stop", "restart", "shutdown"}
  /\ pc[t] = "waitLock"
  /\ Goto(t, "waitGate")
  /\ UNCHANGED <<manager, ahead, force, statusPc, watched, os, prompts, gate>>

\* A stop, restart or shutdown gets the lifecycle lock and turns to the gate.
DrainLocked(t) ==
  /\ t \in {"stop", "restart", "shutdown"}
  /\ Granted(t)
  /\ Goto(t, "waitGate")
  /\ UNCHANGED <<manager, ahead, force, statusPc, watched, os, prompts, gate>>

\* The event loop ends after the lifespan: what is left is cancelled, and a new
\* backend process begins with a fresh manager. The kill-on-close Job Object ends
\* a child the old manager still referred to.
LoopCancels ==
  /\ pc["shutdown"] = "done"
  /\ \E v \in {"startup", "recovery", "restart"} :
       Active(v) /\ pc[v] # "cancelStop" /\ CancelTask("shutdown", v)
  /\ UNCHANGED <<desired, closing, record, force, statusPc, watched, os, prompts>>

Reboot ==
  /\ pc["shutdown"] = "done"
  /\ \A v \in {"startup", "recovery", "restart"} : ~Active(v)
  /\ process' = NoProc /\ phase' = "stopped" /\ owner' = OwnerReleased
  /\ desired' = FALSE /\ closing' = FALSE /\ record' = "done"
  /\ pc' = [t \in Task |-> "idle"] /\ ahead' = [t \in Task |-> {}]
  /\ force' = [t \in {"stop", "restart"} |-> FALSE]
  /\ watched' = {}
  /\ alive' = alive \ {process} /\ ServiceGone(process)
  /\ UNCHANGED <<statusPc, abandoned, prompts, gate>>

\* Mutant: the monitor reports the exit but starts no recovery.
MonitorOnlyReports(p) ==
  /\ p \in watched /\ p \notin alive
  /\ watched' = watched \ {p}
  /\ UNCHANGED pc
  /\ IF process # p THEN UNCHANGED <<process, owner, phase>>
     ELSE LockIdle /\ process' = NoProc /\ owner' = OwnerReleased /\ phase' = "failed"
  /\ UNCHANGED <<desired, closing, record, ahead, force, statusPc, os, prompts, gate>>

\* _monitor_process: the child exited, the lock is free, and the handle is still
\* the one it watched. A monitor of a replaced process returns without effect.
Monitor(p) ==
  /\ p \in watched /\ p \notin alive
  /\ watched' = watched \ {p}
  /\ IF process # p THEN UNCHANGED <<process, owner, phase, pc>>
     ELSE /\ LockIdle
          /\ process' = NoProc /\ owner' = OwnerReleased /\ phase' = "failed"
          /\ IF Wanted /\ ~Active("recovery") THEN Goto("recovery", "new") ELSE UNCHANGED pc
  /\ UNCHANGED <<desired, closing, record, ahead, force, statusPc, os, prompts, gate>>

\* status() found a dead child, awaits its probe, and then corrects the phase.
StatusBegins ==
  /\ "status" \in Ops /\ Serving
  /\ statusPc = "idle" /\ process # NoProc /\ process \notin alive
  /\ statusPc' = "probe"
  /\ UNCHANGED <<manager, pc, ahead, force, watched, os, prompts, gate>>

StatusEnds ==
  /\ statusPc = "probe"
  /\ statusPc' = "idle"
  /\ phase' = IF phase = "running" THEN "failed" ELSE phase
  /\ UNCHANGED <<process, desired, closing, record, owner, pc, ahead, force, watched,
                 os, prompts, gate>>
-----------------------------------------------------------------------------
(***************************************************************************)
(* Prompt producers and the gate.                                          *)
(***************************************************************************)
\* Mutant: a producer posts without the gate.
TakeNoGate(c) ==
  /\ Serving
  /\ c \in Checked => phase = "running" /\ process \in alive
  /\ posting' = posting \cup {c}
  /\ UNCHANGED <<manager, tasks, os, late, gate>>

\* submission_guard checks the phase and the child under the gate; Phase 6,
\* Phase 7 and the controlled worker take the bare gate.
TakeSubmissionGate(c) ==
  /\ Serving /\ gate = Free
  /\ c \in Checked => phase = "running" /\ process \in alive
  /\ gate' = c /\ posting' = posting \cup {c}
  /\ UNCHANGED <<manager, tasks, os, late>>

EndPost(c) == /\ c \in posting
              /\ posting' = posting \ {c}
              /\ gate' = Free

PromptAccepted(c) ==
  /\ EndPost(c)
  /\ \E p \in ready : work[p] < MaxWork /\ work' = [work EXCEPT ![p] = @ + 1]
  /\ UNCHANGED <<manager, tasks, alive, ready, stray, abandoned, late>>

PromptFails(c) == EndPost(c) /\ UNCHANGED <<manager, tasks, os, late>>

\* The client gives up; the request it wrote is still in the engine's socket.
PromptTimesOut(c) == /\ "late" \in Faults /\ EndPost(c) /\ late' = TRUE
                     /\ UNCHANGED <<manager, tasks, os>>

LateArrives ==
  /\ late /\ late' = FALSE
  /\ stray' = stray \cup ready
  /\ UNCHANGED <<manager, tasks, alive, ready, work, abandoned, posting, gate>>

LateLost == late /\ late' = FALSE /\ UNCHANGED <<manager, tasks, os, posting, gate>>
-----------------------------------------------------------------------------
(***************************************************************************)
(* The environment.                                                        *)
(***************************************************************************)
BecomeReady(p) ==
  /\ p \in alive \ abandoned /\ ready = {}
  /\ ready' = {p}
  /\ UNCHANGED <<manager, tasks, alive, work, stray, abandoned, prompts, gate>>

Exit(p) ==
  /\ p \in alive
  /\ "crash" \in Faults \/ p \in abandoned
  /\ alive' = alive \ {p} /\ ServiceGone(p)
  /\ abandoned' = abandoned \ {p}
  /\ UNCHANGED <<manager, tasks, prompts, gate>>

Wedge(p) ==
  /\ "wedge" \in Faults /\ p \in ready
  /\ ready' = ready \ {p}
  /\ UNCHANGED <<manager, tasks, alive, work, stray, abandoned, prompts, gate>>

FinishPrompt(p) ==
  /\ p \in alive
  /\ \/ work[p] > 0 /\ work' = [work EXCEPT ![p] = @ - 1] /\ UNCHANGED stray
     \/ p \in stray /\ stray' = stray \ {p} /\ UNCHANGED work
  /\ UNCHANGED <<manager, tasks, alive, ready, abandoned, prompts, gate>>

\* Another backend takes and frees the OS lock.
Rival ==
  /\ "rival" \in Faults /\ owner # "us"
  /\ owner' = IF owner = "none" THEN "other" ELSE "none"
  /\ UNCHANGED <<process, phase, desired, closing, record, tasks, os, prompts, gate>>
-----------------------------------------------------------------------------
\* The next step of task t, apart from taking the gate.
Run(t) ==
  \/ ProbeLive(t) \/ Launch(t) \/ PortConflict(t) \/ ReadyObserved(t) \/ StartFails(t)
  \/ Terminated(t) \/ IdleCheckRefuses(t) \/ IdleCheckPasses(t)
  \/ CancelAwaited(t) \/ DrainLocked(t)
  \/ t = "startup" /\ (StartupBegins \/ StartupLocked)
  \/ t = "recovery" /\ (RecoveryBegins \/ RecoveryWakes \/ RecoveryLocked)
  \/ t = "restart" /\ RestartBegins

Requests == StartInBackground \/ ScheduleRestart \/ StopRequest \/ Shutdown \/ StatusBegins

Answer(c) == PromptAccepted(c) \/ PromptFails(c) \/ PromptTimesOut(c)

Next ==
  \/ \E t \in Task : Run(t) \/ TakeGate(t)
  \/ Requests \/ StatusEnds \/ LoopCancels \/ Reboot
  \/ \E p \in Proc : Monitor(p)
  \/ \E c \in Client : TakeSubmissionGate(c) \/ Answer(c)
  \/ \E p \in Proc : BecomeReady(p) \/ Exit(p) \/ Wedge(p) \/ FinishPrompt(p)
  \/ LateArrives \/ LateLost \/ Rival

Spec == Init /\ [][Next]_vars

(***************************************************************************)
(* Fairness.  A coroutine the loop can resume is resumed, a POST ends      *)
(* (answer, error or client timeout), and the monitor gets its turn on the *)
(* FIFO lock.  Two assumptions are about the surroundings: the gate is not *)
(* retaken by producers for ever at the 10 ms polls of one waiter, and a   *)
(* launched engine comes up on some attempt.                               *)
(***************************************************************************)
Fairness ==
  /\ \A t \in Task \ {"shutdown"} : WF_vars(Run(t))
  /\ \A t \in {"stop", "restart"} : SF_vars(TakeGate(t))
  /\ \A p \in Proc : SF_vars(Monitor(p))
  /\ WF_vars(\E c \in Client : Answer(c))
  /\ SF_vars(\E p \in Proc : BecomeReady(p))

FairSpec == Spec /\ Fairness
-----------------------------------------------------------------------------
(***************************************************************************)
(* Properties.                                                             *)
(***************************************************************************)

\* Whatever fails or is cancelled on the way (start timeout, cancelled autostart,
\* a second cancel during a clean-up, restart), no engine process is left running
\* that the manager no longer refers to, unless its kill was never confirmed.
NoOrphanEngine == alive \subseteq abandoned \cup {process}

\* While the manager's child lives, this backend holds engine-owner.lock: no
\* failure path gives the cross-process lock back too early.
OwnerCoversEngine == process \in alive => owner = "us"

\* The lifecycle lock admits one task at a time, in every cancellation order.
LockExclusive == \A t, u \in Task : pc[t] \in InLock /\ pc[u] \in InLock => t = u

\* An unforced stop or restart that went past its idle check signals an engine
\* without accepted work, and the gate keeps it so until the engine is gone.
DrainNeverInterrupts ==
  \A t \in {"stop", "restart"} :
    pc[t] = "drain" /\ ~force[t] /\ process \in alive => work[process] = 0

\* Autostart and recovery enter a start only while the engine is wanted, and launch a
\* child after the wish was withdrawn only when the stop or shutdown that withdrew it
\* has yet to cancel the recovery, and so will take the child down.
Enters(t)   == pc[t] = "waitLock" /\ pc'[t] \in {"probeLive", "probePort"}
Launches(t) == pc[t] = "probePort" /\ pc'[t] = "waitReady"
WillCancelRecovery == \E c \in {"stop", "shutdown"} : pc[c] \in {"awaitStartup", "startupEnded"}
LaunchWanted ==
  [][\A t \in {"startup", "recovery"} :
       /\ Enters(t) => Wanted
       /\ Launches(t) => Wanted \/ (t = "recovery" /\ WillCancelRecovery)]_vars

\* Every stop request returns: neither the awaited tasks nor the lock nor the gate
\* can keep it for ever.
StopReturns == pc["stop"] # "idle" ~> pc["stop"] = "idle"

\* The record of every scheduled restart becomes complete or failed.
RestartReported == record = "open" ~> record # "open"

\* The crash of a monitored engine is followed by a ready engine, unless somebody
\* stops the engine, or a restart took over and failed.
CrashRecovered ==
  desired /\ process \in watched /\ process \notin alive
    ~> ready # {} \/ ~desired \/ pc["stop"] # "idle" \/ record = "error"

---------------------------------------------------------------------------
(* Stated by a comment or a document, not kept by the code: TLC refutes each. *)

\* A child that a restart launched and that exits before it is ready is relaunched like
\* any other child found dead: _run_scheduled_restart only records the failure.
RestartedChildRecovered ==
  desired /\ pc["restart"] = "waitReady" /\ process \notin alive ~> ready # {} \/ ~desired

\* A normal stop or restart never signals an engine that has accepted prompts, also
\* not the stop that ends the engine by cancelling a start under way: that clean-up
\* (_stop_locked(force=True)) asks neither the queue nor the gate.
NormalStopNeverInterrupts ==
  [][\A t \in Task :
       /\ pc[t] = "waitReady" /\ pc'[t] = "cancelStop"
       /\ Serving /\ ~force'["stop"] /\ ~force'["restart"]
       => work[process] = 0]_vars
=============================================================================
