------------------------------- MODULE Supervisor -------------------------------
(***************************************************************************)
(* The supervisor of the local stack (scripts/start_cineforge.py): it takes *)
(* a lock file, starts the backend and the frontend or reuses what answers  *)
(* on their ports, watches what it started, replaces it when it exits or no *)
(* longer answers, and stops it at the end.                                 *)
(*                                                                          *)
(* The platform is Windows, for which the launcher is made: a file that is  *)
(* open cannot be unlinked, the lock names its owner so that a reused       *)
(* process identifier is told apart, and the job object of a child ends its *)
(* whole process tree when the handle is closed, also by the death of the   *)
(* supervisor.                                                              *)
(*                                                                          *)
(* Left out: locks of older versions, the bootstrap of the planning model,  *)
(* which has ended before the backend is started, the state file, the       *)
(* browser, and how long things take.                                       *)
(***************************************************************************)
EXTENDS Integers

CONSTANTS Supervisors,       \* runs of the launcher, each one process
          Last,              \* services 1 .. Last, in the order of their start
          Engined,           \* services with a second readiness URL: the backend
          FailureThreshold,  \* LIVENESS_FAILURE_THRESHOLD
          NoLock, Torn, Stale,  \* no lock file, an empty one, one of a dead process
          MaxFaults          \* bound: faults and timeouts, none after a stolen lock

ASSUME SupervisorAssumption ==
    /\ Last \in Nat \ {0} /\ Engined \subseteq 1 .. Last
    /\ FailureThreshold \in Nat \ {0} /\ MaxFaults \in Nat
    /\ {NoLock, Torn, Stale} \cap Supervisors = {}
    /\ NoLock # Torn /\ NoLock # Stale /\ Torn # Stale

VARIABLES lock,      \* the content of the lock file
          run,       \* the supervisors
          child,     \* the process tree each one launched last for a service
          listener,  \* what else holds the port of a service
          faults,    \* faults so far
          stolen     \* history: <<s, t, late>> when s unlinked the lock of t,
                     \* late if t held it already when s was started

supervisorVars == <<lock, run, child, listener, faults, stolen>>

Services == 1 .. Last

\* The root of a tree is alive, or has exited; in "tail" a descendant still listens.
Rooted == {"new", "starting", "live", "ready", "hung"}
Listening == {"live", "ready", "hung", "tail"}
Trees == Rooted \cup Listening \cup {"gone"}

Listeners == {"none", "silent", "live", "ready"}

\* Where a supervisor is, its attempt in acquire_lock, the service it is concerned
\* with and for what, the services it started and their consecutive_failures; history:
\* who held the lock when it was started.
RunState == [pc      : {"off", "create", "write", "read", "unlink", "look", "assign",
                        "wait", "verify", "stop", "backoff", "watch", "closing", "drop",
                        "ended"},
             attempt : 1 .. 2,
             service : Services,
             task    : {"boot", "retry", "watch"},
             owned   : SUBSET Services,
             missed  : [Services -> 0 .. FailureThreshold - 1],
             began   : SUBSET Supervisors]

Fresh(place) == [pc |-> place, attempt |-> 1, service |-> 1, task |-> "boot",
                 owned |-> {}, missed |-> [i \in Services |-> 0], began |-> {}]

\* The lock and its history, the supervisors, their processes and the faults.
SupervisorTypeOK ==
    /\ lock \in {NoLock, Torn, Stale} \cup Supervisors
    /\ run \in [Supervisors -> RunState]
    /\ child \in [Supervisors -> [Services -> Trees]]
    /\ listener \in [Services -> Listeners]
    /\ faults \in 0 .. MaxFaults
    /\ stolen \subseteq Supervisors \X Supervisors \X BOOLEAN

SupervisorInit ==
    /\ lock \in {NoLock, Stale}
    /\ run = [s \in Supervisors |-> Fresh("off")]
    /\ child = [s \in Supervisors |-> [i \in Services |-> "gone"]]
    /\ listener = [i \in Services |-> "none"]
    /\ faults = 0
    /\ stolen = {}

---------------------------------------------------------------------------
(* What a supervisor sees *)

At(s, place) == run[s].pc = place

Alive(s) == ~At(s, "off") /\ ~At(s, "ended")

\* Between acquire_lock and release_lock.
Running(s) == Alive(s) /\ run[s].pc \notin {"create", "write", "read", "unlink"}

Ending(s) == At(s, "closing") \/ At(s, "drop")

Mine(s) == child[s][run[s].service]

PortTaken(i) ==
    listener[i] # "none" \/ \E s \in Supervisors : child[s][i] \in Listening

\* _service_liveness_ready: the first readiness URL answers.
Answers(i) ==
    \/ listener[i] \in {"live", "ready"}
    \/ \E s \in Supervisors : child[s][i] \in {"live", "ready", "tail"}

\* is_ready: all of them do.
IsReady(i) ==
    \/ listener[i] = "ready"
    \/ \E s \in Supervisors : child[s][i] \in {"ready", "tail"}

\* process.poll() of the child in question.
Exited(s) == Mine(s) \notin Rooted

Go(s, place) == run' = [run EXCEPT ![s].pc = place]

End(s) == run' = [run EXCEPT ![s] = Fresh("ended")]

Becomes(s, state) == child' = [child EXCEPT ![s][run[s].service] = state]

Fault == faults < MaxFaults /\ faults' = faults + 1

surroundings == <<child, listener, faults>>

---------------------------------------------------------------------------
(* The lock file *)

Start(s) ==
    /\ At(s, "off")
    /\ run' = [run EXCEPT ![s].pc = "create",
                          ![s].began = {t \in Supervisors : Running(t)}]
    /\ UNCHANGED <<lock, stolen, surroundings>>

\* os.open with O_EXCL; the file is empty until it is written.
Create(s) ==
    /\ At(s, "create")
    /\ IF lock = NoLock THEN lock' = Torn /\ Go(s, "write")
       ELSE lock' = lock /\ Go(s, "read")
    /\ UNCHANGED <<surroundings, stolen>>

WriteLock(s) ==
    /\ At(s, "write")
    /\ lock' = s
    /\ run' = [run EXCEPT ![s].pc = "look", ![s].began = {}]
    /\ UNCHANGED <<surroundings, stolen>>

\* Mutant: nobody is found alive.
NobodyActive(owner) == FALSE

\* _lock_owner_is_active; an empty file names nobody.
OwnerIsActive(owner) == owner \in Supervisors /\ Alive(owner)

\* "CineForge supervisor is already running".
ReadLock(s) ==
    /\ At(s, "read")
    /\ IF OwnerIsActive(lock) THEN End(s) ELSE Go(s, "unlink")
    /\ UNCHANGED <<lock, surroundings, stolen>>

\* The file is removed by its name, whoever has written it since it was read.  The
\* faults of a behaviour end with a stolen lock (bound).
Unlinked(s) ==
    /\ lock' = NoLock
    /\ IF lock \in Supervisors \ {s} /\ Running(lock)
       THEN stolen' = stolen \cup {<<s, lock, lock \in run[s].began>>} /\ faults' = MaxFaults
       ELSE UNCHANGED <<stolen, faults>>

BeingWritten == \E t \in Supervisors : At(t, "write")

\* A file that is being written cannot be removed, which ends the run.
UnlinkLock(s) ==
    /\ At(s, "unlink")
    /\ \/ BeingWritten /\ End(s) /\ UNCHANGED <<lock, stolen, faults>>
       \/ /\ ~BeingWritten
          /\ Unlinked(s)
          /\ IF run[s].attempt = 2 THEN End(s)
             ELSE run' = [run EXCEPT ![s].pc = "create", ![s].attempt = 2]
    /\ UNCHANGED <<child, listener>>

---------------------------------------------------------------------------
(* Starting a child *)

After(i) == IF i = Last THEN 1 ELSE i + 1

\* The next service; the watch when all are there.
Proceed(s) ==
    LET i == run[s].service
        watching == run[s].task = "watch" \/ i = Last
    IN run' = [run EXCEPT ![s].pc = IF watching THEN "watch" ELSE "look",
                          ![s].task = IF watching THEN "watch" ELSE "boot",
                          ![s].service = After(i)]

\* What is ready is reused; a backend that answers and is not ready, or does not own
\* its engine, ends the run.
Look(s) ==
    LET i == run[s].service IN
    /\ At(s, "look")
    /\ \/ IsReady(i) /\ Proceed(s) /\ UNCHANGED child
       \/ /\ i \in Engined /\ Answers(i)
          /\ ~IsReady(i) \/ listener[i] = "ready"
          /\ Go(s, "closing")
          /\ UNCHANGED child
       \/ /\ ~IsReady(i) /\ ~(i \in Engined /\ Answers(i))
          /\ Becomes(s, "new") /\ Go(s, "assign")
    /\ UNCHANGED <<lock, listener, faults, stolen>>

\* The child is in its job object and in the list of what is owned.
Assign(s) ==
    /\ At(s, "assign")
    /\ Becomes(s, "starting")
    /\ run' = [run EXCEPT ![s].pc = "wait", ![s].owned = @ \cup {run[s].service}]
    /\ UNCHANGED <<lock, listener, faults, stolen>>

\* launch raises: the first start of a service ends the run, a later one is repeated.
LaunchFails(s) ==
    /\ At(s, "assign") /\ Fault
    /\ Becomes(s, "gone")
    /\ Go(s, IF run[s].task = "boot" THEN "closing" ELSE "backoff")
    /\ UNCHANGED <<lock, listener, stolen>>

\* wait_until_ready: the URLs answer, whoever does it, and the child had not exited.
WaitReady(s) ==
    /\ At(s, "wait") /\ ~Exited(s) /\ IsReady(run[s].service)
    /\ Go(s, "verify")
    /\ UNCHANGED <<lock, surroundings, stolen>>

WaitExited(s) ==
    /\ At(s, "wait") /\ Exited(s)
    /\ Go(s, "stop")
    /\ UNCHANGED <<lock, surroundings, stolen>>

\* timeout_seconds are over, perhaps just when the child had become ready.  That a
\* child which does not hang takes too long is a fault.
WaitTimesOut(s) ==
    /\ At(s, "wait")
    /\ (Mine(s) = "hung" /\ UNCHANGED faults) \/ Fault
    /\ Go(s, "stop")
    /\ UNCHANGED <<lock, child, listener, stolen>>

\* The child has still not exited; of the backend _verify_backend_generation asks again.
Verify(s) ==
    /\ At(s, "verify")
    /\ IF ~Exited(s) /\ (run[s].service \in Engined => IsReady(run[s].service))
       THEN Proceed(s) ELSE Go(s, "stop")
    /\ UNCHANGED <<lock, surroundings, stolen>>

---------------------------------------------------------------------------
(* Watching and replacing *)

\* Mutant: a child that exited is not noticed as long as something answers, nor at all.
NeverReplaced(s, n) == FALSE

\* An owned child that exited or missed too many probes is replaced.
MustReplace(s, n) == Exited(s) \/ n = FailureThreshold

Watch(s) ==
    LET i == run[s].service
        n == IF Answers(i) THEN 0 ELSE run[s].missed[i] + 1
    IN
    /\ At(s, "watch")
    /\ IF i \in run[s].owned /\ MustReplace(s, n)
       THEN run' = [run EXCEPT ![s].pc = "stop", ![s].missed[i] = 0]
       ELSE run' = [run EXCEPT ![s].service = After(i),
                               ![s].missed[i] = IF i \in run[s].owned
                                                THEN n % FailureThreshold ELSE 0]
    /\ UNCHANGED <<lock, surroundings, stolen>>

\* Mutant: the job object of a child whose root has exited is not closed.
StoppedRoot(tree) == IF tree = "tail" THEN "tail" ELSE "gone"

\* stop_owned: the root is asked and then killed, the job ends the rest of the tree.
StoppedTree(tree) == "gone"

Replacing(s) ==
    run' = [run EXCEPT ![s].pc = "backoff",
                       ![s].task = IF @ = "boot" THEN "retry" ELSE @]

\* recover_owned_service stops the failed child or candidate ...
Stop(s) ==
    /\ At(s, "stop")
    /\ Becomes(s, StoppedTree(Mine(s)))
    /\ Replacing(s)
    /\ UNCHANGED <<lock, listener, faults, stolen>>

\* ... which may survive its kill and keep the port ...
StopUnconfirmed(s) ==
    /\ At(s, "stop") /\ Fault
    /\ Mine(s) \in Listening
    /\ listener' = [listener EXCEPT ![run[s].service] = "silent"]
    /\ Becomes(s, "gone")
    /\ Replacing(s)
    /\ UNCHANGED <<lock, stolen>>

\* ... and starts another one, once nothing answers in its place.
Relaunch(s) ==
    /\ At(s, "backoff")
    /\ ~Answers(run[s].service)
    /\ Becomes(s, "new") /\ Go(s, "assign")
    /\ UNCHANGED <<lock, listener, faults, stolen>>

---------------------------------------------------------------------------
(* The end *)

\* A child that is in no job object yet survives its supervisor, and may get the port.
Survivors(s) ==
    {l \in [Services -> Listeners] :
        \A i \in Services :
            IF child[s][i] = "new" /\ ~PortTaken(i) THEN l[i] \in {"none", "ready"}
            ELSE l[i] = listener[i]}

\* Ctrl+C, or an error nothing handles.  Before the lock is held the run just ends.
Interrupt(s) ==
    /\ Alive(s) /\ ~Ending(s)
    /\ IF Running(s) THEN Go(s, "closing") ELSE End(s)
    /\ listener' \in Survivors(s)
    /\ child' = [child EXCEPT ![s] = [i \in Services |-> IF @[i] = "new" THEN "gone" ELSE @[i]]]
    /\ UNCHANGED <<lock, faults, stolen>>

\* The finally clause stops the children, the last one first, ...
CloseChild(s) ==
    /\ At(s, "closing")
    /\ \E i \in run[s].owned :
         /\ child[s][i] # "gone"
         /\ \A j \in run[s].owned : j > i => child[s][j] = "gone"
         /\ child' = [child EXCEPT ![s][i] = StoppedTree(@)]
    /\ UNCHANGED <<lock, run, listener, faults, stolen>>

\* ... and release_lock reads the lock ...
Release(s) ==
    /\ At(s, "closing")
    /\ \A i \in run[s].owned : child[s][i] = "gone"
    /\ IF lock = s THEN Go(s, "drop") ELSE End(s)
    /\ UNCHANGED <<lock, surroundings, stolen>>

\* ... and unlinks it if it was its own.
DropLock(s) ==
    /\ At(s, "drop")
    /\ IF BeingWritten THEN UNCHANGED <<lock, stolen, faults>> ELSE Unlinked(s)
    /\ End(s)
    /\ UNCHANGED <<child, listener>>

\* The process is killed: its job objects are closed, the lock stays.
Die(s) ==
    /\ Alive(s) /\ Fault
    /\ End(s)
    /\ listener' \in Survivors(s)
    /\ child' = [child EXCEPT ![s] = [i \in Services |-> "gone"]]
    /\ UNCHANGED <<lock, stolen>>

---------------------------------------------------------------------------
(* The processes *)

\* A child gets its port, or exits because it is taken.
Serve(s, i) ==
    /\ child[s][i] = "starting"
    /\ child' = [child EXCEPT ![s][i] =
                   IF PortTaken(i) THEN "gone" ELSE IF i \in Engined THEN "live" ELSE "ready"]
    /\ UNCHANGED <<lock, run, listener, faults, stolen>>

\* The backend's engine is ready.
EngineReady(s, i) ==
    /\ i \in Engined /\ child[s][i] = "live"
    /\ child' = [child EXCEPT ![s][i] = "ready"]
    /\ UNCHANGED <<lock, run, listener, faults, stolen>>

\* A tree ends, stops answering, loses its engine, or loses only its root (npm, or
\* the launcher of a virtual environment), while what that had started goes on.
ChildFails(s, i) ==
    /\ Fault
    /\ \E tree \in {"gone", "hung", "live", "tail"} :
         /\ CASE tree = "gone" -> child[s][i] \in Rooted \ {"new"}
              [] tree = "hung" -> child[s][i] \in {"live", "ready"}
              [] tree = "live" -> child[s][i] = "ready" /\ i \in Engined
              [] tree = "tail" -> child[s][i] = "ready"
         /\ child' = [child EXCEPT ![s][i] = tree]
    /\ UNCHANGED <<lock, run, listener, stolen>>

\* Another program takes the port, and answers or not, ...
ListenerComes(i) ==
    /\ Fault /\ ~PortTaken(i)
    /\ \E level \in {"silent", "ready"} \cup (IF i \in Engined THEN {"live"} ELSE {}) :
         listener' = [listener EXCEPT ![i] = level]
    /\ UNCHANGED <<lock, run, child, stolen>>

\* ... and leaves it.
ListenerLeaves(i) ==
    /\ listener[i] # "none"
    /\ listener' = [listener EXCEPT ![i] = "none"]
    /\ UNCHANGED <<lock, run, child, faults, stolen>>

---------------------------------------------------------------------------

\* What the run does by itself.
Step(s) ==
    \/ Create(s) \/ WriteLock(s) \/ ReadLock(s) \/ UnlinkLock(s)
    \/ Look(s) \/ Assign(s) \/ WaitReady(s) \/ WaitExited(s) \/ Verify(s)
    \/ Watch(s) \/ Stop(s) \/ Relaunch(s)
    \/ CloseChild(s) \/ Release(s) \/ DropLock(s)

SupervisorNext ==
    \/ \E s \in Supervisors :
         \/ Start(s) \/ Step(s)
         \/ Interrupt(s) \/ Die(s) \/ LaunchFails(s) \/ WaitTimesOut(s) \/ StopUnconfirmed(s)
         \/ \E i \in Services : Serve(s, i) \/ EngineReady(s, i) \/ ChildFails(s, i)
    \/ \E i \in Services : ListenerComes(i) \/ ListenerLeaves(i)

SupervisorSpec == SupervisorInit /\ [][SupervisorNext]_supervisorVars

\* A run goes on by itself, its children come up, and foreign programs leave the ports.
FairSupervisorSpec ==
    /\ SupervisorSpec
    /\ \A s \in Supervisors :
         /\ WF_supervisorVars(Step(s))
         /\ WF_supervisorVars(Mine(s) = "hung" /\ WaitTimesOut(s))
         /\ \A i \in Services : /\ WF_supervisorVars(Serve(s, i))
                               /\ WF_supervisorVars(EngineReady(s, i))
    /\ \A i \in Services : WF_supervisorVars(ListenerLeaves(i))

---------------------------------------------------------------------------
(* Properties *)

\* "CineForge supervisor is already running": two supervisors run at the same
\* time only if the lock of one was unlinked by somebody who had been started
\* before that one got it, and so had read a stale or an empty lock.
OneSupervisor ==
    /\ \A s, t \in Supervisors :
         s # t /\ Running(s) /\ Running(t)
           => \E p \in stolen : p[2] \in {s, t}
    /\ \A p \in stolen : ~p[3]

\* "An orphaned listener cannot satisfy readiness for a replacement generation"
\* (UNIFIED_BLOKEYUI_ENGINE.md:46): before a replacement is launched, and when a
\* supervisor has ended, nothing of the trees it had launched is left.
NoneLeftBehind ==
    \A s \in Supervisors :
        /\ At(s, "backoff") => Mine(s) = "gone"
        /\ At(s, "ended") => \A i \in Services : child[s][i] = "gone"

\* Once the faults are over, what a supervisor owns answers for good, although it
\* watches nothing else while it replaces one child; unless a stolen lock has let
\* two supervisors run, which may keep the ports from each other.
OwnedAnswers ==
    \A s \in Supervisors, i \in Services :
        <>[](i \in run[s].owned /\ Running(s) /\ ~Ending(s) => Answers(i) \/ stolen # {})

=============================================================================
