----------------------------- MODULE JobLifecycle -----------------------------
(***************************************************************************)
(* What the durable queue promises of its jobs, whoever claims, sweeps,    *)
(* cancels or submits them in whatever order: a job is handed out only     *)
(* while it waits, at most MaxAttempts times; once it has left the queue   *)
(* it never waits again; and the engine accepts its prompts only after     *)
(* that, no more of them than the job was handed out.                      *)
(***************************************************************************)
EXTENDS Naturals

CONSTANTS Job, MaxAttempts

VARIABLES
  place,     \* where each job is: waiting, reserved for a worker, or out of the queue
  attempts,  \* how often it was handed out
  accepted   \* how many of its prompts the engine has accepted

Init ==
  /\ place = [j \in Job |-> "waiting"]
  /\ attempts = [j \in Job |-> 0] /\ accepted = [j \in Job |-> 0]

HandOut(j) ==
  /\ place[j] = "waiting" /\ attempts[j] < MaxAttempts
  /\ place' = [place EXCEPT ![j] = "reserved"]
  /\ attempts' = [attempts EXCEPT ![j] = @ + 1]
  /\ UNCHANGED accepted

TakeBack(j) ==
  /\ place[j] = "reserved" /\ attempts[j] < MaxAttempts
  /\ place' = [place EXCEPT ![j] = "waiting"]
  /\ UNCHANGED <<attempts, accepted>>

\* The job is being submitted, or given up.
Leave(j) ==
  /\ place' = [place EXCEPT ![j] = "left"]
  /\ UNCHANGED <<attempts, accepted>>

Accept(j) ==
  /\ place[j] = "left" /\ accepted[j] < attempts[j]
  /\ accepted' = [accepted EXCEPT ![j] = @ + 1]
  /\ UNCHANGED <<place, attempts>>

Next == \E j \in Job : HandOut(j) \/ TakeBack(j) \/ Leave(j) \/ Accept(j)

Spec == Init /\ [][Next]_<<place, attempts, accepted>>
=============================================================================
