------------------------------ MODULE DurableRun ------------------------------
(***************************************************************************)
(* What a durable planning run promises, whoever starts, cancels, resumes  *)
(* or loses it: it is handed to one worker at a time, and to the next one  *)
(* only after the lease of the last has lapsed; while it is lapsed nothing *)
(* is recorded; an answer to a step is kept; a proposal is made only when  *)
(* every step is answered, and the run completes only with one; a          *)
(* completed run records nothing more, and one that has ended is never     *)
(* handed out again.                                                       *)
(***************************************************************************)
EXTENDS Naturals

CONSTANTS Worker, NoWorker, Steps, RepairBudget

VARIABLES
  state,      \* "waiting", "held", "lapsed", "ended" or "completed"
  holder,     \* the worker it was handed to, NoWorker if it waits or is over
  answered,   \* the steps with a recorded answer
  repairs,    \* repairs spent
  proposals   \* proposals made

plan == <<answered, repairs, proposals>>
vars == <<state, holder, plan>>

Init ==
  /\ state = "waiting" /\ holder = NoWorker
  /\ answered = {} /\ repairs = 0 /\ proposals = 0

\* A worker that was let go of may still record what it has in hand.
Recording == state \in {"held", "ended"}

Stop == state' = "ended" /\ holder' = NoWorker

Take(w) ==
  /\ state \in {"waiting", "lapsed"}
  /\ state' = "held" /\ holder' = w
  /\ UNCHANGED plan

Lapse ==
  /\ state = "held" /\ state' = "lapsed"
  /\ UNCHANGED <<holder, plan>>

\* The answer to a step that was ended meanwhile is recorded, and ends the run.
Answer(i) ==
  /\ Recording /\ i \notin answered /\ proposals = 0
  /\ answered' = answered \cup {i}
  /\ Stop \/ UNCHANGED <<state, holder>>
  /\ UNCHANGED <<repairs, proposals>>

Repair ==
  /\ Recording /\ repairs < RepairBudget /\ answered # Steps
  /\ repairs' = repairs + 1
  /\ UNCHANGED <<state, holder, answered, proposals>>

Propose ==
  /\ Recording /\ answered = Steps
  /\ proposals' = proposals + 1
  /\ UNCHANGED <<state, holder, answered, repairs>>

Complete ==
  /\ Recording /\ proposals > 0
  /\ state' = "completed" /\ holder' = NoWorker
  /\ UNCHANGED plan

End == Stop /\ UNCHANGED plan

Next ==
  \/ \E w \in Worker : Take(w)
  \/ \E i \in Steps : Answer(i)
  \/ Lapse \/ Repair \/ Propose \/ Complete \/ End

Spec == Init /\ [][Next]_vars
=============================================================================
