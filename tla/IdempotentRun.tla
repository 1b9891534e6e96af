---------------------------- MODULE IdempotentRun ----------------------------
(***************************************************************************)
(* What POST /native-api-runner/run promises for an idempotency key: the   *)
(* engine accepts at most one prompt for it, and whoever gets a success    *)
(* for the key gets that prompt, for the workflow it was accepted with.    *)
(***************************************************************************)
CONSTANTS Key, Digest, Prompt, None

VARIABLES
  run,    \* the prompt accepted for each key, with its workflow digest
  given   \* every success response: key, digest of the request, prompt

Run == [digest : Digest, prompt : Prompt]

Init == run = [k \in Key |-> None] /\ given = {}

Accept(k, d, p) ==
  /\ run[k] = None
  /\ \A other \in Key : run[other] = None \/ run[other].prompt # p
  /\ run' = [run EXCEPT ![k] = [digest |-> d, prompt |-> p]]
  /\ UNCHANGED given

Reply(k) ==
  /\ run[k] # None
  /\ given' = given \cup {[key |-> k, digest |-> run[k].digest, prompt |-> run[k].prompt]}
  /\ UNCHANGED run

Next == \E k \in Key : Reply(k) \/ \E d \in Digest, p \in Prompt : Accept(k, d, p)

Spec == Init /\ [][Next]_<<run, given>>
=============================================================================
