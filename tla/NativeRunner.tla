----------------------------- MODULE NativeRunner -----------------------------
(***************************************************************************)
(* The native API Runner (backend/app/api/routes/native_api_runner.py) and *)
(* its durable state store NativeApiRunnerStateStore                       *)
(* (backend/app/services/native_api_runner.py): submission under an        *)
(* idempotency key, job polling and cancellation, against an engine whose  *)
(* queue other producers use too.                                          *)
(*                                                                         *)
(* Backend processes share one SQLite file; each has its own asyncio lock  *)
(* and memory cache.  An action is the code between two awaits, or one     *)
(* SQLite transaction where another process may come between two.          *)
(***************************************************************************)
EXTENDS Naturals

CONSTANTS
  Backend,     \* backend processes over the same storage root
  Call,        \* concurrent POST /run requests, each reused for retries
  Viewer,      \* concurrent GET /jobs and POST /jobs/cancel requests
  Key,         \* idempotency keys
  Digest,      \* workflow digests
  Prompt,      \* prompt identifiers the engine can hand out (bounds a behaviour)
  None,
  MaxCrashes   \* bound on the backend crashes of a behaviour

States   == {"submitting", "pending", "running", "completed", "failed", "unknown"}
Row      == [digest : Digest, client : Call, prompt : Prompt \cup {None}, state : States]
Request  == [backend : Backend, key : Key, digest : Digest]
Posted   == [call : Call \cup {None}, key : Key, digest : Digest]
Origin   == [key : Key, digest : Digest]
Response == [digest : Digest, prompt : Prompt]

ASSUME RunnerConstants ==
  /\ None \notin Call \cup Prompt \cup Row \cup Origin \cup Response
  /\ MaxCrashes \in Nat

VARIABLES
  row,       \* submissions table: the row of each key
  cache,     \* _submitted_requests of each backend
  lock,      \* _idempotency_lock of each backend
  pc, req,   \* where each run request is, and what it asks
  reply,     \* prompt id of the engine's answer to a request, not yet handled
  given,     \* every success response a client was sent
  flight,    \* POST /prompt bodies on their way to the engine
  origin,    \* what each accepted prompt was posted for
  place,     \* where the engine has each prompt
  vpc, target, seen,   \* the viewers: program counter, prompt, what they have read
  told,      \* prompts whose canceller was told "deleted_pending"
  crashes

table   == <<row, cache, lock>>
calls   == <<pc, req, reply, given>>
engine  == <<flight, origin, place>>
viewers == <<vpc, target, seen, told>>
vars    == <<table, calls, engine, viewers, crashes>>

Places   == {"unborn", "pending", "running", "completed", "failed", "deleted"}
Unread   == [queue |-> "unread", history |-> "unread"]

TypeOK ==
  /\ row \in [Key -> Row \cup {None}]
  /\ cache \in [Backend -> [Key -> Response \cup {None}]]
  /\ lock \in [Backend -> Call \cup {None}]
  /\ pc \in [Call -> {"idle", "waitLock", "reserve", "guard", "post"}]
  /\ req \in [Call -> Request] /\ reply \in [Call -> Prompt \cup {None}]
  /\ given \subseteq [key : Key, digest : Digest, prompt : Prompt]
  /\ flight \subseteq Posted
  /\ origin \in [Prompt -> Origin \cup {None}]
  /\ place \in [Prompt -> Places]
  /\ vpc \in [Viewer -> {"idle", "poll", "cancel", "delete", "checkQueue", "checkHistory",
                         "told", "verify", "interrupt", "mark"}]
  /\ target \in [Viewer -> Prompt]
  /\ seen \in [Viewer -> [queue : {"unread", "absent", "pending", "running"},
                          history : {"unread", "absent", "completed", "failed"}]]
  /\ told \subseteq Prompt /\ crashes \in 0 .. MaxCrashes

Init ==
  /\ row = [k \in Key |-> None]
  /\ cache = [b \in Backend |-> [k \in Key |-> None]]
  /\ lock = [b \in Backend |-> None]
  /\ pc = [c \in Call |-> "idle"] /\ req \in [Call -> Request]
  /\ \A c, d \in Call : req[c] = req[d]
  /\ reply = [c \in Call |-> None] /\ given = {}
  /\ flight = {} /\ origin = [p \in Prompt |-> None]
  /\ place = [p \in Prompt |-> "unborn"]
  /\ vpc = [v \in Viewer |-> "idle"] /\ seen = [v \in Viewer |-> Unread]
  /\ target \in [Viewer -> Prompt] /\ told = {} /\ crashes = 0
-----------------------------------------------------------------------------
(***************************************************************************)
(* POST /run                                                               *)
(***************************************************************************)
Goto(c, l) == pc' = [pc EXCEPT ![c] = l]

\* `async with _idempotency_lock` is left, and the request answered.
Leave(c) == /\ Goto(c, "idle")
            /\ lock' = [b \in Backend |-> IF lock[b] = c THEN None ELSE lock[b]]

Responds(c, p) ==
  given' = given \cup {[key |-> req[c].key, digest |-> req[c].digest, prompt |-> p]}

Caches(c, p) ==
  cache' = [cache EXCEPT ![req[c].backend][req[c].key] =
              [digest |-> req[c].digest, prompt |-> p]]

Arrive(c) ==
  /\ pc[c] = "idle"
  /\ \E r \in Request : req' = [req EXCEPT ![c] = r]
  /\ Goto(c, "waitLock")
  /\ UNCHANGED <<table, reply, given, engine, viewers, crashes>>

\* Mutant: the digest is not compared.
ReplaysAnyWorkflow(c, entry) == entry.prompt # None

\* A known key: replay its response, or 409 for another workflow and for a
\* submission nobody has resolved.
Replays(c, entry) == entry.digest = req[c].digest /\ entry.prompt # None

Known(c, entry) ==
  IF Replays(c, entry) THEN Responds(c, entry.prompt) ELSE UNCHANGED given

\* The lock is free: the table, then the memory cache.
LookUp(c) ==
  LET b == req[c].backend  k == req[c].key IN
  /\ pc[c] = "waitLock" /\ lock[b] = None
  /\ \/ /\ row[k] # None
        /\ Known(c, row[k]) /\ Goto(c, "idle") /\ UNCHANGED lock
        /\ IF Replays(c, row[k]) THEN Caches(c, row[k].prompt) ELSE UNCHANGED cache
     \/ /\ row[k] = None /\ cache[b][k] # None
        /\ Known(c, cache[b][k]) /\ Goto(c, "idle") /\ UNCHANGED <<lock, cache>>
     \/ /\ row[k] = None /\ cache[b][k] = None
        /\ lock' = [lock EXCEPT ![b] = c] /\ Goto(c, "reserve")
        /\ UNCHANGED <<given, cache>>
  /\ UNCHANGED <<row, req, reply, engine, viewers, crashes>>

NewRow(c) == [digest |-> req[c].digest, client |-> c, prompt |-> None,
              state |-> "submitting"]

\* reserve(): BEGIN IMMEDIATE, look again, insert.
Reserve(c) ==
  LET k == req[c].key IN
  /\ pc[c] = "reserve"
  /\ \/ /\ row[k] # None
        /\ Known(c, row[k]) /\ Leave(c) /\ UNCHANGED row
     \/ /\ row[k] = None
        /\ row' = [row EXCEPT ![k] = NewRow(c)]
        /\ Goto(c, "guard") /\ UNCHANGED <<given, lock>>
  /\ UNCHANGED <<cache, req, reply, engine, viewers, crashes>>

\* release_unsubmitted_reservation
Release(c) ==
  LET k == req[c].key IN
  row' = [row EXCEPT ![k] =
            IF @ # None /\ @.client = c /\ @.prompt = None /\ @.state = "submitting"
            THEN None ELSE @]

\* No lifespan-owned manager, or submission_guard finds the engine not running.
GuardRefuses(c) ==
  /\ pc[c] = "guard"
  /\ Release(c) /\ Leave(c)
  /\ UNCHANGED <<cache, req, reply, given, engine, viewers, crashes>>

Body(c) == [call |-> c, key |-> req[c].key, digest |-> req[c].digest]

Post(c) ==
  /\ pc[c] = "guard"
  /\ flight' = flight \cup {Body(c)}
  /\ Goto(c, "post")
  /\ UNCHANGED <<table, req, reply, given, origin, place, viewers, crashes>>

\* ComfyUI refuses the workflow with node_errors: nothing was queued.
NodeErrors(c) ==
  /\ pc[c] = "post" /\ Body(c) \in flight
  /\ flight' = flight \ {Body(c)}
  /\ Release(c) /\ Leave(c)
  /\ UNCHANGED <<cache, req, reply, given, origin, place, viewers, crashes>>

\* The bodies of request c go on without anybody waiting for their answer.
Orphaned(c) == {IF f.call = c THEN [f EXCEPT !.call = None] ELSE f : f \in flight}

\* Mutant: a submission that failed in any way frees its key.
PostFailsReleases(c) ==
  /\ pc[c] = "post"
  /\ \/ flight' = Orphaned(c)
     \/ flight' = flight \ {Body(c)}
  /\ reply' = [reply EXCEPT ![c] = None]
  /\ Release(c) /\ Leave(c)
  /\ UNCHANGED <<cache, req, given, origin, place, viewers, crashes>>

\* A client timeout, a broken connection, an HTTP error, an answer without a prompt
\* id, a failed write: the reservation stays.
PostFails(c) ==
  /\ pc[c] = "post"
  /\ \/ flight' = Orphaned(c)
     \/ flight' = flight \ {Body(c)}
  /\ reply' = [reply EXCEPT ![c] = None]
  /\ Leave(c)
  /\ UNCHANGED <<row, cache, req, given, origin, place, viewers, crashes>>

\* Mutant: the result is remembered in memory only.
CompleteInMemory(c) ==
  /\ pc[c] = "post" /\ reply[c] # None
  /\ Caches(c, reply[c]) /\ Responds(c, reply[c])
  /\ reply' = [reply EXCEPT ![c] = None]
  /\ Leave(c)
  /\ UNCHANGED <<row, req, engine, viewers, crashes>>

\* complete_submission, the caches, the response.
Complete(c) ==
  LET k == req[c].key IN
  /\ pc[c] = "post" /\ reply[c] # None
  /\ row' = [row EXCEPT ![k] = IF @ = None THEN None
               ELSE [digest |-> req[c].digest, client |-> c, prompt |-> reply[c],
                     state |-> "pending"]]
  /\ Caches(c, reply[c]) /\ Responds(c, reply[c])
  /\ reply' = [reply EXCEPT ![c] = None]
  /\ Leave(c)
  /\ UNCHANGED <<req, engine, viewers, crashes>>

\* A backend process dies and is started again: its requests, lock and cache are gone,
\* the SQLite file stays.
Crash(b) ==
  LET dead == {c \in Call : pc[c] # "idle" /\ req[c].backend = b} IN
  /\ crashes < MaxCrashes /\ crashes' = crashes + 1
  /\ pc' = [c \in Call |-> IF c \in dead THEN "idle" ELSE pc[c]]
  /\ reply' = [c \in Call |-> IF c \in dead THEN None ELSE reply[c]]
  /\ flight' = {IF f.call \in dead THEN [f EXCEPT !.call = None] ELSE f : f \in flight}
  /\ lock' = [lock EXCEPT ![b] = None]
  /\ cache' = [cache EXCEPT ![b] = [k \in Key |-> None]]
  /\ UNCHANGED <<row, req, given, origin, place, viewers>>
-----------------------------------------------------------------------------
(***************************************************************************)
(* The engine: one prompt runs at a time, and leaves the queue for the     *)
(* history in one step.                                                    *)
(***************************************************************************)
Accept(f, p) ==
  /\ f \in flight /\ place[p] = "unborn"
  /\ flight' = flight \ {f}
  /\ place' = [place EXCEPT ![p] = "pending"]
  /\ origin' = [origin EXCEPT ![p] = [key |-> f.key, digest |-> f.digest]]
  /\ reply' = IF f.call = None THEN reply ELSE [reply EXCEPT ![f.call] = p]
  /\ UNCHANGED <<table, pc, req, given, viewers, crashes>>

Moves(p, from, to) ==
  /\ place[p] = from /\ place' = [place EXCEPT ![p] = to]
  /\ UNCHANGED <<table, calls, flight, origin, viewers, crashes>>

Lost(f) == /\ f \in flight /\ f.call = None
           /\ flight' = flight \ {f}
           /\ UNCHANGED <<table, calls, origin, place, viewers, crashes>>

\* Phase 6, Phase 7 and the workflow editor queue prompts of their own.
Foreign(p) == Moves(p, "unborn", "pending")
Start(p)   == (\A q \in Prompt : place[q] # "running") /\ Moves(p, "pending", "running")
Finish(p)  == Moves(p, "running", "completed") \/ Moves(p, "running", "failed")

Queued(p)   == IF place[p] \in {"pending", "running"} THEN place[p] ELSE "absent"
Recorded(p) == IF place[p] \in {"completed", "failed"} THEN place[p] ELSE "absent"
-----------------------------------------------------------------------------
(***************************************************************************)
(* GET /jobs/{id} and POST /jobs/{id}/cancel                               *)
(***************************************************************************)
Look(v, l) == vpc' = [vpc EXCEPT ![v] = l]
Sees(v, what, value) == seen' = [seen EXCEPT ![v][what] = value]
ViewDone(v) == Look(v, "idle") /\ seen' = [seen EXCEPT ![v] = Unread]
FrameView == UNCHANGED <<cache, lock, calls, flight, origin, crashes>>

\* _native_client_id: the prompt is one of the Runner's.
View(v, p) ==
  /\ vpc[v] = "idle" /\ \E k \in Key : row[k] # None /\ row[k].prompt = p
  /\ target' = [target EXCEPT ![v] = p]
  /\ Look(v, "poll") \/ Look(v, "cancel")
  /\ FrameView /\ UNCHANGED <<row, place, seen, told>>

\* summarize_history
Summary(s) == IF s.history # "absent" THEN s.history
              ELSE IF s.queue # "absent" THEN s.queue ELSE "unknown"

\* update_prompt_state
Update(p, state) ==
  row' = [k \in Key |-> IF row[k] # None /\ row[k].prompt = p
                        THEN [row[k] EXCEPT !.state = state] ELSE row[k]]

\* get_job gathers history and queue at the same time ...
PollReads(v) ==
  /\ vpc[v] = "poll"
  /\ \/ seen[v].queue = "unread" /\ Sees(v, "queue", Queued(target[v]))
     \/ seen[v].history = "unread" /\ Sees(v, "history", Recorded(target[v]))
  /\ FrameView /\ UNCHANGED <<row, place, vpc, target, told>>

\* ... and writes what they say together.
PollWrites(v) ==
  /\ vpc[v] = "poll" /\ seen[v].queue # "unread" /\ seen[v].history # "unread"
  /\ Update(target[v], Summary(seen[v]))
  /\ ViewDone(v)
  /\ FrameView /\ UNCHANGED <<place, target, told>>

\* cancel_job decides on a first look at the queue.
CancelLooks(v) ==
  /\ vpc[v] = "cancel"
  /\ Look(v, CASE place[target[v]] = "pending" -> "delete"
               [] place[target[v]] = "running" -> "verify"
               [] OTHER -> "idle")
  /\ FrameView /\ UNCHANGED <<row, place, target, seen, told>>

Delete(v) ==
  /\ vpc[v] = "delete"
  /\ place' = [place EXCEPT ![target[v]] = IF @ = "pending" THEN "deleted" ELSE @]
  /\ Look(v, "checkQueue")
  /\ FrameView /\ UNCHANGED <<row, target, seen, told>>

\* The verification reads the queue first and the history second.
CheckQueue(v) ==
  /\ vpc[v] = "checkQueue"
  /\ Sees(v, "queue", Queued(target[v])) /\ Look(v, "checkHistory")
  /\ FrameView /\ UNCHANGED <<row, place, target, told>>

\* Mutant: only the queue is looked at.
CheckHistorySkipped(v) ==
  /\ vpc[v] = "checkHistory"
  /\ Sees(v, "history", "absent") /\ Look(v, "told")
  /\ FrameView /\ UNCHANGED <<row, place, target, told>>

CheckHistory(v) ==
  /\ vpc[v] = "checkHistory"
  /\ Sees(v, "history", Recorded(target[v])) /\ Look(v, "told")
  /\ FrameView /\ UNCHANGED <<row, place, target, told>>

\* cancel_raced_..., or the prompt is nowhere and so was deleted.
CancelTells(v) ==
  LET state == Summary(seen[v]) IN
  /\ vpc[v] = "told"
  /\ Update(target[v], IF state = "unknown" THEN "failed" ELSE state)
  /\ told' = IF state = "unknown" THEN told \cup {target[v]} ELSE told
  /\ ViewDone(v)
  /\ FrameView /\ UNCHANGED <<place, target>>

\* interrupt_active: look again, then the engine-wide interrupt.
Verify(v) ==
  /\ vpc[v] = "verify"
  /\ Look(v, IF place[target[v]] = "running" THEN "interrupt" ELSE "idle")
  /\ FrameView /\ UNCHANGED <<row, place, target, seen, told>>

Interrupt(v) ==
  /\ vpc[v] = "interrupt"
  /\ place' = [p \in Prompt |-> IF place[p] = "running" THEN "failed" ELSE place[p]]
  /\ Look(v, "mark")
  /\ FrameView /\ UNCHANGED <<row, target, seen, told>>

Marks(v) ==
  /\ vpc[v] = "mark"
  /\ Update(target[v], "failed")
  /\ ViewDone(v)
  /\ FrameView /\ UNCHANGED <<place, target, told>>

\* An HTTP error, a missing confirmation or a crash ends it at any await.
ViewEnds(v) ==
  /\ vpc[v] # "idle"
  /\ ViewDone(v)
  /\ FrameView /\ UNCHANGED <<row, place, target, told>>
-----------------------------------------------------------------------------
Next ==
  \/ \E c \in Call : \/ Arrive(c) \/ LookUp(c) \/ Reserve(c) \/ GuardRefuses(c)
                     \/ Post(c) \/ NodeErrors(c) \/ PostFails(c) \/ Complete(c)
  \/ \E b \in Backend : Crash(b)
  \/ \E f \in flight : Lost(f) \/ \E p \in Prompt : Accept(f, p)
  \/ \E p \in Prompt : Foreign(p) \/ Start(p) \/ Finish(p)
  \/ \E v \in Viewer : \/ \E p \in Prompt : View(v, p)
                       \/ PollReads(v) \/ PollWrites(v) \/ CancelLooks(v) \/ Delete(v)
                       \/ CheckQueue(v) \/ CheckHistory(v) \/ CancelTells(v)
                       \/ Verify(v) \/ Interrupt(v) \/ Marks(v) \/ ViewEnds(v)

Spec == Init /\ [][Next]_vars
-----------------------------------------------------------------------------
(***************************************************************************)
(* Properties.                                                             *)
(***************************************************************************)
Accepted(k) == {p \in Prompt : origin[p] # None /\ origin[p].key = k}

\* Whatever times out, crashes or is retried, on however many backends, the engine
\* accepts at most one prompt for an idempotency key.
AtMostOnePrompt == \A k \in Key : \A p, q \in Accepted(k) : p = q

\* The memory cache is only an accelerator: what it remembers is what the table says,
\* so the lookup's second answer can never differ from its first.
CacheAgrees ==
  \A b \in Backend, k \in Key :
    cache[b][k] # None => /\ row[k] # None
                          /\ row[k].prompt = cache[b][k].prompt
                          /\ row[k].digest = cache[b][k].digest

\* A client told "deleted_pending" can rely on it: the prompt left the queue before
\* it ever ran, also when it was about to start or finish during the cancel.
CancelHonest == \A p \in told : place[p] = "deleted"

\* The run route keeps the promise of IdempotentRun.
Run(k) == IF Accepted(k) = {} THEN None
          ELSE LET a == CHOOSE p \in Accepted(k) : TRUE
               IN  [digest |-> origin[a].digest, prompt |-> a]

Once == INSTANCE IdempotentRun WITH run <- [k \in Key |-> Run(k)]

KeepsPromise == Once!Spec

---------------------------------------------------------------------------
(* Stated by a comment or a document, not kept by the code: TLC refutes each. *)

\* An accepted prompt is discoverable, also after a backend restart: once no request is
\* working on it, the table leads to it. PostFails and Crash leave its row without it.
AcceptedDiscoverable ==
  \A p \in Prompt : origin[p] # None =>
    \/ \E c \in Call : reply[c] = p
    \/ \E k \in Key : row[k] # None /\ row[k].prompt = p

\* A cancel interrupts its own prompt only: the engine may have gone on to another
\* one since cancel_job looked.
InterruptsOwnOnly ==
  [][\A v \in Viewer : vpc[v] = "interrupt" /\ vpc'[v] = "mark"
       => \A p \in Prompt : place[p] = "running" => p = target[v]]_vars
=============================================================================
