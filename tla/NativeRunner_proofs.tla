------------------------- MODULE NativeRunner_proofs -------------------------
(***************************************************************************)
(* Proofs about NativeRunner, for any number of backends, requests, keys,  *)
(* workflows and prompts: type correctness, at most one accepted prompt    *)
(* for an idempotency key, the agreement of the caches with the table, and *)
(* that the run route implements IdempotentRun.                            *)
(*                                                                         *)
(* The argument.  A request that is about to post, or has posted, owns the *)
(* reservation of its key: the row names it and has no prompt (Reserved),  *)
(* so two requests never work on one key.  A body that has been posted for *)
(* a key and a prompt accepted for it exclude each other and are unique    *)
(* (FlightOne, FlightOrPrompt, AtMostOnePrompt).  The row is removed only  *)
(* when neither exists (NoRowNoPrompt, GuardUnposted), which is what the   *)
(* paths that keep the reservation after an unclear answer are for.        *)
(***************************************************************************)
EXTENDS NativeRunner, TLAPS

Unposted(k) == /\ \A f \in flight : f.key # k
               /\ \A p \in Prompt : origin[p] = None \/ origin[p].key # k

Reserved == \A c \in Call : pc[c] \in {"guard", "post"} =>
  LET r == row[req[c].key] IN
    /\ r # None /\ r.client = c /\ r.prompt = None /\ r.state = "submitting"

NoRowNoPrompt  == \A k \in Key : row[k] = None => Unposted(k)
GuardUnposted  == \A c \in Call : pc[c] = "guard" => Unposted(req[c].key)
FlightOne      == \A f, g \in flight : f.key = g.key => f = g
FlightOrPrompt == \A f \in flight, p \in Prompt : origin[p] = None \/ origin[p].key # f.key

\* A body somebody waits for is the one that request posted.
Waiting == \A f \in flight : f.call # None =>
  /\ pc[f.call] = "post" /\ f = Body(f.call) /\ reply[f.call] = None

ReplyToPost == \A c \in Call : reply[c] # None => pc[c] = "post"

\* An answer waiting to be handled, a finished row and a cache entry name the prompt
\* that was accepted for their key and workflow.
Replied == \A c \in Call : reply[c] # None =>
  origin[reply[c]] = [key |-> req[c].key, digest |-> req[c].digest]

RowTrue == \A k \in Key : row[k] # None /\ row[k].prompt # None =>
  origin[row[k].prompt] = [key |-> k, digest |-> row[k].digest]

Unborn == \A p \in Prompt : place[p] = "unborn" => origin[p] = None

OnceInv == /\ Reserved /\ NoRowNoPrompt /\ GuardUnposted
           /\ FlightOne /\ FlightOrPrompt /\ AtMostOnePrompt /\ Waiting /\ ReplyToPost

TrueInv == Replied /\ RowTrue /\ Unborn /\ CacheAgrees

\* A canceller has read the queue before the history, and both before it tells.
ReadFirst == \A v \in Viewer :
  /\ vpc[v] \in {"checkHistory", "told"} => seen[v].queue # "unread"
  /\ vpc[v] = "told" => seen[v].history # "unread"

IInv == TypeOK /\ ReadFirst /\ OnceInv /\ TrueInv
-----------------------------------------------------------------------------
(***************************************************************************)
(* Types.                                                                  *)
(***************************************************************************)
LEMMA InitType == Init => TypeOK
  BY RunnerConstants DEF Init, TypeOK, Unread, Request, Places

\* Leaving the lock and replaying a known submission keep the types.
LEMMA CallTypes ==
  ASSUME TypeOK, NEW c \in Call
  PROVE  /\ req[c] \in Request
         /\ Leave(c) => /\ pc' \in [Call -> {"idle", "waitLock", "reserve", "guard", "post"}]
                        /\ lock' \in [Backend -> Call \cup {None}]
         /\ Release(c) => row' \in [Key -> Row \cup {None}]
         /\ \A p \in Prompt : Responds(c, p) =>
              given' \subseteq [key : Key, digest : Digest, prompt : Prompt]
         /\ \A p \in Prompt : Caches(c, p) =>
              cache' \in [Backend -> [Key -> Response \cup {None}]]
         /\ Orphaned(c) \subseteq Posted
<1>1. req[c] \in Request BY DEF TypeOK
<1>2. Leave(c) => /\ pc' \in [Call -> {"idle", "waitLock", "reserve", "guard", "post"}]
                  /\ lock' \in [Backend -> Call \cup {None}]
  BY DEF TypeOK, Leave, Goto
<1>3. Release(c) => row' \in [Key -> Row \cup {None}]
  BY <1>1 DEF TypeOK, Release
<1>4. ASSUME NEW p \in Prompt, Responds(c, p)
      PROVE  given' \subseteq [key : Key, digest : Digest, prompt : Prompt]
  BY <1>1, <1>4 DEF TypeOK, Responds, Request
<1>5. ASSUME NEW p \in Prompt, Caches(c, p)
      PROVE  cache' \in [Backend -> [Key -> Response \cup {None}]]
  <2> DEFINE e == [digest |-> req[c].digest, prompt |-> p]
             b == req[c].backend
             k == req[c].key
  <2>1. e \in Response /\ b \in Backend /\ k \in Key BY <1>1 DEF Request, Response
  <2>2. cache' = [cache EXCEPT ![b] = [cache[b] EXCEPT ![k] = e]]
    BY <1>5 DEF Caches
  <2>3. [cache[b] EXCEPT ![k] = e] \in [Key -> Response \cup {None}]
    BY <2>1 DEF TypeOK
  <2> QED BY <2>1, <2>2, <2>3 DEF TypeOK
<1>6. Orphaned(c) \subseteq Posted BY DEF TypeOK, Orphaned, Posted
<1> QED BY <1>1, <1>2, <1>3, <1>4, <1>5, <1>6

\* A replay hands out prompts of the table or of the cache, both of which are prompts.
LEMMA ReplayTypes ==
  ASSUME TypeOK, NEW c \in Call, NEW e \in Row \cup Response, Known(c, e)
  PROVE  /\ given' \subseteq [key : Key, digest : Digest, prompt : Prompt]
         /\ Replays(c, e) => e.prompt \in Prompt
<1>1. Replays(c, e) => e.prompt \in Prompt BY DEF Replays, Row, Response
<1> QED BY <1>1, CallTypes DEF Known, TypeOK

\* Each action keeps what the canceller has read by the time it decides.
LEMMA NextRead == TypeOK /\ ReadFirst /\ [Next]_vars => ReadFirst'
<1> SUFFICES ASSUME TypeOK, ReadFirst, [Next]_vars PROVE ReadFirst' OBVIOUS
<1>1. CASE UNCHANGED viewers
  BY <1>1 DEF ReadFirst, viewers
<1>2. ASSUME NEW v \in Viewer, NEW p \in Prompt, View(v, p) PROVE ReadFirst'
  BY <1>2 DEF TypeOK, ReadFirst, View, Look
<1>3. ASSUME NEW v \in Viewer, PollReads(v) PROVE ReadFirst'
  <2>1. \A u \in Viewer : u # v => seen'[u] = seen[u]
    BY <1>3 DEF TypeOK, PollReads, Sees
  <2> QED BY <1>3, <2>1 DEF TypeOK, ReadFirst, PollReads
<1>4. ASSUME NEW v \in Viewer, PollWrites(v) \/ CancelTells(v) \/ Marks(v) \/ ViewEnds(v)
      PROVE  ReadFirst'
  <2>1. ViewDone(v) BY <1>4 DEF PollWrites, CancelTells, Marks, ViewEnds
  <2> QED BY <2>1 DEF TypeOK, ReadFirst, ViewDone, Look
<1>5. ASSUME NEW v \in Viewer, CancelLooks(v) \/ Delete(v) \/ Verify(v) \/ Interrupt(v)
      PROVE  ReadFirst'
  BY <1>5 DEF TypeOK, ReadFirst, CancelLooks, Delete, Verify, Interrupt, Look
<1>6. ASSUME NEW v \in Viewer, CheckQueue(v) PROVE ReadFirst'
  BY <1>6 DEF TypeOK, ReadFirst, CheckQueue, Look, Sees, Queued
<1>7. ASSUME NEW v \in Viewer, CheckHistory(v) PROVE ReadFirst'
  BY <1>7 DEF TypeOK, ReadFirst, CheckHistory, Look, Sees, Recorded
<1> QED
  BY <1>1, <1>2, <1>3, <1>4, <1>5, <1>6, <1>7
  DEF Next, vars, Arrive, LookUp, Reserve, GuardRefuses, Post, NodeErrors, PostFails,
      Complete, Crash, Lost, Accept, Foreign, Start, Finish, Moves

\* What a viewer writes is a state of the store.
LEMMA StoredStates ==
  ASSUME TypeOK, ReadFirst, NEW v \in Viewer, PollWrites(v) \/ CancelTells(v) \/ Marks(v)
  PROVE  \E st \in States : Update(target[v], st)
<1>1. CASE PollWrites(v)
  <2>1. Summary(seen[v]) \in States BY <1>1 DEF TypeOK, PollWrites, Summary, States
  <2> QED BY <1>1, <2>1 DEF PollWrites
<1>2. CASE CancelTells(v)
  <2>1. Summary(seen[v]) \in States
    BY <1>2 DEF CancelTells, TypeOK, ReadFirst, Summary, States
  <2> QED BY <1>2, <2>1 DEF CancelTells, States
<1>3. CASE Marks(v)
  BY <1>3 DEF Marks, States
<1> QED BY <1>1, <1>2, <1>3

\* Every step keeps the types.
LEMMA NextType == TypeOK /\ ReadFirst /\ [Next]_vars => TypeOK'
<1> SUFFICES ASSUME TypeOK, ReadFirst, [Next]_vars PROVE TypeOK' OBVIOUS
<1> USE RunnerConstants
<1>1. ASSUME NEW c \in Call, Arrive(c) PROVE TypeOK'
  BY <1>1 DEF TypeOK, table, engine, viewers, Arrive, Goto
<1>2. ASSUME NEW c \in Call, LookUp(c) PROVE TypeOK'
  <2> DEFINE b == req[c].backend
             k == req[c].key
  <2>1. b \in Backend /\ k \in Key BY CallTypes DEF Request
  <2>2. CASE /\ row[k] # None
             /\ Known(c, row[k]) /\ Goto(c, "idle") /\ UNCHANGED lock
             /\ IF Replays(c, row[k]) THEN Caches(c, row[k].prompt) ELSE UNCHANGED cache
    <3>1. row[k] \in Row BY <2>1, <2>2 DEF TypeOK
    <3>2. /\ given' \subseteq [key : Key, digest : Digest, prompt : Prompt]
          /\ Replays(c, row[k]) => row[k].prompt \in Prompt
      BY <2>2, <3>1, ReplayTypes
    <3>3. cache' \in [Backend -> [Key -> Response \cup {None}]]
      BY <2>2, <3>2, CallTypes DEF TypeOK
    <3> QED BY <1>2, <2>2, <3>2, <3>3 DEF TypeOK, LookUp, engine, viewers, Goto
  <2>3. CASE /\ row[k] = None /\ cache[b][k] # None
             /\ Known(c, cache[b][k]) /\ Goto(c, "idle") /\ UNCHANGED <<lock, cache>>
    <3>1. cache[b][k] \in Response BY <2>1, <2>3 DEF TypeOK
    <3>2. given' \subseteq [key : Key, digest : Digest, prompt : Prompt]
      BY <2>3, <3>1, ReplayTypes
    <3> QED BY <1>2, <2>3, <3>2 DEF TypeOK, LookUp, engine, viewers, Goto
  <2>4. CASE /\ row[k] = None /\ cache[b][k] = None
             /\ lock' = [lock EXCEPT ![b] = c] /\ Goto(c, "reserve")
             /\ UNCHANGED <<given, cache>>
    BY <1>2, <2>4 DEF TypeOK, LookUp, engine, viewers, Goto
  <2> QED BY <1>2, <2>2, <2>3, <2>4 DEF LookUp
<1>3. ASSUME NEW c \in Call, Reserve(c) PROVE TypeOK'
  <2> DEFINE k == req[c].key
  <2>1. req[c] \in Request /\ k \in Key BY CallTypes DEF Request
  <2>2. CASE row[k] # None /\ Known(c, row[k]) /\ Leave(c) /\ UNCHANGED row
    <3>1. row[k] \in Row BY <2>1, <2>2 DEF TypeOK
    <3>2. given' \subseteq [key : Key, digest : Digest, prompt : Prompt]
      BY <2>2, <3>1, ReplayTypes
    <3> QED BY <1>3, <2>2, <3>2, CallTypes DEF TypeOK, Reserve, engine, viewers
  <2>3. CASE /\ row' = [row EXCEPT ![k] = NewRow(c)]
             /\ Goto(c, "guard") /\ UNCHANGED <<given, lock>>
    <3>1. NewRow(c) \in Row BY <2>1 DEF NewRow, Row, Request, States
    <3> QED BY <1>3, <2>3, <3>1 DEF TypeOK, Reserve, engine, viewers, Goto
  <2> QED BY <1>3, <2>2, <2>3 DEF Reserve
<1>4. ASSUME NEW c \in Call, GuardRefuses(c) PROVE TypeOK'
  BY <1>4, CallTypes DEF TypeOK, GuardRefuses, engine, viewers
<1>5. ASSUME NEW c \in Call, Post(c) PROVE TypeOK'
  <2>1. Body(c) \in Posted BY CallTypes DEF Body, Posted, Request
  <2> QED BY <1>5, <2>1 DEF TypeOK, Post, table, viewers, Goto
<1>6. ASSUME NEW c \in Call, NodeErrors(c) PROVE TypeOK'
  BY <1>6, CallTypes DEF TypeOK, NodeErrors, viewers
<1>7. ASSUME NEW c \in Call, PostFails(c) PROVE TypeOK'
  BY <1>7, CallTypes DEF TypeOK, PostFails, viewers
<1>8. ASSUME NEW c \in Call, Complete(c) PROVE TypeOK'
  <2>1. reply[c] \in Prompt /\ req[c] \in Request BY <1>8, CallTypes DEF TypeOK, Complete
  <2>2. row' \in [Key -> Row \cup {None}]
    BY <1>8, <2>1 DEF TypeOK, Complete, Row, Request, States
  <2> QED BY <1>8, <2>1, <2>2, CallTypes DEF TypeOK, Complete, engine, viewers
<1>9. ASSUME NEW b \in Backend, Crash(b) PROVE TypeOK'
  <2>1. \A f \in flight : f \in Posted /\ [f EXCEPT !.call = None] \in Posted
    <3>1. \A f \in Posted : [f EXCEPT !.call = None] \in Posted BY DEF Posted
    <3> QED BY <3>1 DEF TypeOK
  <2>2. flight' \subseteq Posted BY <1>9, <2>1 DEF Crash
  <2> QED BY <1>9, <2>2 DEF TypeOK, Crash, viewers
<1>10. ASSUME NEW f \in flight, NEW p \in Prompt, Accept(f, p) PROVE TypeOK'
  <2>1. f \in Posted BY DEF TypeOK
  <2>2. [key |-> f.key, digest |-> f.digest] \in Origin BY <2>1 DEF Posted, Origin
  <2> QED BY <1>10, <2>1, <2>2 DEF TypeOK, Accept, table, viewers, Places, Posted
<1>11. ASSUME NEW f \in flight, Lost(f) PROVE TypeOK'
  BY <1>11 DEF TypeOK, Lost, table, calls, viewers
<1>12. ASSUME NEW p \in Prompt, Foreign(p) \/ Start(p) \/ Finish(p) PROVE TypeOK'
  BY <1>12 DEF TypeOK, Foreign, Start, Finish, Moves, table, calls, viewers, Places
<1>13. ASSUME NEW v \in Viewer, NEW p \in Prompt, View(v, p) PROVE TypeOK'
  BY <1>13 DEF TypeOK, View, FrameView, calls, Look
<1>14. ASSUME NEW v \in Viewer,
              \/ PollReads(v) \/ CancelLooks(v) \/ Delete(v) \/ CheckQueue(v)
              \/ CheckHistory(v) \/ Verify(v) \/ Interrupt(v) \/ ViewEnds(v)
       PROVE TypeOK'
  <2>1. CASE PollReads(v)
    <3>1. /\ Queued(target[v]) \in {"absent", "pending", "running"}
          /\ Recorded(target[v]) \in {"absent", "completed", "failed"}
      BY DEF Queued, Recorded
    <3>2. seen' \in [Viewer -> [queue : {"unread", "absent", "pending", "running"},
                                history : {"unread", "absent", "completed", "failed"}]]
      BY <2>1, <3>1 DEF TypeOK, PollReads, Sees
    <3> QED BY <2>1, <3>2 DEF TypeOK, PollReads, FrameView, calls
  <2>2. CASE CancelLooks(v)
    BY <2>2 DEF TypeOK, CancelLooks, Look, FrameView, calls
  <2>3. CASE Delete(v)
    BY <2>3 DEF TypeOK, Delete, Look, FrameView, calls, Places
  <2>4. CASE CheckQueue(v)
    BY <2>4 DEF TypeOK, CheckQueue, Look, Sees, Queued, FrameView, calls
  <2>5. CASE CheckHistory(v)
    BY <2>5 DEF TypeOK, CheckHistory, Look, Sees, Recorded, FrameView, calls
  <2>6. CASE Verify(v)
    BY <2>6 DEF TypeOK, Verify, Look, FrameView, calls
  <2>7. CASE Interrupt(v)
    BY <2>7 DEF TypeOK, Interrupt, Look, FrameView, calls, Places
  <2>8. CASE ViewEnds(v)
    BY <2>8 DEF TypeOK, ViewEnds, ViewDone, Unread, Look, FrameView, calls
  <2> QED BY <1>14, <2>1, <2>2, <2>3, <2>4, <2>5, <2>6, <2>7, <2>8
<1>15. ASSUME NEW v \in Viewer, PollWrites(v) \/ CancelTells(v) \/ Marks(v) PROVE TypeOK'
  <2>1. PICK st \in States : Update(target[v], st) BY <1>15, StoredStates
  <2>2. row' \in [Key -> Row \cup {None}]
    <3>1. \A r \in Row : [r EXCEPT !.state = st] \in Row BY DEF Row
    <3> QED BY <2>1, <3>1 DEF TypeOK, Update
  <2>3. /\ ViewDone(v) /\ FrameView /\ UNCHANGED <<place, target>>
        /\ told' \subseteq Prompt
    BY <1>15 DEF PollWrites, CancelTells, Marks, TypeOK
  <2> QED BY <2>2, <2>3 DEF TypeOK, ViewDone, Look, Unread, FrameView, calls
<1>16. CASE UNCHANGED vars
  BY <1>16 DEF TypeOK, vars, table, calls, engine, viewers
<1> QED
  BY <1>1, <1>2, <1>3, <1>4, <1>5, <1>6, <1>7, <1>8, <1>9, <1>10, <1>11, <1>12,
     <1>13, <1>14, <1>15, <1>16 DEF Next

\* Whatever two requests, viewers and crashes do, every variable keeps its type.
THEOREM RunnerTypeCorrect == Spec => []TypeOK
<1>1. Init => TypeOK /\ ReadFirst
  BY InitType DEF Init, ReadFirst
<1>2. TypeOK /\ ReadFirst /\ [Next]_vars => (TypeOK /\ ReadFirst)'
  BY NextType, NextRead
<1> QED BY <1>1, <1>2, PTL DEF Spec
-----------------------------------------------------------------------------
(***************************************************************************)
(* At most one prompt for a key.                                           *)
(***************************************************************************)
LEMMA InitOnce == Init => OnceInv
  BY DEF Init, OnceInv, Reserved, NoRowNoPrompt, GuardUnposted, FlightOne, FlightOrPrompt,
         AtMostOnePrompt, Accepted, Waiting, ReplyToPost, Unposted

\* A step that posts nothing and accepts nothing, and that leaves each row alone or
\* changes no more than the state of a row with a prompt, keeps the invariant.
SameRow(k) == \/ row'[k] = row[k]
              \/ /\ row[k] # None /\ row'[k] # None /\ row[k].prompt # None
                 /\ row'[k].prompt = row[k].prompt /\ row'[k].digest = row[k].digest

\* Steps of viewers and of the engine's queue keep what is known about submissions.
LEMMA OtherSteps ==
  ASSUME TypeOK, OnceInv, UNCHANGED <<pc, req, reply, flight, origin>>,
         \A k \in Key : SameRow(k)
  PROVE  OnceInv'
<1>1. Reserved'
  <2> SUFFICES ASSUME NEW c \in Call, pc[c] \in {"guard", "post"}
               PROVE  row'[req[c].key] = row[req[c].key]
    BY DEF OnceInv, Reserved
  <2>1. req[c].key \in Key BY DEF TypeOK, Request
  <2> QED BY <2>1 DEF OnceInv, Reserved, SameRow
<1>2. NoRowNoPrompt'
  BY DEF OnceInv, NoRowNoPrompt, Unposted, SameRow
<1> QED
  BY <1>1, <1>2 DEF OnceInv, GuardUnposted, Unposted, FlightOne, FlightOrPrompt,
                    AtMostOnePrompt, Accepted, Waiting, ReplyToPost, Body

\* update_prompt_state is such a step for the rows.
LEMMA UpdateSame ==
  ASSUME TypeOK, NEW p \in Prompt, NEW st \in States, Update(p, st), NEW k \in Key
  PROVE  SameRow(k)
<1>1. CASE row[k] # None /\ row[k].prompt = p
  <2>1. row[k] \in Row BY <1>1 DEF TypeOK
  <2>2. row'[k] = [row[k] EXCEPT !.state = st] BY <1>1 DEF Update
  <2>3. /\ row'[k].prompt = row[k].prompt /\ row'[k].digest = row[k].digest
    BY <2>1, <2>2 DEF Row
  <2>4. row'[k] # None BY <2>1, <2>2, RunnerConstants DEF Row
  <2> QED BY <1>1, <2>3, <2>4, RunnerConstants DEF SameRow
<1>2. CASE ~(row[k] # None /\ row[k].prompt = p)
  BY <1>2 DEF Update, SameRow
<1> QED BY <1>1, <1>2

\* A request that neither holds a reservation nor gains one moves on.
LEMMA PassiveCall ==
  ASSUME TypeOK, OnceInv, NEW c \in Call,
         pc[c] \notin {"guard", "post"}, pc'[c] \notin {"guard", "post"},
         \A d \in Call : d # c => pc'[d] = pc[d] /\ req'[d] = req[d],
         UNCHANGED <<row, reply, flight, origin>>
  PROVE  OnceInv'
<1>1. Reserved' /\ GuardUnposted' /\ NoRowNoPrompt'
  BY DEF OnceInv, Reserved, GuardUnposted, NoRowNoPrompt, Unposted
<1>2. Waiting'
  <2> SUFFICES ASSUME NEW f \in flight, f.call # None
               PROVE  pc'[f.call] = "post" /\ f = Body(f.call)' /\ reply[f.call] = None
    BY DEF Waiting
  <2>1. f.call \in Call BY DEF TypeOK, Posted
  <2>2. pc[f.call] = "post" /\ f = Body(f.call) /\ reply[f.call] = None
    BY DEF OnceInv, Waiting
  <2> QED BY <2>1, <2>2 DEF Body
<1> QED
  BY <1>1, <1>2 DEF OnceInv, FlightOne, FlightOrPrompt, AtMostOnePrompt, Accepted, ReplyToPost

\* The holder of a reservation is the only request at work on its key.
LEMMA Alone ==
  ASSUME OnceInv, NEW c \in Call, NEW d \in Call, pc[c] \in {"guard", "post"},
         pc[d] \in {"guard", "post"}, req[c].key = req[d].key
  PROVE  c = d
  BY DEF OnceInv, Reserved

\* Releasing one's own unsubmitted reservation deletes its row and no other.
LEMMA Released ==
  ASSUME TypeOK, OnceInv, NEW c \in Call, pc[c] \in {"guard", "post"}, Release(c)
  PROVE  /\ row'[req[c].key] = None
         /\ \A k \in Key : k # req[c].key => row'[k] = row[k]
<1>1. req[c].key \in Key BY DEF TypeOK, Request
<1> QED BY <1>1 DEF TypeOK, OnceInv, Reserved, Release

\* Every step keeps at most one POST or prompt for each reserved key.
LEMMA NextOnce == TypeOK /\ ReadFirst /\ OnceInv /\ [Next]_vars => OnceInv'
<1> SUFFICES ASSUME TypeOK, ReadFirst, OnceInv, [Next]_vars PROVE OnceInv' OBVIOUS
<1> USE RunnerConstants
<1>0. \A c \in Call : req[c] \in Request /\ req[c].key \in Key
  BY DEF TypeOK, Request
<1>1. ASSUME NEW c \in Call, Arrive(c) \/ LookUp(c) PROVE OnceInv'
  BY <1>1, PassiveCall DEF TypeOK, Arrive, LookUp, Goto, table, engine
<1>2. ASSUME NEW c \in Call, Reserve(c) PROVE OnceInv'
  <2> DEFINE k == req[c].key
  <2>1. CASE row[k] # None /\ Known(c, row[k]) /\ Leave(c) /\ UNCHANGED row
    BY <1>2, <2>1, PassiveCall DEF TypeOK, Reserve, Leave, Goto, engine
  <2>2. CASE /\ row[k] = None /\ row' = [row EXCEPT ![k] = NewRow(c)]
             /\ Goto(c, "guard") /\ UNCHANGED <<given, lock>>
    <3>1. /\ pc[c] = "reserve" /\ pc'[c] = "guard"
          /\ \A d \in Call : d # c => pc'[d] = pc[d]
          /\ UNCHANGED <<req, reply, flight, origin>>
      BY <1>2, <2>2 DEF TypeOK, Reserve, Goto, engine
    <3>2. /\ row'[k] = NewRow(c) /\ NewRow(c) # None
          /\ \A j \in Key : j # k => row'[j] = row[j]
      BY <1>0, <2>2 DEF TypeOK, NewRow, Row, States, Request
    <3>3. Unposted(k) BY <1>0, <2>2 DEF OnceInv, NoRowNoPrompt
    <3>4. Reserved'
      BY <1>0, <2>2, <3>1, <3>2 DEF OnceInv, Reserved, NewRow
    <3>5. NoRowNoPrompt' BY <3>1, <3>2 DEF OnceInv, NoRowNoPrompt, Unposted
    <3>6. GuardUnposted' BY <3>1, <3>3 DEF OnceInv, GuardUnposted, Unposted
    <3>7. Waiting' BY <3>1 DEF OnceInv, Waiting, Body, TypeOK, Posted
    <3> QED BY <3>1, <3>4, <3>5, <3>6, <3>7
            DEF OnceInv, FlightOne, FlightOrPrompt, AtMostOnePrompt, Accepted, ReplyToPost
  <2> QED BY <1>2, <2>1, <2>2 DEF Reserve
<1>3. ASSUME NEW c \in Call, GuardRefuses(c) PROVE OnceInv'
  <2> DEFINE k == req[c].key
  <2>1. /\ pc[c] = "guard" /\ pc'[c] = "idle"
        /\ \A d \in Call : d # c => pc'[d] = pc[d]
        /\ UNCHANGED <<req, reply, flight, origin>>
    BY <1>3 DEF TypeOK, GuardRefuses, Leave, Goto, engine
  <2>2. row'[k] = None /\ \A j \in Key : j # k => row'[j] = row[j]
    BY <1>3, <2>1, Released DEF GuardRefuses
  <2>3. Unposted(k) BY <2>1 DEF OnceInv, GuardUnposted
  <2>4. Reserved' BY <1>0, <2>1, <2>2, Alone DEF OnceInv, Reserved
  <2>5. NoRowNoPrompt' BY <2>1, <2>2, <2>3 DEF OnceInv, NoRowNoPrompt, Unposted
  <2>6. GuardUnposted' BY <2>1 DEF OnceInv, GuardUnposted, Unposted
  <2>7. Waiting' BY <2>1 DEF OnceInv, Waiting, Body, TypeOK, Posted
  <2> QED BY <2>1, <2>4, <2>5, <2>6, <2>7
          DEF OnceInv, FlightOne, FlightOrPrompt, AtMostOnePrompt, Accepted, ReplyToPost
<1>4. ASSUME NEW c \in Call, Post(c) PROVE OnceInv'
  <2> DEFINE k == req[c].key
  <2>1. /\ pc[c] = "guard" /\ pc'[c] = "post"
        /\ \A d \in Call : d # c => pc'[d] = pc[d]
        /\ flight' = flight \cup {Body(c)}
        /\ UNCHANGED <<row, req, reply, origin>>
    BY <1>4 DEF TypeOK, Post, Goto, table
  <2>2. Body(c).key = k /\ Body(c).call = c BY DEF Body
  <2>3. Unposted(k) BY <2>1 DEF OnceInv, GuardUnposted
  <2>4. reply[c] = None
    BY <2>1 DEF OnceInv, ReplyToPost
  <2>5. Reserved' BY <2>1 DEF OnceInv, Reserved
  <2>6. NoRowNoPrompt' /\ GuardUnposted'
    BY <1>0, <2>1, <2>2, Alone DEF OnceInv, NoRowNoPrompt, GuardUnposted, Unposted, Reserved
  <2>7. FlightOne' /\ FlightOrPrompt'
    BY <2>1, <2>2, <2>3 DEF OnceInv, FlightOne, FlightOrPrompt, Unposted
  <2>8. Waiting' BY <2>1, <2>2, <2>4 DEF OnceInv, Waiting, Body, TypeOK, Posted
  <2> QED BY <2>1, <2>5, <2>6, <2>7, <2>8 DEF OnceInv, AtMostOnePrompt, Accepted, ReplyToPost
<1>5. ASSUME NEW c \in Call, NodeErrors(c) PROVE OnceInv'
  <2> DEFINE k == req[c].key
  <2>1. /\ pc[c] = "post" /\ pc'[c] = "idle" /\ Body(c) \in flight
        /\ \A d \in Call : d # c => pc'[d] = pc[d]
        /\ flight' = flight \ {Body(c)}
        /\ UNCHANGED <<req, reply, origin>>
    BY <1>5 DEF TypeOK, NodeErrors, Leave, Goto
  <2>2. row'[k] = None /\ \A j \in Key : j # k => row'[j] = row[j]
    BY <1>5, <2>1, Released DEF NodeErrors
  <2>3. Body(c).key = k /\ Body(c).call = c BY DEF Body
  <2>4. Unposted(k)'
    BY <2>1, <2>3 DEF OnceInv, FlightOne, FlightOrPrompt, Unposted
  <2>5. Reserved' BY <1>0, <2>1, <2>2, Alone DEF OnceInv, Reserved
  <2>6. NoRowNoPrompt' /\ GuardUnposted'
    BY <2>1, <2>2, <2>4 DEF OnceInv, NoRowNoPrompt, GuardUnposted, Unposted
  <2>7. FlightOne' /\ FlightOrPrompt' BY <2>1 DEF OnceInv, FlightOne, FlightOrPrompt
  <2>8. Waiting' BY <2>1, <2>3 DEF OnceInv, Waiting, Body, TypeOK, Posted
  <2>9. reply[c] = None BY <2>1, <2>3 DEF OnceInv, Waiting
  <2> QED BY <2>1, <2>5, <2>6, <2>7, <2>8, <2>9 DEF OnceInv, AtMostOnePrompt, Accepted, ReplyToPost
<1>6. ASSUME NEW c \in Call, PostFails(c) PROVE OnceInv'
  <2>1. /\ pc[c] = "post" /\ pc'[c] = "idle" /\ reply'[c] = None
        /\ \A d \in Call : d # c => pc'[d] = pc[d] /\ reply'[d] = reply[d]
        /\ UNCHANGED <<row, req, origin>>
    BY <1>6 DEF TypeOK, PostFails, Leave, Goto
  <2>2. \A g \in flight' : \/ g \in flight /\ g.call # c
                           \/ \E f \in flight : f.call = c /\ g = [f EXCEPT !.call = None]
    BY <1>6 DEF PostFails, Orphaned, OnceInv, Waiting, TypeOK, Posted
  <2>3. \A g \in flight' : \E f \in flight : g.key = f.key
                                        /\ (g = f \/ g = [f EXCEPT !.call = None])
    BY <2>2 DEF TypeOK, Posted
  <2>4. Reserved' /\ NoRowNoPrompt' /\ GuardUnposted'
    BY <2>1, <2>3 DEF OnceInv, Reserved, NoRowNoPrompt, GuardUnposted, Unposted
  <2>5. FlightOne' BY <2>2 DEF OnceInv, FlightOne, TypeOK, Posted
  <2>6. FlightOrPrompt' BY <2>1, <2>3 DEF OnceInv, FlightOrPrompt
  <2>7. Waiting' BY <2>1, <2>2 DEF OnceInv, Waiting, Body, TypeOK, Posted
  <2> QED BY <2>1, <2>4, <2>5, <2>6, <2>7 DEF OnceInv, AtMostOnePrompt, Accepted, ReplyToPost
<1>7. ASSUME NEW c \in Call, Complete(c) PROVE OnceInv'
  <2> DEFINE k == req[c].key
  <2>1. /\ pc[c] = "post" /\ pc'[c] = "idle" /\ reply[c] # None /\ reply'[c] = None
        /\ \A d \in Call : d # c => pc'[d] = pc[d] /\ reply'[d] = reply[d]
        /\ UNCHANGED <<req, flight, origin>>
    BY <1>7 DEF TypeOK, Complete, Leave, Goto, engine
  <2>2. row[k] # None BY <2>1 DEF OnceInv, Reserved
  <2>3. row'[k] # None /\ \A j \in Key : j # k => row'[j] = row[j]
    <3>1. row' \in [Key -> Row \cup {None}]
          /\ row'[k] = [digest |-> req[c].digest, client |-> c, prompt |-> reply[c],
                        state |-> "pending"]
      BY <1>0, <1>7, <2>1, <2>2 DEF TypeOK, Complete, Row, Request, States
    <3>2. row'[k] \in Row BY <1>0, <2>1, <3>1 DEF TypeOK, Row, Request, States
    <3> QED BY <1>7, <3>2 DEF TypeOK, Complete
  <2>4. Reserved' BY <1>0, <2>1, <2>3, Alone DEF OnceInv, Reserved
  <2>5. NoRowNoPrompt' /\ GuardUnposted'
    BY <2>1, <2>3 DEF OnceInv, NoRowNoPrompt, GuardUnposted, Unposted
  <2>6. Waiting' BY <2>1 DEF OnceInv, Waiting, Body, TypeOK, Posted
  <2> QED BY <2>1, <2>4, <2>5, <2>6
          DEF OnceInv, FlightOne, FlightOrPrompt, AtMostOnePrompt, Accepted, ReplyToPost
<1>8. ASSUME NEW b \in Backend, Crash(b) PROVE OnceInv'
  <2> DEFINE dead == {c \in Call : pc[c] # "idle" /\ req[c].backend = b}
  <2>1. /\ \A c \in dead : pc'[c] = "idle" /\ reply'[c] = None
        /\ \A c \in Call : c \notin dead => pc'[c] = pc[c] /\ reply'[c] = reply[c]
        /\ UNCHANGED <<row, req, origin>>
    BY <1>8 DEF Crash
  <2>2. \A g \in flight' : \/ g \in flight /\ g.call \notin dead
                           \/ \E f \in flight : f.call \in dead /\ g = [f EXCEPT !.call = None]
    BY <1>8 DEF Crash
  <2>3. \A g \in flight' : \E f \in flight : g.key = f.key
                                        /\ (g = f \/ g = [f EXCEPT !.call = None])
    BY <2>2 DEF TypeOK, Posted
  <2>4. Reserved' /\ NoRowNoPrompt' /\ GuardUnposted'
    BY <2>1, <2>3 DEF OnceInv, Reserved, NoRowNoPrompt, GuardUnposted, Unposted
  <2>5. FlightOne'
    <3> SUFFICES ASSUME NEW g \in flight', NEW h \in flight', g.key = h.key PROVE g = h
      BY DEF FlightOne
    <3>0. \A f \in flight : [f EXCEPT !.call = None].key = f.key BY DEF TypeOK, Posted
    <3>1. PICK f \in flight : /\ f.key = g.key
                             /\ g = IF f.call \in dead THEN [f EXCEPT !.call = None] ELSE f
      BY <1>8, <3>0 DEF Crash
    <3>2. PICK e \in flight : /\ e.key = h.key
                             /\ h = IF e.call \in dead THEN [e EXCEPT !.call = None] ELSE e
      BY <1>8, <3>0 DEF Crash
    <3> QED BY <3>1, <3>2 DEF OnceInv, FlightOne
  <2>6. FlightOrPrompt' BY <2>1, <2>3 DEF OnceInv, FlightOrPrompt
  <2>7. Waiting' BY <2>1, <2>2 DEF OnceInv, Waiting, Body, TypeOK, Posted
  <2> QED BY <2>1, <2>4, <2>5, <2>6, <2>7 DEF OnceInv, AtMostOnePrompt, Accepted, ReplyToPost
<1>9. ASSUME NEW f \in flight, NEW p \in Prompt, Accept(f, p) PROVE OnceInv'
  <2>1. /\ flight' = flight \ {f} /\ UNCHANGED <<row, pc, req>>
        /\ origin'[p] = [key |-> f.key, digest |-> f.digest]
        /\ \A q \in Prompt : q # p => origin'[q] = origin[q]
        /\ \A c \in Call : c # f.call => reply'[c] = reply[c]
    BY <1>9 DEF TypeOK, Accept, table
  <2>2. Reserved' BY <2>1 DEF OnceInv, Reserved
  <2>3. ASSUME NEW k \in Key, Unposted(k) PROVE Unposted(k)'
    BY <2>1, <2>3 DEF Unposted
  <2>4. NoRowNoPrompt' /\ GuardUnposted'
    BY <1>0, <2>1, <2>3 DEF OnceInv, NoRowNoPrompt, GuardUnposted
  <2>5. FlightOne' /\ FlightOrPrompt'
    BY <2>1 DEF OnceInv, FlightOne, FlightOrPrompt
  <2>6. AtMostOnePrompt'
    BY <2>1 DEF OnceInv, AtMostOnePrompt, Accepted, FlightOrPrompt
  <2>7. Waiting' BY <2>1 DEF OnceInv, Waiting, Body, TypeOK, Posted
  <2>8. ReplyToPost'
    BY <1>9, <2>1 DEF OnceInv, ReplyToPost, Accept, Waiting, TypeOK, Posted
  <2> QED BY <2>2, <2>4, <2>5, <2>6, <2>7, <2>8 DEF OnceInv
<1>10. ASSUME NEW f \in flight, Lost(f) PROVE OnceInv'
  <2>1. /\ flight' = flight \ {f} /\ UNCHANGED <<row, pc, req, reply, origin>>
    BY <1>10 DEF Lost, table, calls
  <2> QED BY <2>1 DEF OnceInv, Reserved, NoRowNoPrompt, GuardUnposted, Unposted, FlightOne,
                      FlightOrPrompt, AtMostOnePrompt, Accepted, Waiting, ReplyToPost, Body
<1>11. ASSUME UNCHANGED <<pc, req, reply, flight, origin>>, \A k \in Key : SameRow(k)
       PROVE  OnceInv'
  BY <1>11, OtherSteps
<1>12. ASSUME NEW p \in Prompt, Foreign(p) \/ Start(p) \/ Finish(p) PROVE OnceInv'
  BY <1>11, <1>12 DEF Foreign, Start, Finish, Moves, table, calls, SameRow
<1>13. ASSUME NEW v \in Viewer,
              \/ \E p \in Prompt : View(v, p)
              \/ PollReads(v) \/ CancelLooks(v) \/ Delete(v) \/ CheckQueue(v)
              \/ CheckHistory(v) \/ Verify(v) \/ Interrupt(v) \/ ViewEnds(v)
       PROVE OnceInv'
  <2>1. UNCHANGED <<row, pc, req, reply, flight, origin>>
    BY <1>13 DEF View, PollReads, CancelLooks, Delete, CheckQueue, CheckHistory, Verify,
                 Interrupt, ViewEnds, FrameView, calls
  <2> QED BY <1>11, <2>1 DEF SameRow
<1>14. ASSUME NEW v \in Viewer, PollWrites(v) \/ CancelTells(v) \/ Marks(v) PROVE OnceInv'
  <2>1. /\ UNCHANGED <<pc, req, reply, flight, origin>>
        /\ target[v] \in Prompt
    BY <1>14 DEF PollWrites, CancelTells, Marks, FrameView, calls, TypeOK
  <2>2. PICK st \in States : Update(target[v], st) BY <1>14, StoredStates
  <2> QED BY <1>11, <2>1, <2>2, UpdateSame
<1>15. CASE UNCHANGED vars
  BY <1>11, <1>15 DEF vars, table, calls, engine, SameRow
<1> QED
  BY <1>1, <1>2, <1>3, <1>4, <1>5, <1>6, <1>7, <1>8, <1>9, <1>10, <1>12, <1>13, <1>14,
     <1>15 DEF Next

\* For an idempotency key the engine accepts one prompt at most, however many backends,
\* requests, timeouts and crashes there are.
THEOREM OnePromptPerKey == Spec => []AtMostOnePrompt
<1>1. Init => TypeOK /\ ReadFirst /\ OnceInv
  BY InitType, InitOnce DEF Init, ReadFirst
<1>2. TypeOK /\ ReadFirst /\ OnceInv /\ [Next]_vars => (TypeOK /\ ReadFirst /\ OnceInv)'
  BY NextType, NextRead, NextOnce
<1>3. OnceInv => AtMostOnePrompt BY DEF OnceInv
<1> QED BY <1>1, <1>2, <1>3, PTL DEF Spec
-----------------------------------------------------------------------------
(***************************************************************************)
(* What replies, rows and caches say.                                      *)
(***************************************************************************)
LEMMA InitTrue == Init => TrueInv
  BY DEF Init, TrueInv, Replied, RowTrue, Unborn, CacheAgrees

\* A step that leaves replies, caches and accepted prompts alone, and of the rows
\* changes no prompt, keeps them true.
LEMMA TrueOther ==
  ASSUME TypeOK, TrueInv, UNCHANGED <<req, cache, origin>>,
         \A c \in Call : reply'[c] = reply[c] \/ reply'[c] = None,
         \A p \in Prompt : place'[p] = "unborn" => place[p] = "unborn",
         \A k \in Key : SameRow(k)
  PROVE  TrueInv'
<1>1. Replied' BY DEF TrueInv, Replied
<1>2. RowTrue' BY DEF TrueInv, RowTrue, SameRow
<1>3. Unborn' BY DEF TrueInv, Unborn
<1>4. CacheAgrees'
  BY RunnerConstants DEF TrueInv, CacheAgrees, SameRow, TypeOK, Response
<1> QED BY <1>1, <1>2, <1>3, <1>4 DEF TrueInv

\* A success response is for the accepted prompt.
Right(c, p) == origin[p] = [key |-> req[c].key, digest |-> req[c].digest]

\* A row that is replayed names the prompt accepted for the request's workflow.
LEMMA ReplayRight ==
  ASSUME TypeOK, TrueInv, NEW c \in Call, NEW k, k = req[c].key,
         row[k] # None, Replays(c, row[k])
  PROVE  Right(c, row[k].prompt)
<1>1. k \in Key BY DEF TypeOK, Request
<1> QED BY <1>1 DEF TrueInv, RowTrue, Replays, Right

\* What the caches hold after one entry is written.
LEMMA Cached ==
  ASSUME TypeOK, NEW c \in Call, NEW p \in Prompt, Caches(c, p), NEW b \in Backend, NEW k \in Key
  PROVE  cache'[b][k] = IF b = req[c].backend /\ k = req[c].key
                        THEN [digest |-> req[c].digest, prompt |-> p] ELSE cache[b][k]
<1>1. req[c] \in Request BY DEF TypeOK
<1>2. cache' = [cache EXCEPT ![req[c].backend] =
                  [cache[req[c].backend] EXCEPT ![req[c].key] =
                     [digest |-> req[c].digest, prompt |-> p]]]
  BY DEF Caches
<1> QED BY <1>1, <1>2 DEF TypeOK, Request

\* Every step keeps rows, replies and caches true to what the engine accepted.
LEMMA NextTrue == TypeOK /\ ReadFirst /\ OnceInv /\ TrueInv /\ [Next]_vars => TrueInv'
<1> SUFFICES ASSUME TypeOK, ReadFirst, OnceInv, TrueInv, [Next]_vars PROVE TrueInv' OBVIOUS
<1> USE RunnerConstants
<1>0. \A c \in Call : req[c] \in Request /\ req[c].key \in Key /\ req[c].backend \in Backend
  BY DEF TypeOK, Request
<1>1. ASSUME NEW c \in Call, Arrive(c) PROVE TrueInv'
  <2>1. reply[c] = None BY <1>1 DEF Arrive, OnceInv, ReplyToPost
  <2>2. \A d \in Call : d # c => req'[d] = req[d] BY <1>1 DEF Arrive, TypeOK
  <2>3. UNCHANGED <<row, cache, reply, origin, place>> BY <1>1 DEF Arrive, table, engine
  <2> QED BY <2>1, <2>2, <2>3 DEF TrueInv, Replied, RowTrue, Unborn, CacheAgrees
<1>2. ASSUME NEW c \in Call, LookUp(c) PROVE TrueInv'
  <2> DEFINE k == req[c].key
  <2>1. UNCHANGED <<row, req, reply, origin, place>> BY <1>2 DEF LookUp, engine
  <2>2. CASE UNCHANGED cache BY <2>1, <2>2, TrueOther DEF SameRow
  <2>3. CASE row[k] # None /\ Replays(c, row[k]) /\ Caches(c, row[k].prompt)
    <3>1. row[k].prompt \in Prompt BY <1>0, <2>3 DEF Replays, TypeOK, Row
    <3>2. \A b \in Backend, j \in Key : cache'[b][j] =
            IF b = req[c].backend /\ j = req[c].key
            THEN [digest |-> req[c].digest, prompt |-> row[k].prompt] ELSE cache[b][j]
      BY <2>3, <3>1, Cached
    <3>3. CacheAgrees'
      BY <1>0, <2>1, <2>3, <3>1, <3>2 DEF TrueInv, CacheAgrees, Replays
    <3> QED BY <2>1, <3>3 DEF TrueInv, Replied, RowTrue, Unborn
  <2> QED BY <1>2, <2>2, <2>3 DEF LookUp
<1>3. ASSUME NEW c \in Call, Reserve(c) PROVE TrueInv'
  <2> DEFINE k == req[c].key
  <2>1. UNCHANGED <<cache, req, reply, origin, place>> BY <1>3 DEF Reserve, engine
  <2>2. CASE UNCHANGED row BY <2>1, <2>2, TrueOther DEF SameRow
  <2>3. CASE row[k] = None /\ row' = [row EXCEPT ![k] = NewRow(c)]
    <3>1. /\ row'[k].prompt = None
          /\ \A j \in Key : j # k => row'[j] = row[j]
      BY <1>0, <2>3 DEF TypeOK, NewRow
    <3>2. RowTrue' BY <2>1, <3>1 DEF TrueInv, RowTrue
    <3>3. CacheAgrees' BY <2>1, <2>3, <3>1 DEF TrueInv, CacheAgrees
    <3> QED BY <2>1, <3>2, <3>3 DEF TrueInv, Replied, Unborn
  <2> QED BY <1>3, <2>2, <2>3 DEF Reserve
<1>4. ASSUME NEW c \in Call, GuardRefuses(c) \/ NodeErrors(c) PROVE TrueInv'
  <2> DEFINE k == req[c].key
  <2>1. /\ UNCHANGED <<cache, req, reply, origin, place>>
        /\ pc[c] \in {"guard", "post"} /\ Release(c)
    BY <1>4 DEF GuardRefuses, NodeErrors, engine
  <2>2. row'[k] = None /\ \A j \in Key : j # k => row'[j] = row[j]
    BY <2>1, Released
  <2>3. \A b \in Backend : cache[b][k] = None
    BY <1>0, <2>1 DEF OnceInv, Reserved, TrueInv, CacheAgrees, TypeOK, Response
  <2>4. RowTrue' BY <2>1, <2>2 DEF TrueInv, RowTrue
  <2>5. CacheAgrees' BY <2>1, <2>2, <2>3 DEF TrueInv, CacheAgrees
  <2> QED BY <2>1, <2>4, <2>5 DEF TrueInv, Replied, Unborn
<1>5. ASSUME NEW c \in Call, Post(c) \/ PostFails(c) PROVE TrueInv'
  <2>1. /\ UNCHANGED <<row, cache, req, origin, place>>
        /\ \A d \in Call : reply'[d] = reply[d] \/ reply'[d] = None
    BY <1>5 DEF Post, PostFails, table, TypeOK
  <2> QED BY <2>1, TrueOther DEF SameRow
<1>6. ASSUME NEW c \in Call, Complete(c) PROVE TrueInv'
  <2> DEFINE k == req[c].key
  <2>1. /\ UNCHANGED <<req, origin, place>> /\ pc[c] = "post"
        /\ reply[c] \in Prompt /\ reply'[c] = None /\ Caches(c, reply[c])
        /\ \A d \in Call : d # c => reply'[d] = reply[d]
    BY <1>6 DEF Complete, TypeOK, engine
  <2>2. row[k] # None /\ row[k].prompt = None BY <2>1 DEF OnceInv, Reserved
  <2>3. /\ row'[k] = [digest |-> req[c].digest, client |-> c, prompt |-> reply[c],
                      state |-> "pending"]
        /\ \A j \in Key : j # k => row'[j] = row[j]
    BY <1>0, <1>6, <2>2 DEF Complete, TypeOK
  <2>4. row'[k] # None
    <3>1. row'[k] \in Row BY <1>0, <2>1, <2>3 DEF Row, Request, States
    <3> QED BY <3>1
  <2>5. origin[reply[c]] = [key |-> k, digest |-> req[c].digest]
    BY <2>1 DEF TrueInv, Replied
  <2>6. RowTrue' BY <2>1, <2>3, <2>5 DEF TrueInv, RowTrue
  <2>7. \A b \in Backend : cache[b][k] = None
    BY <1>0, <2>2 DEF TrueInv, CacheAgrees, TypeOK, Response
  <2>8. CacheAgrees'
    <3> SUFFICES ASSUME NEW b \in Backend, NEW j \in Key, cache'[b][j] # None
                 PROVE  /\ row'[j] # None /\ row'[j].prompt = cache'[b][j].prompt
                        /\ row'[j].digest = cache'[b][j].digest
      BY DEF CacheAgrees
    <3>1. cache'[b][j] = IF b = req[c].backend /\ j = req[c].key
                         THEN [digest |-> req[c].digest, prompt |-> reply[c]] ELSE cache[b][j]
      BY <2>1, Cached
    <3>2. CASE j = k BY <2>3, <2>4, <2>7, <3>1, <3>2
    <3>3. CASE j # k BY <2>3, <3>1, <3>3 DEF TrueInv, CacheAgrees
    <3> QED BY <3>2, <3>3
  <2>9. Replied' BY <2>1 DEF TrueInv, Replied
  <2> QED BY <2>1, <2>6, <2>8, <2>9 DEF TrueInv, Unborn
<1>7. ASSUME NEW b \in Backend, Crash(b) PROVE TrueInv'
  <2>1. /\ UNCHANGED <<row, req, origin, place>>
        /\ \A c \in Call : reply'[c] = reply[c] \/ reply'[c] = None
        /\ \A a \in Backend, k \in Key : cache'[a][k] = cache[a][k] \/ cache'[a][k] = None
    BY <1>7 DEF Crash, TypeOK
  <2> QED BY <2>1 DEF TrueInv, Replied, RowTrue, Unborn, CacheAgrees
<1>8. ASSUME NEW f \in flight, NEW p \in Prompt, Accept(f, p) PROVE TrueInv'
  <2>1. /\ UNCHANGED <<row, cache, req>> /\ place[p] = "unborn" /\ place'[p] = "pending"
        /\ origin'[p] = [key |-> f.key, digest |-> f.digest]
        /\ \A q \in Prompt : q # p => origin'[q] = origin[q] /\ place'[q] = place[q]
        /\ reply' = IF f.call = None THEN reply ELSE [reply EXCEPT ![f.call] = p]
    BY <1>8 DEF Accept, TypeOK, table
  <2>2. origin[p] = None BY <2>1 DEF TrueInv, Unborn
  <2>3. \A o \in Origin : o # None OBVIOUS
  <2>4. ASSUME NEW k \in Key, NEW d \in Digest
        PROVE  [key |-> k, digest |-> d] # None
    BY <2>3 DEF Origin
  <2>5. Replied'
    <3> SUFFICES ASSUME NEW c \in Call, reply'[c] # None
                 PROVE  origin'[reply'[c]] = [key |-> req[c].key, digest |-> req[c].digest]
      BY <2>1 DEF Replied
    <3>1. CASE c = f.call
      <4>1. f = Body(c) BY <3>1 DEF OnceInv, Waiting
      <4>2. reply'[c] = p BY <2>1, <3>1 DEF TypeOK
      <4> QED BY <2>1, <4>1, <4>2 DEF Body
    <3>2. CASE c # f.call
      <4>1. reply'[c] = reply[c] BY <2>1, <3>2 DEF TypeOK
      <4>2. origin[reply[c]] = [key |-> req[c].key, digest |-> req[c].digest]
        BY <4>1 DEF TrueInv, Replied
      <4>3. reply[c] # p BY <1>0, <2>2, <2>4, <4>2 DEF Request
      <4> QED BY <2>1, <4>1, <4>2, <4>3 DEF TypeOK
    <3> QED BY <3>1, <3>2
  <2>6. RowTrue'
    <3> SUFFICES ASSUME NEW k \in Key, row[k] # None, row[k].prompt # None
                 PROVE  origin'[row[k].prompt] = [key |-> k, digest |-> row[k].digest]
      BY <2>1 DEF RowTrue
    <3>1. origin[row[k].prompt] = [key |-> k, digest |-> row[k].digest]
      BY DEF TrueInv, RowTrue
    <3>2. row[k].prompt \in Prompt /\ row[k].digest \in Digest BY DEF TypeOK, Row
    <3>3. row[k].prompt # p BY <2>2, <2>4, <3>1, <3>2
    <3> QED BY <2>1, <3>1, <3>2, <3>3
  <2>7. Unborn' BY <2>1 DEF TrueInv, Unborn
  <2>8. CacheAgrees' BY <2>1 DEF TrueInv, CacheAgrees
  <2> QED BY <2>5, <2>6, <2>7, <2>8 DEF TrueInv
<1>9. ASSUME NEW f \in flight, Lost(f) PROVE TrueInv'
  BY <1>9, TrueOther DEF Lost, table, calls, SameRow
<1>10. ASSUME NEW p \in Prompt, Foreign(p) \/ Start(p) \/ Finish(p) PROVE TrueInv'
  <2>1. \A q \in Prompt : place'[q] = "unborn" => place[q] = "unborn"
    BY <1>10 DEF Foreign, Start, Finish, Moves, TypeOK
  <2>2. UNCHANGED <<row, cache, req, reply, origin>>
    BY <1>10 DEF Foreign, Start, Finish, Moves, table, calls
  <2> QED BY <2>1, <2>2, TrueOther DEF SameRow
<1>11. ASSUME NEW v \in Viewer,
              \/ \E p \in Prompt : View(v, p)
              \/ PollReads(v) \/ CancelLooks(v) \/ Delete(v) \/ CheckQueue(v)
              \/ CheckHistory(v) \/ Verify(v) \/ Interrupt(v) \/ ViewEnds(v)
       PROVE TrueInv'
  <2>1. UNCHANGED <<row, cache, req, reply, origin>>
    BY <1>11 DEF View, PollReads, CancelLooks, Delete, CheckQueue, CheckHistory, Verify,
                 Interrupt, ViewEnds, FrameView, calls
  <2>2. \A q \in Prompt : place'[q] = "unborn" => place[q] = "unborn"
    BY <1>11 DEF View, PollReads, CancelLooks, Delete, CheckQueue, CheckHistory, Verify,
                 Interrupt, ViewEnds, FrameView, TypeOK
  <2> QED BY <2>1, <2>2, TrueOther DEF SameRow
<1>12. ASSUME NEW v \in Viewer, PollWrites(v) \/ CancelTells(v) \/ Marks(v) PROVE TrueInv'
  <2>1. /\ UNCHANGED <<cache, req, reply, origin, place>> /\ target[v] \in Prompt
    BY <1>12 DEF PollWrites, CancelTells, Marks, FrameView, calls, TypeOK
  <2>2. PICK st \in States : Update(target[v], st) BY <1>12, StoredStates
  <2> QED BY <2>1, <2>2, UpdateSame, TrueOther
<1>13. CASE UNCHANGED vars
  BY <1>13, TrueOther DEF vars, table, calls, engine, SameRow
<1> QED
  BY <1>1, <1>2, <1>3, <1>4, <1>5, <1>6, <1>7, <1>8, <1>9, <1>10, <1>11, <1>12, <1>13 DEF Next

\* The inductive invariant of the Runner holds in every behaviour.
LEMMA Invariance == Spec => []IInv
<1>1. Init => IInv
  BY InitType, InitOnce, InitTrue DEF Init, ReadFirst, IInv
<1>2. IInv /\ [Next]_vars => IInv'
  BY NextType, NextRead, NextOnce, NextTrue DEF IInv
<1> QED BY <1>1, <1>2, PTL DEF Spec

\* The memory caches of all backends agree with the table they accelerate.
THEOREM CachesAgree == Spec => []CacheAgrees
<1>1. IInv => CacheAgrees BY DEF IInv, TrueInv
<1> QED BY <1>1, Invariance, PTL
-----------------------------------------------------------------------------
(***************************************************************************)
(* The refinement of IdempotentRun.                                        *)
(***************************************************************************)
LEMMA RunIs ==
  ASSUME IInv, NEW k \in Key
  PROVE  /\ Run(k) = None <=> Accepted(k) = {}
         /\ \A p \in Accepted(k) : Run(k) = [digest |-> origin[p].digest, prompt |-> p]
<1>1. ASSUME NEW p \in Accepted(k)
      PROVE  Run(k) = [digest |-> origin[p].digest, prompt |-> p] /\ Run(k) # None
  <2>1. (CHOOSE q \in Accepted(k) : TRUE) = p
    BY DEF IInv, OnceInv, AtMostOnePrompt
  <2>2. Run(k) = [digest |-> origin[p].digest, prompt |-> p] BY <2>1 DEF Run
  <2>3. p \in Prompt /\ origin[p] \in Origin BY DEF Accepted, IInv, TypeOK
  <2> QED BY <2>2, <2>3, RunnerConstants DEF Origin, Response
<1>2. Accepted(k) = {} => Run(k) = None BY DEF Run
<1> QED BY <1>1, <1>2

\* Steps that accept nothing: the mapped state stays, or a right response is given.
LEMMA Stutter ==
  ASSUME IInv, UNCHANGED origin, UNCHANGED given
  PROVE  UNCHANGED <<[k \in Key |-> Run(k)], given>>
  BY DEF Run, Accepted

\* Responding with the accepted prompt is a Reply of the abstract specification.
LEMMA Reply ==
  ASSUME IInv, NEW c \in Call, NEW p \in Prompt, UNCHANGED origin, Right(c, p),
         Responds(c, p)
  PROVE  Once!Reply(req[c].key)
<1> DEFINE k == req[c].key
<1>1. k \in Key /\ req[c].digest \in Digest BY DEF IInv, TypeOK, Request
<1>2. origin[p] # None /\ origin[p].key = k /\ origin[p].digest = req[c].digest
  BY <1>1, RunnerConstants DEF Right, Origin
<1>3. p \in Accepted(k) BY <1>2 DEF Accepted
<1>4. Run(k) = [digest |-> req[c].digest, prompt |-> p] /\ Run(k) # None
  BY <1>1, <1>2, <1>3, RunIs
<1>5. UNCHANGED [j \in Key |-> Run(j)] BY DEF Run, Accepted
<1> QED BY <1>1, <1>4, <1>5 DEF Once!Reply, Responds

\* Answering from a row or from the cache is a Reply, or changes nothing.
LEMMA Replay ==
  ASSUME IInv, NEW c \in Call, UNCHANGED origin,
         \/ row[req[c].key] # None /\ Known(c, row[req[c].key])
         \/ LET e == cache[req[c].backend][req[c].key] IN
              row[req[c].key] = None /\ e # None /\ Known(c, e)
  PROVE  [Once!Next]_<<[k \in Key |-> Run(k)], given>>
<1> DEFINE k == req[c].key
<1>1. k \in Key /\ req[c].backend \in Backend BY DEF IInv, TypeOK, Request
<1>2. row[k] # None /\ Known(c, row[k])
  BY <1>1 DEF IInv, TrueInv, CacheAgrees
<1>3. CASE Replays(c, row[k])
  <2>1. row[k].prompt \in Prompt BY <1>1, <1>2, <1>3 DEF Replays, IInv, TypeOK, Row
  <2>2. Right(c, row[k].prompt) BY <1>2, <1>3, ReplayRight DEF IInv
  <2>3. Responds(c, row[k].prompt) BY <1>2, <1>3 DEF Known
  <2>4. Once!Reply(k) BY <2>1, <2>2, <2>3, Reply
  <2> QED BY <1>1, <2>4 DEF Once!Next
<1>4. CASE ~Replays(c, row[k])
  BY <1>2, <1>4, Stutter DEF Known
<1> QED BY <1>3, <1>4

\* Every step of the Runner is an Accept, a Reply or a stutter.
LEMMA Refines == IInv /\ [Next]_vars => [Once!Next]_<<[k \in Key |-> Run(k)], given>>
<1> SUFFICES ASSUME IInv, [Next]_vars
             PROVE  [Once!Next]_<<[k \in Key |-> Run(k)], given>>
  OBVIOUS
<1> USE RunnerConstants
<1>1. ASSUME NEW c \in Call,
             \/ Arrive(c) \/ GuardRefuses(c) \/ Post(c) \/ NodeErrors(c) \/ PostFails(c)
      PROVE  UNCHANGED <<[k \in Key |-> Run(k)], given>>
  BY <1>1, Stutter DEF Arrive, GuardRefuses, Post, NodeErrors, PostFails, engine
<1>2. ASSUME NEW c \in Call, LookUp(c)
      PROVE  [Once!Next]_<<[k \in Key |-> Run(k)], given>>
  <2>1. UNCHANGED origin BY <1>2 DEF LookUp, engine
  <2>2. CASE UNCHANGED given BY <2>1, <2>2, Stutter
  <2>3. CASE given' # given BY <1>2, <2>1, <2>3, Replay DEF LookUp
  <2> QED BY <2>2, <2>3
<1>3. ASSUME NEW c \in Call, Reserve(c)
      PROVE  [Once!Next]_<<[k \in Key |-> Run(k)], given>>
  <2>1. UNCHANGED origin BY <1>3 DEF Reserve, engine
  <2>2. CASE UNCHANGED given BY <2>1, <2>2, Stutter
  <2>3. CASE given' # given BY <1>3, <2>1, <2>3, Replay DEF Reserve
  <2> QED BY <2>2, <2>3
<1>4. ASSUME NEW c \in Call, Complete(c)
      PROVE  [Once!Next]_<<[k \in Key |-> Run(k)], given>>
  <2>1. UNCHANGED origin /\ Responds(c, reply[c]) /\ reply[c] \in Prompt
    BY <1>4 DEF Complete, engine, IInv, TypeOK
  <2>2. Right(c, reply[c]) BY <2>1 DEF IInv, TrueInv, Replied, Right
  <2>3. Once!Reply(req[c].key) BY <2>1, <2>2, Reply
  <2>4. req[c].key \in Key BY DEF IInv, TypeOK, Request
  <2> QED BY <2>3, <2>4 DEF Once!Next
<1>5. ASSUME NEW f \in flight, NEW p \in Prompt, Accept(f, p)
      PROVE  Once!Accept(f.key, f.digest, p) /\ f.key \in Key /\ f.digest \in Digest
  <2> DEFINE k == f.key
             o == [key |-> k, digest |-> f.digest]
  <2>1. k \in Key /\ f.digest \in Digest BY DEF IInv, TypeOK, Posted
  <2>2. o \in Origin /\ o # None BY <2>1 DEF Origin
  <2>3. /\ origin' = [origin EXCEPT ![p] = o] /\ origin[p] = None /\ UNCHANGED given
    BY <1>5 DEF Accept, IInv, TrueInv, Unborn
  <2>4. origin'[p] = o /\ \A q \in Prompt : q # p => origin'[q] = origin[q]
    BY <2>3 DEF IInv, TypeOK
  <2>5. Accepted(k) = {} /\ Accepted(k)' = {p}
    BY <2>2, <2>4 DEF IInv, OnceInv, FlightOrPrompt, Accepted
  <2>6. \A j \in Key : j # k => Accepted(j)' = Accepted(j) /\ p \notin Accepted(j)
    BY <2>2, <2>3, <2>4 DEF Accepted
  <2>7. Run(k) = None BY <2>5 DEF Run
  <2>8. Run(k)' = [digest |-> f.digest, prompt |-> p]
    <3>1. (CHOOSE q \in {p} : TRUE) = p OBVIOUS
    <3> QED BY <2>4, <2>5, <3>1 DEF Run
  <2>9. ASSUME NEW j \in Key, j # k PROVE Run(j)' = Run(j) /\ (Run(j) = None \/ Run(j).prompt # p)
    <3>1. CASE Accepted(j) = {} BY <2>6, <2>9, <3>1 DEF Run
    <3>2. CASE Accepted(j) # {}
      <4> DEFINE a == CHOOSE q \in Accepted(j) : TRUE
      <4>1. a \in Accepted(j) BY <3>2
      <4>2. a # p /\ a \in Prompt BY <2>6, <2>9, <4>1 DEF Accepted
      <4>3. Run(j) = [digest |-> origin[a].digest, prompt |-> a] BY <3>2 DEF Run
      <4>4. Run(j)' = [digest |-> origin'[a].digest, prompt |-> a]
        BY <2>6, <2>9, <3>2 DEF Run
      <4>5. origin'[a] = origin[a] BY <2>4, <4>2
      <4> HIDE DEF a
      <4>6. Run(j)' = Run(j) BY <4>3, <4>4, <4>5
      <4>7. Run(j).prompt # p BY <4>2, <4>3
      <4> QED BY <4>6, <4>7
    <3> QED BY <3>1, <3>2
  <2> HIDE DEF k
  <2>10. [j \in Key |-> Run(j)]' =
           [[j \in Key |-> Run(j)] EXCEPT ![k] = [digest |-> f.digest, prompt |-> p]]
    BY <2>1, <2>8, <2>9
  <2>11. /\ [j \in Key |-> Run(j)][k] = None
         /\ \A other \in Key : \/ [j \in Key |-> Run(j)][other] = None
                               \/ [j \in Key |-> Run(j)][other].prompt # p
    BY <2>1, <2>7, <2>9
  <2>12. Once!Accept(k, f.digest, p) BY <2>3, <2>10, <2>11 DEF Once!Accept
  <2> QED BY <2>1, <2>12 DEF k
<1>6. ASSUME \/ \E b \in Backend : Crash(b)
             \/ \E f \in flight : Lost(f)
             \/ \E p \in Prompt : Foreign(p) \/ Start(p) \/ Finish(p)
             \/ UNCHANGED vars
      PROVE  UNCHANGED <<[k \in Key |-> Run(k)], given>>
  BY <1>6, Stutter DEF Crash, Lost, Foreign, Start, Finish, Moves, vars, calls, engine
<1>7. ASSUME NEW v \in Viewer,
             \/ \E p \in Prompt : View(v, p)
             \/ PollReads(v) \/ PollWrites(v) \/ CancelLooks(v) \/ Delete(v)
             \/ CheckQueue(v) \/ CheckHistory(v) \/ CancelTells(v)
             \/ Verify(v) \/ Interrupt(v) \/ Marks(v) \/ ViewEnds(v)
      PROVE  UNCHANGED <<[k \in Key |-> Run(k)], given>>
  <2>1. FrameView
    BY <1>7 DEF View, PollReads, PollWrites, CancelLooks, Delete, CheckQueue, CheckHistory,
                CancelTells, Verify, Interrupt, Marks, ViewEnds
  <2> QED BY <2>1, Stutter DEF FrameView, calls
<1>8. ASSUME NEW f \in flight, NEW p \in Prompt, Accept(f, p) PROVE Once!Next
  BY <1>5, <1>8 DEF Once!Next
<1> QED
  BY <1>1, <1>2, <1>3, <1>4, <1>6, <1>7, <1>8 DEF Next

\* The run route keeps the promise of IdempotentRun: one prompt for a key, and every
\* success names that prompt and was asked with its workflow.
THEOREM RunRouteKeepsPromise == Spec => KeepsPromise
<1>1. Init => Once!Init
  BY DEF Init, Once!Init, Run, Accepted
<1> QED BY <1>1, Refines, Invariance, PTL DEF Spec, KeepsPromise, Once!Spec
-----------------------------------------------------------------------------
(***************************************************************************)
(* "deleted_pending" is the truth.                                         *)
(***************************************************************************)
\* A prompt moves from the queue to the history and never back, so a canceller that
\* finds it first not in the queue and then not in the history knows it was deleted.
CancelInv ==
  /\ CancelHonest
  /\ \A v \in Viewer :
       LET at == place[target[v]] IN
       /\ vpc[v] # "idle" => at # "unborn"
       /\ vpc[v] \in {"checkQueue", "checkHistory", "told"} => at # "pending"
       /\ vpc[v] \in {"checkHistory", "told"} /\ seen[v].queue = "absent" => at # "running"
       /\ vpc[v] = "told" /\ seen[v].queue = "absent" /\ seen[v].history = "absent"
            => at = "deleted"

\* The engine's own moves of a prompt, seen from a canceller.
LEMMA CancelPlaces ==
  ASSUME TypeOK, CancelInv, UNCHANGED viewers,
         \A p \in Prompt :
           \/ place'[p] = place[p]
           \/ place[p] = "unborn" /\ place'[p] = "pending"
           \/ place[p] = "pending" /\ place'[p] = "running"
           \/ place[p] = "running" /\ place'[p] \in {"completed", "failed"}
  PROVE  CancelInv'
<1>1. \A v \in Viewer : target[v] \in Prompt BY DEF TypeOK
<1>2. CancelHonest' BY DEF CancelInv, CancelHonest, viewers, TypeOK
<1> QED BY <1>1, <1>2 DEF CancelInv, viewers

\* Every step keeps what a canceller's reads imply about its prompt.
LEMMA NextCancel == IInv /\ CancelInv /\ [Next]_vars => CancelInv'
<1> SUFFICES ASSUME IInv, CancelInv, [Next]_vars PROVE CancelInv' OBVIOUS
<1>0. TypeOK BY DEF IInv
<1>1. CASE UNCHANGED <<place, viewers>>
  BY <1>0, <1>1, CancelPlaces DEF viewers
<1>2. ASSUME NEW f \in flight, NEW p \in Prompt, Accept(f, p) PROVE CancelInv'
  BY <1>0, <1>2, CancelPlaces DEF Accept, TypeOK
<1>3. ASSUME NEW p \in Prompt, Foreign(p) \/ Start(p) \/ Finish(p) PROVE CancelInv'
  BY <1>0, <1>3, CancelPlaces DEF Foreign, Start, Finish, Moves, TypeOK
<1>4. ASSUME NEW v \in Viewer, NEW p \in Prompt, View(v, p) PROVE CancelInv'
  <2>1. place[p] # "unborn"
    <3>1. PICK k \in Key : row[k] # None /\ row[k].prompt = p BY <1>4 DEF View
    <3>2. p # None BY RunnerConstants
    <3>3. origin[p] = [key |-> k, digest |-> row[k].digest]
      BY <3>1, <3>2 DEF IInv, TrueInv, RowTrue
    <3>4. row[k].digest \in Digest BY <1>0, <3>1 DEF TypeOK, Row
    <3>5. origin[p] # None BY <3>3, <3>4, RunnerConstants DEF Origin
    <3> QED BY <3>5 DEF IInv, TrueInv, Unborn
  <2>2. /\ vpc'[v] \in {"poll", "cancel"} /\ target'[v] = p
        /\ \A u \in Viewer : u # v => vpc'[u] = vpc[u] /\ target'[u] = target[u]
        /\ UNCHANGED <<place, seen, told>>
    BY <1>0, <1>4 DEF View, Look, TypeOK
  <2> QED BY <1>0, <2>1, <2>2 DEF CancelInv, CancelHonest
<1>5. ASSUME NEW v \in Viewer, PollReads(v) PROVE CancelInv'
  <2>1. /\ UNCHANGED <<place, vpc, target, told>> /\ vpc[v] = "poll"
        /\ \A u \in Viewer : u # v => seen'[u] = seen[u]
    BY <1>0, <1>5 DEF PollReads, Sees, TypeOK
  <2> QED BY <2>1 DEF CancelInv, CancelHonest
<1>6. ASSUME NEW v \in Viewer, PollWrites(v) \/ Marks(v) \/ ViewEnds(v) PROVE CancelInv'
  <2>1. /\ UNCHANGED <<place, target, told>> /\ vpc'[v] = "idle"
        /\ \A u \in Viewer : u # v => vpc'[u] = vpc[u] /\ seen'[u] = seen[u]
    BY <1>0, <1>6 DEF PollWrites, Marks, ViewEnds, ViewDone, Look, TypeOK
  <2> QED BY <2>1 DEF CancelInv, CancelHonest
<1>7. ASSUME NEW v \in Viewer, CancelLooks(v) \/ Verify(v) PROVE CancelInv'
  <2>1. /\ UNCHANGED <<place, target, seen, told>> /\ vpc[v] # "idle"
        /\ vpc'[v] \in {"delete", "verify", "interrupt", "idle"}
        /\ \A u \in Viewer : u # v => vpc'[u] = vpc[u]
    BY <1>0, <1>7 DEF CancelLooks, Verify, Look, TypeOK
  <2> QED BY <2>1 DEF CancelInv, CancelHonest
<1>8. ASSUME NEW v \in Viewer, Delete(v) \/ Interrupt(v) PROVE CancelInv'
  <2>1. /\ UNCHANGED <<target, seen, told>> /\ vpc[v] # "idle"
        /\ \A u \in Viewer : u # v => vpc'[u] = vpc[u]
        /\ \A p \in Prompt : \/ place'[p] = place[p]
                             \/ place[p] = "pending" /\ place'[p] = "deleted"
                             \/ place[p] = "running" /\ place'[p] = "failed"
    BY <1>0, <1>8 DEF Delete, Interrupt, Look, TypeOK
  <2>2. CASE Delete(v)
    <3>1. vpc'[v] = "checkQueue" /\ place'[target[v]] # "pending"
      BY <1>0, <2>2 DEF Delete, Look, TypeOK
    <3> QED BY <1>0, <2>1, <3>1 DEF CancelInv, CancelHonest, TypeOK
  <2>3. CASE Interrupt(v)
    <3>1. vpc'[v] = "mark" BY <1>0, <2>3 DEF Interrupt, Look, TypeOK
    <3> QED BY <1>0, <2>1, <3>1 DEF CancelInv, CancelHonest, TypeOK
  <2> QED BY <1>8, <2>2, <2>3
<1>9. ASSUME NEW v \in Viewer, CheckQueue(v) PROVE CancelInv'
  <2>1. /\ UNCHANGED <<place, target, told>> /\ vpc[v] = "checkQueue" /\ vpc'[v] = "checkHistory"
        /\ seen'[v].queue = Queued(target[v])
        /\ \A u \in Viewer : u # v => vpc'[u] = vpc[u] /\ seen'[u] = seen[u]
    BY <1>0, <1>9 DEF CheckQueue, Sees, Look, TypeOK
  <2>2. Queued(target[v]) = "absent" => place[target[v]] # "running" BY DEF Queued
  <2> QED BY <2>1, <2>2 DEF CancelInv, CancelHonest
<1>10. ASSUME NEW v \in Viewer, CheckHistory(v) PROVE CancelInv'
  <2>1. /\ UNCHANGED <<place, target, told>> /\ vpc[v] = "checkHistory" /\ vpc'[v] = "told"
        /\ seen'[v].queue = seen[v].queue /\ seen'[v].history = Recorded(target[v])
        /\ \A u \in Viewer : u # v => vpc'[u] = vpc[u] /\ seen'[u] = seen[u]
    BY <1>0, <1>10 DEF CheckHistory, Sees, Look, TypeOK
  <2>2. Recorded(target[v]) = "absent" => place[target[v]] \notin {"completed", "failed"}
    BY DEF Recorded
  <2>3. place[target[v]] \in Places BY <1>0 DEF TypeOK
  <2> QED BY <2>1, <2>2, <2>3 DEF CancelInv, CancelHonest, Places
<1>11. ASSUME NEW v \in Viewer, CancelTells(v) PROVE CancelInv'
  <2>1. /\ UNCHANGED <<place, target>> /\ vpc[v] = "told" /\ vpc'[v] = "idle"
        /\ told' = IF Summary(seen[v]) = "unknown" THEN told \cup {target[v]} ELSE told
        /\ \A u \in Viewer : u # v => vpc'[u] = vpc[u] /\ seen'[u] = seen[u]
    BY <1>0, <1>11 DEF CancelTells, ViewDone, Look, TypeOK
  <2>2. Summary(seen[v]) = "unknown" => seen[v].queue = "absent" /\ seen[v].history = "absent"
    BY <1>0 DEF Summary, TypeOK
  <2>3. CancelHonest' BY <2>1, <2>2 DEF CancelInv, CancelHonest
  <2> QED BY <2>1, <2>3 DEF CancelInv
<1> QED
  BY <1>1, <1>2, <1>3, <1>4, <1>5, <1>6, <1>7, <1>8, <1>9, <1>10, <1>11
  DEF Next, Arrive, LookUp, Reserve, GuardRefuses, Post, NodeErrors, PostFails, Complete,
      Crash, Lost, vars, engine, viewers

\* Who is told "deleted_pending" can rely on it: the prompt was deleted before it ran.
THEOREM CancelTellsTheTruth == Spec => []CancelHonest
<1>1. Init => CancelInv BY DEF Init, CancelInv, CancelHonest
<1>2. IInv /\ CancelInv /\ [Next]_vars => CancelInv' BY NextCancel
<1>3. CancelInv => CancelHonest BY DEF CancelInv
<1> QED BY <1>1, <1>2, <1>3, Invariance, PTL DEF Spec
=============================================================================
