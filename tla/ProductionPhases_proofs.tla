------------------------ MODULE ProductionPhases_proofs ------------------------
(***************************************************************************)
(* Proofs about ProductionPhases, for every number of phases and requests. *)
(*                                                                         *)
(* The argument: a row is "sound" when its approval, and a planning        *)
(* phase's being unlocked, are backed by an approval in the ledger, which  *)
(* is never taken back.  So a row stays sound in the session of a request  *)
(* that read it long ago, and what the request saves, column by column     *)
(* over whatever the table holds by then, is sound again.                  *)
(***************************************************************************)
EXTENDS ProductionPhases, TLAPS

Signed(rows) == \E i \in 1 .. Len(rows) : rows[i].lifecycle = "approved"

Numbered(rows) == \A i \in 1 .. Len(rows) : rows[i].number = i

Chained(vs) ==
    /\ \A k \in Phases : k > 1 /\ Signed(vs[k]) => Signed(vs[k - 1])
    /\ ~Signed(vs[LastPhase])

RowSound(row, k, vs) ==
    /\ row.lifecycle = "approved" => Signed(vs[k])
    /\ k \in PlanningPhases /\ ~row.locked => Signed(vs[k - 1])
    /\ k = LastPhase => /\ row.locked
                        /\ row.lifecycle \in {"not_started", "drafting"}

\* What an open request knows of the tables.
RequestSound(q, vs) ==
    q.pc # "idle" =>
      /\ \A j \in Phases : RowSound(q.seen[j], j, vs)
      /\ q.op \in {"generate", "revise"} => q.k = 1 /\ q.first = 0
      /\ q.op \in {"approve", "iterate"} =>
            q.k # LastPhase /\ (q.k > 1 => Signed(vs[q.k - 1]))
      /\ q.op = "iterate" => q.k \in PlanningPhases
      /\ q.pc = "run" => q.op = "iterate"
      /\ q.latest <= Len(vs[q.k])

IInv ==
    /\ TypeOK
    /\ \A k \in Phases : Numbered(versions[k]) /\ phase[k].current = Len(versions[k])
    /\ Chained(versions)
    /\ \A k \in Phases : RowSound(phase[k], k, versions)
    /\ \A r \in Requests : RequestSound(req[r], versions)

\* Ledgers that only grew: a row stays sound and so does a request.
Grown(vs, ws) ==
    \A k \in Phases : /\ Len(ws[k]) >= Len(vs[k])
                      /\ Signed(vs[k]) => Signed(ws[k])

\* Phase numbers.
LEMMA PhaseFacts ==
    /\ 1 \in Phases /\ LastPhase \in Phases /\ 1 # LastPhase
    /\ 1 \notin PlanningPhases
    /\ ImagePhase \in Phases /\ VideoPhase \in Phases
    /\ ImagePhase # LastPhase /\ VideoPhase # LastPhase
    /\ ImagePhase \notin PlanningPhases /\ VideoPhase \notin PlanningPhases
    /\ ImagePhase # VideoPhase
    /\ \A k \in PlanningPhases : k \in Phases /\ k > 1 /\ k # LastPhase
    /\ \A k \in Phases : k > 1 => k - 1 \in Phases
    /\ \A k \in Phases : k # LastPhase => k + 1 \in Phases
    /\ \A k \in Phases : k \in Nat
    /\ Phases \subseteq Int
  BY PhaseAssumption DEF Phases, VideoPhase

\* Appending the next number keeps a ledger numbered, and signs it only with an
\* approval.
LEMMA AppendRow ==
    ASSUME NEW rows \in Seq(VersionRow), NEW row \in VersionRow,
           Numbered(rows), row.number = Len(rows) + 1
    PROVE  /\ Append(rows, row) \in Seq(VersionRow)
           /\ Numbered(Append(rows, row))
           /\ Latest(Append(rows, row)) = Len(rows) + 1
           /\ Len(Append(rows, row)) = Len(rows) + 1
           /\ Append(rows, row) # rows
           /\ Signed(Append(rows, row)) <=>
                Signed(rows) \/ row.lifecycle = "approved"
<1> DEFINE more == Append(rows, row)
<1>1. /\ more \in Seq(VersionRow)
      /\ Len(more) = Len(rows) + 1
      /\ Len(rows) \in Nat
      /\ \A i \in 1 .. Len(rows) : more[i] = rows[i]
      /\ more[Len(rows) + 1] = row
  OBVIOUS
<1>2. Numbered(more)
  BY <1>1 DEF Numbered
<1>3. Latest(more) = Len(rows) + 1
  <2>1. more # <<>>
    BY <1>1
  <2> QED BY <2>1, <1>1 DEF Latest
<1>4. Signed(more) <=> Signed(rows) \/ row.lifecycle = "approved"
  <2>1. 1 .. Len(more) = (1 .. Len(rows)) \cup {Len(rows) + 1}
    BY <1>1
  <2> QED BY <2>1, <1>1 DEF Signed
<1> QED BY <1>1, <1>2, <1>3, <1>4

\* The newest number of a numbered ledger is its length.
LEMMA LatestIsLen ==
    ASSUME NEW rows \in Seq(VersionRow), Numbered(rows)
    PROVE  Latest(rows) = Len(rows) /\ Len(rows) \in Nat
<1>1. CASE rows = <<>>
  BY <1>1 DEF Latest
<1>2. CASE rows # <<>>
  <2>1. Len(rows) \in Nat /\ Len(rows) \in 1 .. Len(rows)
    BY <1>2
  <2> QED BY <1>2, <2>1 DEF Latest, Numbered
<1> QED BY <1>1, <1>2

\* A saved row is sound when the row in the table and the session's are.
LEMMA SavedIsSound ==
    ASSUME NEW now \in PhaseRow, NEW loaded \in PhaseRow, NEW new \in PhaseRow,
           NEW n, n \in Nat, NEW k \in Phases, NEW vs,
           RowSound(now, k, vs), RowSound(new, k, vs)
    PROVE  /\ Saved(now, loaded, new, n) \in PhaseRow
           /\ RowSound(Saved(now, loaded, new, n), k, vs)
           /\ Saved(now, loaded, new, n).current = IF n = 0 THEN now.current ELSE n
  BY DEF Saved, PhaseRow, RowSound

\* Soundness survives the growth of the ledgers.
LEMMA SoundGrows ==
    ASSUME NEW vs, NEW ws, Grown(vs, ws),
           NEW k \in Phases, NEW row, RowSound(row, k, vs)
    PROVE  RowSound(row, k, ws)
<1>1. k \in PlanningPhases => k - 1 \in Phases
  BY PhaseFacts
<1> QED BY <1>1 DEF Grown, RowSound

LEMMA RequestGrows ==
    ASSUME NEW vs, NEW ws, Grown(vs, ws),
           vs \in [Phases -> Seq(VersionRow)], ws \in [Phases -> Seq(VersionRow)],
           NEW q \in RequestState, RequestSound(q, vs)
    PROVE  RequestSound(q, ws)
<1> SUFFICES ASSUME q.pc # "idle" PROVE RequestSound(q, ws)
  BY DEF RequestSound
<1>1. \A j \in Phases : RowSound(q.seen[j], j, ws)
  BY SoundGrows DEF RequestSound
<1>2. q.k \in Phases /\ q.latest \in Nat
  BY DEF RequestState
<1>3. q.k > 1 => q.k - 1 \in Phases
  BY <1>2, PhaseFacts
<1>4. Len(vs[q.k]) \in Nat /\ Len(ws[q.k]) \in Nat
  BY <1>2
<1>5. q.latest <= Len(ws[q.k])
  <2>1. q.latest <= Len(vs[q.k]) /\ Len(ws[q.k]) >= Len(vs[q.k])
    BY <1>2 DEF RequestSound, Grown
  <2> QED BY <2>1, <1>2, <1>4
<1>6. q.k > 1 /\ Signed(vs[q.k - 1]) => Signed(ws[q.k - 1])
  BY <1>3 DEF Grown
<1> QED BY <1>1, <1>5, <1>6 DEF RequestSound

\* Every step that closes a request: enough about the two tables.
LEMMA CloseKeepsIInv ==
    ASSUME IInv, NEW r \in Requests, Close(r),
           versions' \in [Phases -> Seq(VersionRow)],
           phase' \in [Phases -> PhaseRow],
           Grown(versions, versions'), Chained(versions'),
           \A k \in Phases : /\ Numbered(versions'[k])
                             /\ phase'[k].current = Len(versions'[k])
                             /\ RowSound(phase'[k], k, versions')
    PROVE  IInv'
<1>1. Idle \in RequestState
  BY PhaseFacts DEF Idle, RequestState, FirstPhaseRow, PhaseRow, Lifecycle, Ops
<1>2. req' \in [Requests -> RequestState] /\ received' \in 0 .. MaxRequests
  BY <1>1 DEF IInv, TypeOK, Close
<1>3. ASSUME NEW s \in Requests PROVE RequestSound(req'[s], versions')
  <2>1. CASE s = r
    BY <2>1 DEF Close, IInv, TypeOK, RequestSound, Idle
  <2>2. CASE s # r
    <3>1. req'[s] = req[s] /\ req[s] \in RequestState
      BY <2>2 DEF Close, IInv, TypeOK
    <3>2. RequestSound(req[s], versions)
      BY DEF IInv
    <3>3. versions \in [Phases -> Seq(VersionRow)]
      BY DEF IInv, TypeOK
    <3> QED BY <3>1, <3>2, <3>3, RequestGrows
  <2> QED BY <2>1, <2>2
<1> QED BY <1>2, <1>3 DEF IInv, TypeOK

\* A request that writes nothing.
LEMMA RefuseKeepsIInv ==
    ASSUME IInv, NEW r \in Requests, Refuse(r)
    PROVE  IInv'
<1>1. Close(r) /\ phase' = phase /\ versions' = versions
  BY DEF Refuse
<1>2. \A k \in Phases : Len(versions[k]) \in Nat
  BY DEF IInv, TypeOK
<1>3. Grown(versions, versions')
  BY <1>1, <1>2 DEF Grown
<1> QED BY <1>1, <1>3, CloseKeepsIInv DEF IInv, TypeOK

\* Opening a request copies the rows, which are sound.
LEMMA BeginKeepsIInv ==
    ASSUME IInv, NEW r \in Requests, NEW op \in Ops, NEW k \in Phases,
           NEW pc \in {"check", "run", "read", "write"}, NEW e \in Nat,
           Begin(r, op, k, pc, e),
           op \in {"generate", "revise"} => k = 1,
           op \in {"approve", "iterate"} =>
             k # LastPhase /\ (k > 1 => Signed(versions[k - 1])),
           op = "iterate" => k \in PlanningPhases,
           pc = "run" => op = "iterate"
    PROVE  IInv'
<1>1. PICK n \in 0 .. LastPhase :
        /\ op \in {"generate", "revise"} => n = 0
        /\ req' = [req EXCEPT ![r] =
                     [op |-> op, pc |-> pc, k |-> k, seen |-> phase,
                      first |-> n, latest |-> 0, expected |-> e]]
  BY DEF Begin
<1> DEFINE q == [op |-> op, pc |-> pc, k |-> k, seen |-> phase,
                 first |-> n, latest |-> 0, expected |-> e]
<1>2. q \in RequestState
  BY PhaseFacts, PhaseAssumption DEF IInv, TypeOK, RequestState
<1>3. /\ req' = [req EXCEPT ![r] = q]
      /\ phase' = phase /\ versions' = versions
      /\ received' = received + 1 /\ received < MaxRequests
  BY <1>1 DEF Begin
<1>4. RequestSound(q, versions)
  <2>1. Len(versions[k]) \in Nat
    BY DEF IInv, TypeOK
  <2>2. \A j \in Phases : RowSound(q.seen[j], j, versions)
    BY DEF IInv
  <2> QED BY <1>1, <2>1, <2>2 DEF RequestSound
<1>5. TypeOK'
  BY <1>2, <1>3, PhaseAssumption DEF IInv, TypeOK
<1>6. \A s \in Requests : RequestSound(req'[s], versions)
  BY <1>3, <1>4 DEF IInv, TypeOK
<1> QED BY <1>3, <1>5, <1>6 DEF IInv

\* What ensure_phase_baselines does to the ledgers: numbers the rows it adds and
\* signs nothing.
LEMMA BaselinedFacts ==
    ASSUME IInv, NEW r \in Requests, req[r].pc # "idle"
    PROVE  /\ Baselined(r) \in [Phases -> Seq(VersionRow)]
           /\ req[r].first = 0 => Baselined(r) = versions
           /\ \A k \in Phases :
                /\ Numbered(Baselined(r)[k])
                /\ Signed(Baselined(r)[k]) <=> Signed(versions[k])
                /\ Len(Baselined(r)[k]) >= Len(versions[k])
                /\ \/ Baselined(r)[k] = versions[k]
                   \/ Len(Baselined(r)[k]) > Len(versions[k])
<1> DEFINE b == Baselined(r)
<1>1. versions \in [Phases -> Seq(VersionRow)] /\ req[r] \in RequestState
  BY DEF IInv, TypeOK
<1>2. req[r].first = 0 => b = versions
  BY <1>1 DEF Baselined
<1>3. ASSUME NEW k \in Phases
      PROVE  /\ b[k] \in Seq(VersionRow) /\ Numbered(b[k])
             /\ Signed(b[k]) <=> Signed(versions[k])
             /\ b[k] = versions[k] \/ Len(b[k]) = Len(versions[k]) + 1
             /\ Len(versions[k]) \in Nat
  <2>1. versions[k] \in Seq(VersionRow) /\ Numbered(versions[k])
    BY <1>1 DEF IInv
  <2>2. Latest(versions[k]) = Len(versions[k]) /\ Len(versions[k]) \in Nat
    BY <2>1, LatestIsLen
  <2>3. CASE b[k] = versions[k]
    BY <2>1, <2>2, <2>3
  <2>4. CASE b[k] # versions[k]
    <3> DEFINE row == BaselineRow(Latest(versions[k]) + 1,
                                  req[r].seen[k].lifecycle)
    <3>1. b[k] = Append(versions[k], row)
      BY <2>4 DEF Baselined
    <3>2. req[r].seen[k] \in PhaseRow
      BY <1>1 DEF RequestState
    <3>3. row \in VersionRow /\ row.number = Len(versions[k]) + 1
          /\ row.lifecycle = req[r].seen[k].lifecycle
      BY <2>2, <3>2 DEF BaselineRow, Row, VersionRow, PhaseRow, Sources
    <3>4. row.lifecycle = "approved" => Signed(versions[k])
      BY <3>3 DEF IInv, RequestSound, RowSound
    <3> QED BY <2>1, <2>2, <3>1, <3>3, <3>4, AppendRow
  <2> QED BY <2>3, <2>4
<1>4. b = [k \in Phases |-> b[k]]
  BY DEF Baselined
<1>5. b \in [Phases -> Seq(VersionRow)]
  BY <1>3, <1>4
<1> QED BY <1>2, <1>3, <1>5

\* The number an append uses is the next one: the unique constraint lets no
\* other through.
LEMMA NumberIsNext ==
    ASSUME IInv, NEW r \in Requests, req[r].pc # "idle"
    PROVE  Number(r, Baselined(r)[req[r].k]) = Len(Baselined(r)[req[r].k]) + 1
<1> DEFINE k == req[r].k
           b == Baselined(r)
<1>1. req[r] \in RequestState /\ k \in Phases
  BY DEF IInv, TypeOK, RequestState
<1>2. b[k] \in Seq(VersionRow) /\ Numbered(b[k])
  BY <1>1, BaselinedFacts
<1>3. Latest(b[k]) = Len(b[k]) /\ Len(b[k]) \in Nat
  BY <1>2, LatestIsLen
<1>4. CASE req[r].first # 0 \/ Collides(r)
  BY <1>3, <1>4 DEF Number
<1>5. CASE req[r].first = 0 /\ ~Collides(r)
  <2>1. b = versions
    BY <1>5, BaselinedFacts
  <2>2. req[r].latest <= Len(versions[k]) /\ req[r].latest \in Nat
    BY <1>1 DEF IInv, RequestSound, RequestState
  <2>3. \A i \in 1 .. Len(versions[k]) : i # req[r].latest + 1
    BY <1>2, <1>5, <2>1 DEF Collides, Numbered
  <2>4. req[r].latest = Len(versions[k])
    BY <1>3, <2>1, <2>2, <2>3
  <2> QED BY <1>5, <2>1, <2>4 DEF Number
<1> QED BY <1>4, <1>5

\* A request that appends one row to the ledger of phase k.
LEMMA WriteKeepsIInv ==
    ASSUME IInv, NEW r \in Requests, req[r].pc # "idle", Close(r),
           NEW k \in Phases, NEW row \in VersionRow,
           versions' = [Baselined(r) EXCEPT ![k] = Append(@, row)],
           row.number = Len(Baselined(r)[k]) + 1,
           row.lifecycle = "approved" =>
             \/ Signed(versions[k])
             \/ k # LastPhase /\ (k > 1 => Signed(versions[k - 1])),
           phase' \in [Phases -> PhaseRow],
           \A j \in Phases :
             /\ RowSound(phase'[j], j, versions')
             /\ phase'[j].current = IF Appended(j, versions') = 0
                                    THEN phase[j].current
                                    ELSE Appended(j, versions')
    PROVE  IInv'
<1> DEFINE b == Baselined(r)
<1>1. /\ b \in [Phases -> Seq(VersionRow)]
      /\ \A j \in Phases : /\ Numbered(b[j])
                           /\ Signed(b[j]) <=> Signed(versions[j])
                           /\ Len(b[j]) >= Len(versions[j])
                           /\ b[j] = versions[j] \/ Len(b[j]) > Len(versions[j])
  BY BaselinedFacts
<1>2. /\ Append(b[k], row) \in Seq(VersionRow)
      /\ Numbered(Append(b[k], row))
      /\ Len(Append(b[k], row)) = Len(b[k]) + 1
      /\ Signed(Append(b[k], row)) <=> Signed(b[k]) \/ row.lifecycle = "approved"
  BY <1>1, AppendRow
<1>3. versions' \in [Phases -> Seq(VersionRow)]
  BY <1>1, <1>2
<1>4. \A j \in Phases : Len(versions[j]) \in Nat /\ Len(b[j]) \in Nat
  BY <1>1 DEF IInv, TypeOK
<1>5. \A j \in Phases :
        /\ Numbered(versions'[j])
        /\ Len(versions'[j]) >= Len(versions[j])
        /\ versions'[j] = versions[j] \/ Len(versions'[j]) > Len(versions[j])
        /\ Signed(versions[j]) => Signed(versions'[j])
        /\ Signed(versions'[j]) =>
             Signed(versions[j]) \/ (j = k /\ row.lifecycle = "approved")
  <2> TAKE j \in Phases
  <2>1. CASE j = k
    <3>1. versions'[j] = Append(b[k], row)
      BY <1>1, <2>1
    <3> QED BY <1>1, <1>2, <1>4, <2>1, <3>1
  <2>2. CASE j # k
    <3>1. versions'[j] = b[j]
      BY <1>1, <2>2
    <3> QED BY <1>1, <1>4, <2>2, <3>1
  <2> QED BY <2>1, <2>2
<1>6. Grown(versions, versions')
  BY <1>5 DEF Grown
<1>7. Chained(versions')
  BY <1>5, PhaseFacts DEF IInv, Chained
<1>8. ASSUME NEW j \in Phases
      PROVE  phase'[j].current = Len(versions'[j])
  <2>1. Latest(versions'[j]) = Len(versions'[j]) /\ Len(versions'[j]) \in Nat
    BY <1>3, <1>5, LatestIsLen
  <2>2. phase[j].current = Len(versions[j])
    BY DEF IInv
  <2>3. CASE versions'[j] = versions[j]
    BY <2>2, <2>3 DEF Appended
  <2>4. CASE versions'[j] # versions[j]
    BY <1>4, <1>5, <2>1, <2>4 DEF Appended
  <2> QED BY <2>3, <2>4
<1> QED BY <1>3, <1>5, <1>6, <1>7, <1>8, CloseKeepsIInv

\* The rows a request leaves: sound, with current_version_number following.
LEMMA SavedRows ==
    ASSUME IInv, NEW j, j \in Phases, NEW loaded, loaded \in PhaseRow,
           NEW new, new \in PhaseRow,
           versions' \in [Phases -> Seq(VersionRow)],
           \A i \in Phases : Numbered(versions'[i]),
           Grown(versions, versions'),
           RowSound(new, j, versions')
    PROVE  /\ Saved(phase[j], loaded, new, Appended(j, versions')) \in PhaseRow
           /\ RowSound(Saved(phase[j], loaded, new, Appended(j, versions')),
                       j, versions')
           /\ Saved(phase[j], loaded, new, Appended(j, versions')).current =
                IF Appended(j, versions') = 0 THEN phase[j].current
                ELSE Appended(j, versions')
<1>1. Appended(j, versions') \in Nat
  BY LatestIsLen DEF Appended
<1>2. phase[j] \in PhaseRow
  BY DEF IInv, TypeOK
<1>3. RowSound(phase[j], j, versions')
  BY SoundGrows DEF IInv
<1> DEFINE n == Appended(j, versions')
<1> HIDE DEF n
<1>4. n \in Nat
  BY <1>1 DEF n
<1>5. /\ Saved(phase[j], loaded, new, n) \in PhaseRow
      /\ RowSound(Saved(phase[j], loaded, new, n), j, versions')
      /\ Saved(phase[j], loaded, new, n).current =
           IF n = 0 THEN phase[j].current ELSE n
  BY <1>2, <1>3, <1>4, SavedIsSound
<1> QED BY <1>5 DEF n

\* What the append of one row to phase k makes of the ledgers.
LEMMA AppendedLedgers ==
    ASSUME IInv, NEW r \in Requests, req[r].pc # "idle",
           NEW k \in Phases, NEW row \in VersionRow,
           versions' = [Baselined(r) EXCEPT ![k] = Append(@, row)],
           row.number = Len(Baselined(r)[k]) + 1
    PROVE  /\ versions' \in [Phases -> Seq(VersionRow)]
           /\ \A i \in Phases : Numbered(versions'[i])
           /\ Grown(versions, versions')
           /\ Appended(k, versions') # 0
           /\ row.lifecycle = "approved" => Signed(versions'[k])
<1> DEFINE b == Baselined(r)
<1>1. /\ b \in [Phases -> Seq(VersionRow)]
      /\ \A j \in Phases : /\ Numbered(b[j])
                           /\ Signed(b[j]) <=> Signed(versions[j])
                           /\ Len(b[j]) >= Len(versions[j])
  BY BaselinedFacts
<1>2. /\ Append(b[k], row) \in Seq(VersionRow)
      /\ Numbered(Append(b[k], row))
      /\ Len(Append(b[k], row)) = Len(b[k]) + 1
      /\ Latest(Append(b[k], row)) = Len(b[k]) + 1
      /\ Signed(Append(b[k], row)) <=> Signed(b[k]) \/ row.lifecycle = "approved"
  BY <1>1, AppendRow
<1>3. \A j \in Phases : Len(versions[j]) \in Nat /\ Len(b[j]) \in Nat
  BY <1>1 DEF IInv, TypeOK
<1>4. /\ versions'[k] = Append(b[k], row)
      /\ \A j \in Phases : j # k => versions'[j] = b[j]
      /\ versions' \in [Phases -> Seq(VersionRow)]
  BY <1>1, <1>2
<1>5. \A i \in Phases : Numbered(versions'[i])
  BY <1>1, <1>2, <1>4
<1>6. Grown(versions, versions')
  <2> SUFFICES ASSUME NEW j \in Phases
               PROVE  /\ Len(versions'[j]) >= Len(versions[j])
                      /\ Signed(versions[j]) => Signed(versions'[j])
    BY DEF Grown
  <2>1. CASE j = k
    BY <1>1, <1>2, <1>3, <1>4, <2>1
  <2>2. CASE j # k
    BY <1>1, <1>4, <2>2
  <2> QED BY <2>1, <2>2
<1>7. Appended(k, versions') # 0
  BY <1>1, <1>2, <1>3, <1>4 DEF Appended
<1> QED BY <1>2, <1>4, <1>5, <1>6, <1>7

LEMMA OpenKeepsIInv ==
    ASSUME IInv, NEW r \in Requests, EnsurePhaseBaselines(r)
    PROVE  IInv'
<1>1. req[r].pc # "idle" /\ Close(r) /\ versions' = Baselined(r)
  BY DEF EnsurePhaseBaselines, Writing
<1>2. /\ versions' \in [Phases -> Seq(VersionRow)]
      /\ \A k \in Phases :
           /\ Numbered(versions'[k])
           /\ Signed(versions'[k]) <=> Signed(versions[k])
           /\ Len(versions'[k]) >= Len(versions[k])
           /\ versions'[k] = versions[k] \/ Len(versions'[k]) > Len(versions[k])
  BY <1>1, BaselinedFacts
<1>3. Grown(versions, versions') /\ Chained(versions')
  BY <1>2, PhaseFacts DEF Grown, Chained, IInv
<1>4. ASSUME NEW j \in Phases
      PROVE  /\ phase'[j] \in PhaseRow
             /\ RowSound(phase'[j], j, versions')
             /\ phase'[j].current = Len(versions'[j])
  <2>1. phase'[j] = Saved(phase[j], phase[j], phase[j], Appended(j, versions'))
    BY DEF EnsurePhaseBaselines
  <2>2. phase[j] \in PhaseRow /\ RowSound(phase[j], j, versions')
    BY <1>3, SoundGrows DEF IInv, TypeOK
  <2>3. /\ phase'[j] \in PhaseRow /\ RowSound(phase'[j], j, versions')
        /\ phase'[j].current = IF Appended(j, versions') = 0
                               THEN phase[j].current ELSE Appended(j, versions')
    <3>1. \A i \in Phases : Numbered(versions'[i])
      BY <1>2
    <3> QED BY <1>2, <1>3, <2>1, <2>2, <3>1, SavedRows
  <2>4. Latest(versions'[j]) = Len(versions'[j]) /\ Len(versions'[j]) \in Nat
        /\ Len(versions[j]) \in Nat
    BY <1>2, LatestIsLen DEF IInv, TypeOK
  <2>5. phase[j].current = Len(versions[j])
    BY DEF IInv
  <2> QED BY <1>2, <2>3, <2>4, <2>5 DEF Appended
<1>5. phase' \in [Phases -> PhaseRow]
  BY <1>4 DEF EnsurePhaseBaselines
<1> QED BY <1>1, <1>2, <1>3, <1>4, <1>5, CloseKeepsIInv

LEMMA PersistKeepsIInv ==
    ASSUME IInv, NEW r \in Requests, PersistPhaseOneVersion(r)
    PROVE  IInv'
<1> DEFINE seen == req[r].seen
           generated == req[r].op = "generate"
<1>1. /\ req[r].pc # "idle" /\ Close(r) /\ req[r].k = 1 /\ req[r].first = 0
      /\ req[r] \in RequestState
  BY DEF PersistPhaseOneVersion, Writing, IInv, TypeOK, RequestSound
<1>2. Baselined(r) = versions
  BY <1>1, BaselinedFacts
<1>3. PICK state \in {"ready_for_review", "needs_revision"} :
        LET new == [seen[1] EXCEPT !.lifecycle = state, !.locked = FALSE,
                                   !.stale = FALSE]
            row == Row(Number(r, versions[1]),
                       IF generated THEN "generated" ELSE "revision",
                       state, req[r].expected)
            saved == Saved(phase[1], seen[1], new, row.number)
        IN /\ versions' = [versions EXCEPT ![1] = Append(@, row)]
           /\ phase' = [k \in Phases |->
                          IF k # 1 THEN LockDownstream(phase[k], seen[k])
                          ELSE IF generated
                               THEN [saved EXCEPT !.lifecycle = state]
                               ELSE saved]
  BY DEF PersistPhaseOneVersion
<1> DEFINE new == [seen[1] EXCEPT !.lifecycle = state, !.locked = FALSE,
                                  !.stale = FALSE]
           row == Row(Number(r, versions[1]),
                      IF generated THEN "generated" ELSE "revision",
                      state, req[r].expected)
           saved == Saved(phase[1], seen[1], new, row.number)
<1>4. row.number = Len(Baselined(r)[1]) + 1 /\ row.lifecycle = state
  BY <1>1, <1>2, NumberIsNext DEF Row
<1>5. Len(versions[1]) \in Nat /\ 1 \in Phases
  BY PhaseFacts DEF IInv, TypeOK
<1>6. row \in VersionRow
  BY <1>1, <1>2, <1>4, <1>5 DEF Row, VersionRow, Sources, Lifecycle, RequestState
<1>7. versions' = [Baselined(r) EXCEPT ![1] = Append(@, row)]
  BY <1>2, <1>3
<1>8. /\ versions' \in [Phases -> Seq(VersionRow)]
      /\ \A i \in Phases : Numbered(versions'[i])
      /\ Grown(versions, versions')
      /\ Appended(1, versions') # 0
  BY <1>1, <1>4, <1>5, <1>6, <1>7, AppendedLedgers
<1>9. \A j \in Phases : /\ seen[j] \in PhaseRow /\ phase[j] \in PhaseRow
                        /\ RowSound(seen[j], j, versions')
                        /\ RowSound(phase[j], j, versions')
  <2> TAKE j \in Phases
  <2>1. seen[j] \in PhaseRow /\ phase[j] \in PhaseRow
    BY <1>1 DEF RequestState, IInv, TypeOK
  <2>2. RowSound(seen[j], j, versions) /\ RowSound(phase[j], j, versions)
    BY <1>1 DEF RequestSound, IInv
  <2> QED BY <1>8, <2>1, <2>2, SoundGrows
<1>10. ASSUME NEW j \in Phases, j # 1
       PROVE  /\ phase'[j] \in PhaseRow
              /\ RowSound(phase'[j], j, versions')
              /\ phase'[j].current = IF Appended(j, versions') = 0
                                     THEN phase[j].current
                                     ELSE Appended(j, versions')
  <2> DEFINE locked == [seen[j] EXCEPT !.locked = TRUE,
                                       !.stale = @ \/ seen[j].current # 0]
  <2>1. phase'[j] = Saved(phase[j], seen[j], locked, 0)
    BY <1>3, <1>10 DEF LockDownstream
  <2>2. locked \in PhaseRow /\ RowSound(locked, j, versions')
    BY <1>9 DEF PhaseRow, RowSound
  <2>3. Appended(j, versions') = 0
    BY <1>3, <1>10, <1>5 DEF Appended, IInv, TypeOK
  <2> QED BY <1>9, <2>1, <2>2, <2>3, SavedIsSound
<1>11. /\ phase'[1] \in PhaseRow
       /\ RowSound(phase'[1], 1, versions')
       /\ phase'[1].current = Appended(1, versions')
  <2>1. phase'[1] = IF generated THEN [saved EXCEPT !.lifecycle = state] ELSE saved
    BY <1>3, <1>5
  <2>2. new \in PhaseRow /\ RowSound(new, 1, versions')
    <3>1. seen[1] \in PhaseRow
      BY <1>9, <1>5
    <3> QED BY <3>1, PhaseFacts DEF PhaseRow, RowSound, Lifecycle
  <2>3. row.number \in Nat /\ row.number # 0
    BY <1>2, <1>4, <1>5
  <2> DEFINE n == row.number
  <2> HIDE DEF new, n
  <2>4. /\ Saved(phase[1], seen[1], new, n) \in PhaseRow
        /\ RowSound(Saved(phase[1], seen[1], new, n), 1, versions')
        /\ Saved(phase[1], seen[1], new, n).current = n
    <3>1. n \in Nat /\ n # 0
      BY <2>3 DEF n
    <3>2. /\ phase[1] \in PhaseRow /\ seen[1] \in PhaseRow
          /\ RowSound(phase[1], 1, versions')
      BY <1>5, <1>9
    <3> DEFINE now == phase[1]
               loaded == seen[1]
    <3> HIDE DEF now, loaded
    <3>3. now \in PhaseRow /\ loaded \in PhaseRow /\ RowSound(now, 1, versions')
      BY <3>2 DEF now, loaded
    <3>4. /\ Saved(now, loaded, new, n) \in PhaseRow
          /\ RowSound(Saved(now, loaded, new, n), 1, versions')
          /\ Saved(now, loaded, new, n).current =
               IF n = 0 THEN now.current ELSE n
      BY <1>5, <2>2, <3>1, <3>3, SavedIsSound
    <3> QED BY <3>1, <3>4 DEF now, loaded
  <2>7. saved = Saved(phase[1], seen[1], new, n)
    BY DEF n
  <2>5. Appended(1, versions') = row.number
    <3>1. Latest(versions'[1]) = Len(versions'[1])
      BY <1>5, <1>8, LatestIsLen
    <3>2. versions'[1] = Append(versions[1], row)
      BY <1>3, <1>5 DEF IInv, TypeOK
    <3>3. Len(versions'[1]) = Len(versions[1]) + 1
      BY <1>5, <1>6, <3>2 DEF IInv, TypeOK
    <3> QED BY <1>2, <1>4, <1>8, <3>1, <3>3 DEF Appended
  <2>6. [saved EXCEPT !.lifecycle = state] \in PhaseRow
        /\ RowSound([saved EXCEPT !.lifecycle = state], 1, versions')
        /\ [saved EXCEPT !.lifecycle = state].current = saved.current
    <3> DEFINE u == Saved(phase[1], seen[1], new, n)
    <3> HIDE DEF u
    <3>1. u \in PhaseRow /\ RowSound(u, 1, versions')
      BY <2>4 DEF u
    <3>2. /\ [u EXCEPT !.lifecycle = state] \in PhaseRow
          /\ RowSound([u EXCEPT !.lifecycle = state], 1, versions')
          /\ [u EXCEPT !.lifecycle = state].current = u.current
      BY <3>1, PhaseFacts DEF PhaseRow, RowSound, Lifecycle
    <3> QED BY <2>7, <3>2 DEF u
  <2> QED BY <2>1, <2>4, <2>5, <2>6, <2>7 DEF n
<1>12. phase' \in [Phases -> PhaseRow]
  BY <1>3, <1>10, <1>11
<1>13. \A j \in Phases :
         /\ RowSound(phase'[j], j, versions')
         /\ phase'[j].current = IF Appended(j, versions') = 0
                                THEN phase[j].current
                                ELSE Appended(j, versions')
  BY <1>8, <1>10, <1>11
<1>14. row.lifecycle # "approved"
  BY <1>4
<1> HIDE DEF row, new, saved, seen
<1> QED
  BY <1>1, <1>4, <1>5, <1>6, <1>7, <1>12, <1>13, <1>14, WriteKeepsIInv

\* A request that appends a row to phase k and saves rows of its session.
LEMMA AppendKeepsIInv ==
    ASSUME IInv, NEW r \in Requests, req[r].pc # "idle", Close(r),
           NEW k \in Phases, NEW row \in VersionRow,
           versions' = [Baselined(r) EXCEPT ![k] = Append(@, row)],
           row.number = Len(Baselined(r)[k]) + 1,
           row.lifecycle = "approved" =>
             \/ Signed(versions[k])
             \/ k # LastPhase /\ (k > 1 => Signed(versions[k - 1])),
           phase' \in [Phases -> PhaseRow],
           \A j \in Phases : \E loaded, new \in PhaseRow :
             LET saved == Saved(phase[j], loaded, new, Appended(j, versions'))
             IN /\ RowSound(new, j, versions')
                /\ phase'[j] \in {saved, [saved EXCEPT !.approvedAt = TRUE]}
    PROVE  IInv'
<1>1. /\ versions' \in [Phases -> Seq(VersionRow)]
      /\ \A i \in Phases : Numbered(versions'[i])
      /\ Grown(versions, versions')
  BY AppendedLedgers
<1>2. ASSUME NEW j \in Phases
      PROVE  /\ RowSound(phase'[j], j, versions')
             /\ phase'[j].current = IF Appended(j, versions') = 0
                                    THEN phase[j].current
                                    ELSE Appended(j, versions')
  <2>1. PICK loaded \in PhaseRow, new \in PhaseRow :
          LET saved == Saved(phase[j], loaded, new, Appended(j, versions'))
          IN /\ RowSound(new, j, versions')
             /\ phase'[j] \in {saved, [saved EXCEPT !.approvedAt = TRUE]}
    OBVIOUS
  <2> DEFINE saved == Saved(phase[j], loaded, new, Appended(j, versions'))
  <2>2. /\ saved \in PhaseRow /\ RowSound(saved, j, versions')
        /\ saved.current = IF Appended(j, versions') = 0
                           THEN phase[j].current ELSE Appended(j, versions')
    BY <1>1, <2>1, SavedRows
  <2>3. phase'[j] \in {saved, [saved EXCEPT !.approvedAt = TRUE]}
    BY <2>1
  <2> HIDE DEF saved
  <2> QED BY <2>2, <2>3 DEF PhaseRow, RowSound
<1> QED BY <1>2, WriteKeepsIInv

\* The rows an append did not touch are saved as they are.
LEMMA OtherRows ==
    ASSUME IInv, NEW j \in Phases, Grown(versions, versions')
    PROVE  phase[j] \in PhaseRow /\ RowSound(phase[j], j, versions')
  BY SoundGrows DEF IInv, TypeOK

\* What a request that is writing has loaded, reloaded or not.
LEMMA LoadedSound ==
    ASSUME IInv, NEW r \in Requests, req[r].pc # "idle", NEW reload \in BOOLEAN,
           NEW vs, Grown(versions, vs)
    PROVE  /\ Loaded(r, reload) \in [Phases -> PhaseRow]
           /\ \A j \in Phases : /\ RowSound(Loaded(r, reload)[j], j, versions)
                                /\ RowSound(Loaded(r, reload)[j], j, vs)
<1>1. /\ phase \in [Phases -> PhaseRow]
      /\ \A j \in Phases : RowSound(phase[j], j, versions)
  BY DEF IInv, TypeOK
<1>2. /\ req[r].seen \in [Phases -> PhaseRow]
      /\ \A j \in Phases : RowSound(req[r].seen[j], j, versions)
  BY DEF IInv, TypeOK, RequestState, RequestSound
<1> DEFINE rows == Loaded(r, reload)
<1>3. /\ rows \in [Phases -> PhaseRow]
      /\ \A j \in Phases : RowSound(rows[j], j, versions)
  BY <1>1, <1>2 DEF Loaded
<1> HIDE DEF rows
<1>4. \A j \in Phases : RowSound(rows[j], j, vs)
  BY <1>3, SoundGrows
<1> QED BY <1>3, <1>4 DEF rows

LEMMA CreateKeepsIInv ==
    ASSUME IInv, NEW r \in Requests, CreatePhaseVersion(r)
    PROVE  IInv'
<1> DEFINE k == req[r].k
           based == Baselined(r)
<1>1. /\ req[r].pc # "idle" /\ Close(r) /\ req[r] \in RequestState
      /\ k \in Phases
  BY DEF CreatePhaseVersion, Writing, IInv, TypeOK, RequestState
<1>2. PICK reload \in Reloads(r) :
        LET before == Loaded(r, reload)[k]
            state == IF before.lifecycle = "not_started" THEN "drafting"
                     ELSE before.lifecycle
            loaded == IF Collides(r) THEN phase[k] ELSE before
        IN /\ versions' = [based EXCEPT ![k] =
                             Append(@, Row(Number(r, @), "manual", state, 0))]
           /\ phase' = [j \in Phases |->
                 IF j = k
                 THEN Saved(phase[k], loaded, WithState(loaded, state),
                            Appended(k, versions'))
                 ELSE Saved(phase[j], phase[j], phase[j],
                            Appended(j, versions'))]
  BY DEF CreatePhaseVersion
<1> DEFINE before == Loaded(r, reload)[k]
           state == IF before.lifecycle = "not_started" THEN "drafting"
                    ELSE before.lifecycle
           loaded == IF Collides(r) THEN phase[k] ELSE before
           row == Row(Number(r, based[k]), "manual", state, 0)
<1>3. reload \in BOOLEAN
  BY DEF Reloads
<1>4. \A j \in Phases : Len(versions[j]) \in Nat
  BY DEF IInv, TypeOK
<1>5. Grown(versions, versions)
  BY <1>4 DEF Grown
<1>6. before \in PhaseRow /\ RowSound(before, k, versions)
  BY <1>1, <1>3, <1>5, LoadedSound
<1>7. based \in [Phases -> Seq(VersionRow)] /\ Len(based[k]) \in Nat
  BY <1>1, BaselinedFacts
<1>8. /\ row \in VersionRow /\ row.number = Len(based[k]) + 1
      /\ row.lifecycle = "approved" => Signed(versions[k])
  <2>1. Number(r, based[k]) = Len(based[k]) + 1
    BY <1>1, NumberIsNext
  <2>2. state \in Lifecycle /\ (state = "approved" => Signed(versions[k]))
    BY <1>6 DEF PhaseRow, Lifecycle, RowSound
  <2> QED BY <1>7, <2>1, <2>2 DEF Row, VersionRow, Sources
<1>9. versions' = [based EXCEPT ![k] = Append(@, row)]
  BY <1>1, <1>2, <1>7
<1>10. /\ versions' \in [Phases -> Seq(VersionRow)]
       /\ \A i \in Phases : Numbered(versions'[i])
       /\ Grown(versions, versions')
  BY <1>1, <1>8, <1>9, AppendedLedgers
<1>11. /\ loaded \in PhaseRow /\ WithState(loaded, state) \in PhaseRow
       /\ RowSound(WithState(loaded, state), k, versions')
  <2>1. /\ loaded \in PhaseRow /\ RowSound(loaded, k, versions)
    BY <1>1, <1>6 DEF IInv, TypeOK
  <2>2. RowSound(before, k, versions') /\ RowSound(loaded, k, versions')
    BY <1>1, <1>6, <1>10, <2>1, SoundGrows
  <2> QED BY <1>6, <2>1, <2>2 DEF WithState, PhaseRow, Lifecycle, RowSound
<1>12. \A j \in Phases : \E was, new \in PhaseRow :
         LET saved == Saved(phase[j], was, new, Appended(j, versions'))
         IN /\ RowSound(new, j, versions')
            /\ phase'[j] \in {saved, [saved EXCEPT !.approvedAt = TRUE]}
  <2> TAKE j \in Phases
  <2>1. CASE j = k
    BY <1>2, <1>11, <2>1
  <2>2. CASE j # k
    <3>1. phase[j] \in PhaseRow /\ RowSound(phase[j], j, versions')
      BY <1>10, OtherRows
    <3> QED BY <1>2, <2>2, <3>1
  <2> QED BY <2>1, <2>2
<1>13. phase' \in [Phases -> PhaseRow]
  <2>1. ASSUME NEW j \in Phases PROVE phase'[j] \in PhaseRow
    <3>1. phase[j] \in PhaseRow /\ RowSound(phase[j], j, versions')
      BY <1>10, OtherRows
    <3>2. CASE j = k
      BY <1>2, <1>10, <1>11, <3>2, SavedRows
    <3>3. CASE j # k
      BY <1>2, <1>10, <3>1, <3>3, SavedRows
    <3> QED BY <3>2, <3>3
  <2> QED BY <1>2, <2>1
<1> HIDE DEF row, based
<1> QED BY <1>1, <1>8, <1>9, <1>12, <1>13, AppendKeepsIInv DEF based

LEMMA IterateKeepsIInv ==
    ASSUME IInv, NEW r \in Requests, RetainGeneratedPlanningPhase(r)
    PROVE  IInv'
<1> DEFINE k == req[r].k
           based == Baselined(r)
           row == Row(Number(r, based[k]), "generated", "ready_for_review", 0)
<1>1. /\ req[r].pc # "idle" /\ Close(r) /\ req[r] \in RequestState
      /\ req[r].op = "iterate" /\ k \in Phases
  BY DEF RetainGeneratedPlanningPhase, Writing, IInv, TypeOK, RequestState
<1>2. PICK reload \in Reloads(r) :
        LET seen == IF Collides(r) THEN phase ELSE Loaded(r, reload)
            new == [seen[k] EXCEPT !.lifecycle = "ready_for_review",
                                   !.approvedAt = FALSE, !.locked = FALSE,
                                   !.stale = FALSE]
        IN /\ versions' = [based EXCEPT ![k] =
                  Append(@, Row(Number(r, @), "generated",
                                "ready_for_review", 0))]
           /\ phase' = [j \in Phases |->
                LET n == Appended(j, versions')
                IN CASE j = k -> Saved(phase[k], seen[k], new, n)
                     [] j > k -> Saved(phase[j], seen[j],
                                       [seen[j] EXCEPT !.locked = TRUE,
                                                       !.stale = TRUE], n)
                     [] OTHER -> Saved(phase[j], phase[j], phase[j], n)]
  BY DEF RetainGeneratedPlanningPhase
<1> DEFINE seen == IF Collides(r) THEN phase ELSE Loaded(r, reload)
           new == [seen[k] EXCEPT !.lifecycle = "ready_for_review",
                                  !.approvedAt = FALSE, !.locked = FALSE,
                                  !.stale = FALSE]
<1>3. reload \in BOOLEAN
  BY DEF Reloads
<1>4. based \in [Phases -> Seq(VersionRow)] /\ Len(based[k]) \in Nat
  BY <1>1, BaselinedFacts
<1>5. /\ row \in VersionRow /\ row.number = Len(based[k]) + 1
      /\ row.lifecycle = "ready_for_review"
  BY <1>1, <1>4, NumberIsNext DEF Row, VersionRow, Sources, Lifecycle
<1>6. versions' = [based EXCEPT ![k] = Append(@, row)]
  BY <1>1, <1>2, <1>4
<1>7. /\ versions' \in [Phases -> Seq(VersionRow)]
      /\ \A i \in Phases : Numbered(versions'[i])
      /\ Grown(versions, versions')
  BY <1>1, <1>5, <1>6, AppendedLedgers
<1>8. \A j \in Phases : seen[j] \in PhaseRow /\ RowSound(seen[j], j, versions')
  <2>1. CASE Collides(r)
    BY <1>7, <2>1, OtherRows
  <2>2. CASE ~Collides(r)
    BY <1>1, <1>3, <1>7, <2>2, LoadedSound
  <2> QED BY <2>1, <2>2
<1>9. new \in PhaseRow /\ RowSound(new, k, versions')
  <2>1. k # LastPhase /\ k > 1 /\ k - 1 \in Phases /\ Signed(versions[k - 1])
    BY <1>1, PhaseFacts DEF IInv, RequestSound
  <2>2. Signed(versions'[k - 1])
    BY <1>7, <2>1 DEF Grown
  <2>3. seen[k] \in PhaseRow
    BY <1>1, <1>8
  <2> QED BY <2>1, <2>2, <2>3 DEF PhaseRow, RowSound, Lifecycle
<1>10. ASSUME NEW j \in Phases
       PROVE  \E was, now \in PhaseRow :
                /\ RowSound(now, j, versions')
                /\ phase'[j] = Saved(phase[j], was, now, Appended(j, versions'))
  <2>1. CASE j = k
    <3>1. phase'[j] = Saved(phase[k], seen[k], new, Appended(k, versions'))
      <4> HIDE DEF k, seen, new
      <4>1. k \in Int /\ ~(k > k)
        <5>1. k \in Phases /\ Phases \subseteq Int
          BY <1>1, PhaseFacts
        <5> QED BY <5>1
      <4> QED BY <1>2, <1>1, <2>1, <4>1 DEF seen, new
    <3>2. seen[k] \in PhaseRow
      BY <1>1, <1>8
    <3> QED BY <1>9, <2>1, <3>1, <3>2
  <2>2. CASE j > k /\ j # k
    <3> DEFINE stale == [seen[j] EXCEPT !.locked = TRUE, !.stale = TRUE]
    <3>1. stale \in PhaseRow /\ RowSound(stale, j, versions')
      <4>1. seen[j] \in PhaseRow /\ RowSound(seen[j], j, versions')
        BY <1>8
      <4> QED BY <4>1 DEF PhaseRow, RowSound
    <3>2. phase'[j] = Saved(phase[j], seen[j], stale, Appended(j, versions'))
      BY <1>2, <2>2
    <3> QED BY <1>8, <3>1, <3>2
  <2>3. CASE ~(j > k) /\ j # k
    <3>1. phase[j] \in PhaseRow /\ RowSound(phase[j], j, versions')
      BY <1>7, OtherRows
    <3> QED BY <1>2, <2>3, <3>1
  <2> QED BY <2>1, <2>2, <2>3
<1>11. phase' \in [Phases -> PhaseRow]
  <2>1. \A j \in Phases : phase'[j] \in PhaseRow
    BY <1>7, <1>10, SavedRows
  <2> QED BY <1>2, <2>1
<1>12. row.lifecycle # "approved"
  BY <1>5
<1>13. \A j \in Phases : \E was, now \in PhaseRow :
         LET saved == Saved(phase[j], was, now, Appended(j, versions'))
         IN /\ RowSound(now, j, versions')
            /\ phase'[j] \in {saved, [saved EXCEPT !.approvedAt = TRUE]}
  BY <1>10
<1> HIDE DEF row, based
<1> QED BY <1>1, <1>5, <1>6, <1>11, <1>12, <1>13, AppendKeepsIInv DEF based

LEMMA ApproveKeepsIInv ==
    ASSUME IInv, NEW r \in Requests, ApprovePhase(r)
    PROVE  IInv'
<1> DEFINE k == req[r].k
           based == Baselined(r)
           row == ApprovalRow(r, based[k])
<1>1. /\ req[r].pc # "idle" /\ req[r] \in RequestState
      /\ req[r].op = "approve" /\ k \in Phases
      /\ k # LastPhase /\ (k > 1 => Signed(versions[k - 1]))
  BY DEF ApprovePhase, Writing, IInv, TypeOK, RequestState, RequestSound
<1>2. PICK reload \in Reloads(r) :
        LET seen == Loaded(r, reload)
        IN \/ Refuse(r)
           \/ /\ versions' = [based EXCEPT ![k] = Append(@, ApprovalRow(r, @))]
              /\ phase' = [j \in Phases |->
                   LET n == Appended(j, versions')
                   IN CASE j = k ->
                            [Saved(phase[k], seen[k], ApprovedRow(seen[k]), n)
                               EXCEPT !.approvedAt = TRUE]
                        [] j = k + 1 ->
                            Saved(phase[j], seen[j], Unlocked(seen[j], j), n)
                        [] OTHER -> Saved(phase[j], phase[j], phase[j], n)]
              /\ Close(r)
  BY DEF ApprovePhase
<1> DEFINE seen == Loaded(r, reload)
<1>3. CASE Refuse(r)
  BY <1>3, RefuseKeepsIInv
<1>4. CASE ~Refuse(r)
  <2>1. reload \in BOOLEAN
    BY DEF Reloads
  <2>2. based \in [Phases -> Seq(VersionRow)] /\ Len(based[k]) \in Nat
    BY <1>1, BaselinedFacts
  <2>3. /\ row \in VersionRow /\ row.number = Len(based[k]) + 1
        /\ row.lifecycle = "approved"
    BY <1>1, <2>2, NumberIsNext
       DEF ApprovalRow, Row, VersionRow, Sources, Lifecycle
  <2>4. versions' = [based EXCEPT ![k] = Append(@, row)]
    BY <1>1, <1>2, <1>4, <2>2
  <2>5. /\ versions' \in [Phases -> Seq(VersionRow)]
        /\ \A i \in Phases : Numbered(versions'[i])
        /\ Grown(versions, versions')
        /\ Signed(versions'[k])
    BY <1>1, <2>3, <2>4, AppendedLedgers
  <2>6. \A j \in Phases : seen[j] \in PhaseRow /\ RowSound(seen[j], j, versions')
    BY <1>1, <2>1, <2>5, LoadedSound
  <2>7. ApprovedRow(seen[k]) \in PhaseRow
        /\ RowSound(ApprovedRow(seen[k]), k, versions')
    <3>1. k \in PlanningPhases => Signed(versions'[k - 1])
      BY <1>1, <2>5, PhaseFacts DEF Grown
    <3>2. seen[k] \in PhaseRow
      BY <1>1, <2>6
    <3> QED BY <1>1, <2>5, <3>1, <3>2
            DEF ApprovedRow, PhaseRow, RowSound, Lifecycle
  <2>8. ASSUME NEW j \in Phases, j = k + 1
        PROVE  Unlocked(seen[j], j) \in PhaseRow
               /\ RowSound(Unlocked(seen[j], j), j, versions')
    <3>1. seen[j] \in PhaseRow /\ RowSound(seen[j], j, versions')
      BY <2>6
    <3>2. j - 1 = k
      BY <2>8, <1>1, PhaseFacts
    <3> QED BY <2>5, <3>1, <3>2
            DEF Unlocked, WithState, PhaseRow, RowSound, Lifecycle
  <2>9. ASSUME NEW j \in Phases
        PROVE  \E was, new \in PhaseRow :
          LET saved == Saved(phase[j], was, new, Appended(j, versions'))
          IN /\ RowSound(new, j, versions')
             /\ phase'[j] \in {saved, [saved EXCEPT !.approvedAt = TRUE]}
    <3>1. CASE j = k
      <4>1. phase'[j] = [Saved(phase[k], seen[k], ApprovedRow(seen[k]),
                               Appended(k, versions'))
                           EXCEPT !.approvedAt = TRUE]
        <5> HIDE DEF k, seen
        <5>1. k \in Int /\ k # k + 1
          <6>1. k \in Phases /\ Phases \subseteq Int
            BY <1>1, PhaseFacts
          <6> QED BY <6>1
        <5> QED BY <1>1, <1>2, <1>4, <3>1, <5>1 DEF seen
      <4>2. seen[k] \in PhaseRow
        BY <1>1, <2>6
      <4> QED BY <2>7, <3>1, <4>1, <4>2
    <3>2. CASE j = k + 1 /\ j # k
      BY <1>2, <1>4, <2>6, <2>8, <3>2
    <3>3. CASE j # k /\ j # k + 1
      <4>1. phase[j] \in PhaseRow /\ RowSound(phase[j], j, versions')
        BY <2>5, OtherRows
      <4> QED BY <1>2, <1>4, <3>3, <4>1
    <3> QED BY <3>1, <3>2, <3>3
  <2>10. phase' \in [Phases -> PhaseRow]
    <3>1. ASSUME NEW j \in Phases PROVE phase'[j] \in PhaseRow
      <4>1. PICK was \in PhaseRow, new \in PhaseRow :
              LET saved == Saved(phase[j], was, new, Appended(j, versions'))
              IN /\ RowSound(new, j, versions')
                 /\ phase'[j] \in {saved, [saved EXCEPT !.approvedAt = TRUE]}
        BY <2>9
      <4> DEFINE saved == Saved(phase[j], was, new, Appended(j, versions'))
      <4>2. saved \in PhaseRow
        BY <2>5, <4>1, SavedRows
      <4>3. phase'[j] \in {saved, [saved EXCEPT !.approvedAt = TRUE]}
        BY <4>1
      <4> HIDE DEF saved
      <4> QED BY <4>2, <4>3 DEF PhaseRow
    <3> QED BY <1>2, <1>4, <3>1
  <2>11. Close(r)
    BY <1>2, <1>4
  <2> HIDE DEF row, based
  <2> QED BY <1>1, <2>3, <2>4, <2>9, <2>10, <2>11, AppendKeepsIInv DEF based
<1> QED BY <1>3, <1>4

LEMMA RollbackKeepsIInv ==
    ASSUME IInv, NEW r \in Requests, ApproveAfterRollback(r)
    PROVE  IInv'
<1> DEFINE k == req[r].k
           row == ApprovalRow(r, versions[k])
<1>1. /\ req[r].pc # "idle" /\ Close(r) /\ req[r] \in RequestState
      /\ req[r].first = 0 /\ k \in Phases
      /\ k # LastPhase /\ (k > 1 => Signed(versions[k - 1]))
      /\ Baselined(r) = versions
  <2>1. req[r].pc # "idle" /\ req[r].first = 0
    BY DEF ApproveAfterRollback, Writing, Collides
  <2> QED BY <2>1, BaselinedFacts
          DEF ApproveAfterRollback, Writing, IInv, TypeOK, RequestState,
              RequestSound
<1>2. /\ versions' = [versions EXCEPT ![k] = Append(@, ApprovalRow(r, @))]
      /\ phase' = [j \in Phases |->
           CASE j = k -> Saved(phase[k], phase[k],
                               WithState(phase[k], "approved"),
                               Appended(k, versions'))
             [] j = k + 1 -> Unlocked(phase[j], j)
             [] OTHER -> phase[j]]
  BY DEF ApproveAfterRollback
<1>3. versions \in [Phases -> Seq(VersionRow)] /\ Len(versions[k]) \in Nat
  BY <1>1 DEF IInv, TypeOK
<1>4. /\ row \in VersionRow /\ row.number = Len(versions[k]) + 1
      /\ row.lifecycle = "approved"
  BY <1>1, <1>3, NumberIsNext
     DEF ApprovalRow, Row, VersionRow, Sources, Lifecycle
<1>5. versions' = [Baselined(r) EXCEPT ![k] = Append(@, row)]
  BY <1>1, <1>2, <1>3
<1>6. /\ versions' \in [Phases -> Seq(VersionRow)]
      /\ \A i \in Phases : Numbered(versions'[i])
      /\ Grown(versions, versions')
      /\ Signed(versions'[k])
  BY <1>1, <1>4, <1>5, AppendedLedgers
<1>7. ASSUME NEW j \in Phases
      PROVE  /\ phase'[j] \in PhaseRow
             /\ RowSound(phase'[j], j, versions')
             /\ phase'[j].current = IF Appended(j, versions') = 0
                                    THEN phase[j].current
                                    ELSE Appended(j, versions')
  <2>1. phase[j] \in PhaseRow /\ RowSound(phase[j], j, versions')
    BY <1>6, OtherRows
  <2>2. j # k => Appended(j, versions') = 0
    BY <1>2, <1>3 DEF Appended
  <2>3. CASE j = k
    <3> DEFINE new == WithState(phase[k], "approved")
    <3>1. new \in PhaseRow /\ RowSound(new, k, versions')
      BY <1>1, <1>6, <2>1, <2>3 DEF WithState, PhaseRow, Lifecycle, RowSound
    <3>2. phase'[k] = Saved(phase[k], phase[k], new, Appended(k, versions'))
      BY <1>1, <1>2, PhaseFacts
    <3> HIDE DEF new
    <3> HIDE DEF k
    <3>3. phase[k] \in PhaseRow
      BY <2>1, <2>3
    <3>4. /\ Saved(phase[k], phase[k], new, Appended(k, versions')) \in PhaseRow
          /\ RowSound(Saved(phase[k], phase[k], new, Appended(k, versions')),
                      k, versions')
          /\ Saved(phase[k], phase[k], new, Appended(k, versions')).current =
               IF Appended(k, versions') = 0 THEN phase[k].current
               ELSE Appended(k, versions')
      BY <1>1, <1>6, <3>1, <3>3, SavedRows
    <3> QED BY <2>3, <3>2, <3>4
  <2>4. CASE j = k + 1 /\ j # k
    <3>1. j - 1 = k
      <4>1. k \in Nat
        BY <1>1, PhaseFacts
      <4> QED BY <2>4, <4>1
    <3>2. phase'[j] = Unlocked(phase[j], j)
      BY <1>2, <2>4
    <3>3. Unlocked(phase[j], j) \in PhaseRow
          /\ RowSound(Unlocked(phase[j], j), j, versions')
          /\ Unlocked(phase[j], j).current = phase[j].current
      BY <1>6, <2>1, <3>1
         DEF Unlocked, WithState, PhaseRow, RowSound, Lifecycle
    <3> QED BY <2>2, <2>4, <3>2, <3>3
  <2>5. CASE j # k /\ j # k + 1
    BY <1>2, <2>1, <2>2, <2>5
  <2> QED BY <2>3, <2>4, <2>5
<1>8. phase' \in [Phases -> PhaseRow]
  BY <1>2, <1>7
<1> HIDE DEF row
<1> QED BY <1>1, <1>4, <1>5, <1>7, <1>8, WriteKeepsIInv

LEMMA PrepareKeepsIInv ==
    ASSUME IInv, NEW r \in Requests, PrepareImages(r)
    PROVE  IInv'
<1> DEFINE seen == req[r].seen
           image == [seen[ImagePhase] EXCEPT !.lifecycle = "drafting",
                                             !.approvedAt = FALSE,
                                             !.stale = TRUE, !.locked = FALSE]
           video == [seen[VideoPhase] EXCEPT !.locked = FALSE]
<1>1. /\ req[r].pc # "idle" /\ Close(r) /\ versions' = versions
      /\ phase' = [phase EXCEPT
                     ![ImagePhase] = Saved(@, seen[ImagePhase], image, 0),
                     ![VideoPhase] = Saved(@, seen[VideoPhase], video, 0)]
  BY DEF PrepareImages, Writing
<1>2. /\ phase \in [Phases -> PhaseRow]
      /\ \A j \in Phases : /\ seen[j] \in PhaseRow
                           /\ RowSound(phase[j], j, versions)
                           /\ RowSound(seen[j], j, versions)
  BY <1>1 DEF IInv, TypeOK, RequestState, RequestSound
<1>3. /\ image \in PhaseRow /\ RowSound(image, ImagePhase, versions)
      /\ seen[ImagePhase] \in PhaseRow /\ phase[ImagePhase] \in PhaseRow
      /\ RowSound(phase[ImagePhase], ImagePhase, versions)
  <2>1. seen[ImagePhase] \in PhaseRow
    BY <1>2, PhaseFacts
  <2> QED BY <1>2, <2>1, PhaseFacts DEF PhaseRow, RowSound, Lifecycle
<1>4. /\ video \in PhaseRow /\ RowSound(video, VideoPhase, versions)
      /\ seen[VideoPhase] \in PhaseRow /\ phase[VideoPhase] \in PhaseRow
      /\ RowSound(phase[VideoPhase], VideoPhase, versions)
  <2>1. seen[VideoPhase] \in PhaseRow
        /\ RowSound(seen[VideoPhase], VideoPhase, versions)
    BY <1>2, PhaseFacts
  <2> QED BY <1>2, <2>1, PhaseFacts DEF PhaseRow, RowSound
<1> HIDE DEF seen, image, video
<1>5. /\ phase'[ImagePhase] =
           Saved(phase[ImagePhase], seen[ImagePhase], image, 0)
      /\ phase'[VideoPhase] =
           Saved(phase[VideoPhase], seen[VideoPhase], video, 0)
      /\ \A j \in Phases \ {ImagePhase, VideoPhase} : phase'[j] = phase[j]
      /\ DOMAIN phase' = Phases /\ phase' = [j \in Phases |-> phase'[j]]
  BY <1>1, <1>2, PhaseFacts
<1>6. /\ phase'[ImagePhase] \in PhaseRow
      /\ RowSound(phase'[ImagePhase], ImagePhase, versions)
      /\ phase'[ImagePhase].current = phase[ImagePhase].current
  <2> DEFINE saved == Saved(phase[ImagePhase], seen[ImagePhase], image, 0)
  <2>1. /\ saved \in PhaseRow
        /\ RowSound(saved, ImagePhase, versions)
        /\ saved.current = phase[ImagePhase].current
    BY <1>3, PhaseFacts DEF Saved, PhaseRow, RowSound
  <2> HIDE DEF saved
  <2> QED BY <1>5, <2>1 DEF saved
<1>7. /\ phase'[VideoPhase] \in PhaseRow
      /\ RowSound(phase'[VideoPhase], VideoPhase, versions)
      /\ phase'[VideoPhase].current = phase[VideoPhase].current
  <2> DEFINE saved == Saved(phase[VideoPhase], seen[VideoPhase], video, 0)
  <2>1. /\ saved \in PhaseRow
        /\ RowSound(saved, VideoPhase, versions)
        /\ saved.current = phase[VideoPhase].current
    BY <1>4, PhaseFacts DEF Saved, PhaseRow, RowSound
  <2> HIDE DEF saved
  <2> QED BY <1>5, <2>1 DEF saved
<1>8. \A j \in Phases : /\ phase'[j] \in PhaseRow
                        /\ RowSound(phase'[j], j, versions)
                        /\ phase'[j].current = phase[j].current
  BY <1>2, <1>5, <1>6, <1>7
<1>9. phase' \in [Phases -> PhaseRow]
  BY <1>5, <1>8
<1>10. \A j \in Phases : Len(versions[j]) \in Nat
  BY DEF IInv, TypeOK
<1>11. Grown(versions, versions')
  BY <1>1, <1>10 DEF Grown
<1> QED BY <1>1, <1>8, <1>9, <1>11, CloseKeepsIInv DEF IInv, TypeOK

\* The steps that only move one request along.
LEMMA MoveKeepsIInv ==
    ASSUME IInv, NEW r \in Requests, NEW q \in RequestState,
           req' = [req EXCEPT ![r] = q],
           UNCHANGED <<phase, versions, received>>,
           RequestSound(q, versions)
    PROVE  IInv'
<1>1. TypeOK'
  BY DEF IInv, TypeOK
<1>2. \A s \in Requests : RequestSound(req'[s], versions)
  BY DEF IInv, TypeOK
<1> QED BY <1>1, <1>2 DEF IInv

LEMMA ReadKeepsIInv ==
    ASSUME IInv, NEW r \in Requests,
           ReadLatest(r) \/ CheckExpectedVersion(r) \/ RunCompletes(r)
    PROVE  IInv'
<1>1. /\ req[r] \in RequestState /\ req[r].k \in Phases
      /\ phase \in [Phases -> PhaseRow]
      /\ versions[req[r].k] \in Seq(VersionRow)
      /\ Numbered(versions[req[r].k])
  BY DEF IInv, TypeOK, RequestState
<1>2. Latest(versions[req[r].k]) = Len(versions[req[r].k])
      /\ Len(versions[req[r].k]) \in Nat
  BY <1>1, LatestIsLen
<1>3. CASE ReadLatest(r)
  <2> DEFINE q == [req[r] EXCEPT !.pc = "write",
                                 !.latest = Latest(versions[req[r].k])]
  <2>1. req' = [req EXCEPT ![r] = q] /\ UNCHANGED <<phase, versions, received>>
        /\ req[r].pc # "idle"
    BY <1>3 DEF ReadLatest, IInv, TypeOK
  <2>2. q \in RequestState /\ q.latest = Len(versions[q.k])
    BY <1>1, <1>2 DEF RequestState
  <2>3. RequestSound(q, versions)
    <3>1. RequestSound(req[r], versions)
      BY DEF IInv
    <3> QED BY <1>1, <1>2, <2>1, <2>2, <3>1 DEF RequestSound, RequestState
  <2> HIDE DEF q
  <2> QED BY <2>1, <2>2, <2>3, MoveKeepsIInv
<1>4. CASE CheckExpectedVersion(r)
  <2> DEFINE q == [req[r] EXCEPT !.pc = "read"]
  <2>1. CASE Refuse(r)
    BY <2>1, RefuseKeepsIInv
  <2>2. CASE ~Refuse(r)
    <3>1. req' = [req EXCEPT ![r] = q] /\ UNCHANGED <<phase, versions, received>>
          /\ req[r].pc # "idle"
      BY <1>4, <2>2 DEF CheckExpectedVersion, IInv, TypeOK
    <3>2. q \in RequestState
      BY <1>1 DEF RequestState
    <3>3. RequestSound(q, versions)
      <4>1. RequestSound(req[r], versions)
        BY DEF IInv
      <4> QED BY <1>1, <3>1, <4>1 DEF RequestSound, RequestState
    <3> HIDE DEF q
    <3> QED BY <3>1, <3>2, <3>3, MoveKeepsIInv
  <2> QED BY <2>1, <2>2
<1>5. CASE RunCompletes(r)
  <2>1. PICK n \in 0 .. LastPhase :
          req' = [req EXCEPT ![r].pc = "read", ![r].seen = phase, ![r].first = n]
    BY <1>5 DEF RunCompletes
  <2> DEFINE q == [req[r] EXCEPT !.pc = "read", !.seen = phase, !.first = n]
  <2>2. req' = [req EXCEPT ![r] = q] /\ UNCHANGED <<phase, versions, received>>
        /\ req[r].pc = "run" /\ RequestSound(req[r], versions)
    BY <1>5, <2>1 DEF RunCompletes, IInv, TypeOK
  <2>3. q \in RequestState
    BY <1>1 DEF RequestState
  <2>4. RequestSound(q, versions)
    BY <1>1, <2>2 DEF RequestSound, RequestState, IInv
  <2> HIDE DEF q
  <2> QED BY <2>2, <2>3, <2>4, MoveKeepsIInv
<1> QED BY <1>3, <1>4, <1>5

\* Fresh rows, or rows with one baseline each, are sound.
LEMMA InitIInv == Init => IInv
<1> SUFFICES ASSUME Init PROVE IInv
  OBVIOUS
<1>1. PICK opened \in BOOLEAN :
        /\ phase = [k \in Phases |->
                      [FirstPhaseRow EXCEPT
                         !.locked = (k # 1),
                         !.current = IF opened THEN 1 ELSE 0]]
        /\ versions = [k \in Phases |->
                         IF opened THEN <<BaselineRow(1, "not_started")>>
                         ELSE <<>>]
  BY DEF Init
<1>2. BaselineRow(1, "not_started") \in VersionRow
      /\ BaselineRow(1, "not_started").number = 1
      /\ BaselineRow(1, "not_started").lifecycle = "not_started"
  BY DEF BaselineRow, Row, VersionRow, Lifecycle, Sources
<1>3. Idle \in RequestState /\ Idle.pc = "idle"
  BY PhaseFacts DEF Idle, RequestState, FirstPhaseRow, PhaseRow, Lifecycle, Ops
<1>4. TypeOK
  <2>1. phase \in [Phases -> PhaseRow]
    BY <1>1 DEF FirstPhaseRow, PhaseRow, Lifecycle
  <2>2. versions \in [Phases -> Seq(VersionRow)]
    <3> DEFINE b == BaselineRow(1, "not_started")
    <3>1. <<b>> \in Seq(VersionRow) /\ <<>> \in Seq(VersionRow)
      <4>1. b \in VersionRow
        BY <1>2
      <4> HIDE DEF b
      <4> QED BY <4>1
    <3>2. \A k \in Phases : versions[k] \in {<<b>>, <<>>}
      BY <1>1, Zenon
    <3>3. versions = [k \in Phases |-> versions[k]]
      BY <1>1, Zenon
    <3> HIDE DEF b
    <3> QED BY <3>1, <3>2, <3>3
  <2>3. req \in [Requests -> RequestState]
    BY <1>3 DEF Init
  <2>4. received \in 0 .. MaxRequests
    <3>1. received = 0
      BY Zenon DEF Init
    <3> QED BY <3>1, PhaseAssumption
  <2> QED BY <2>1, <2>2, <2>3, <2>4 DEF TypeOK
<1>5. ASSUME NEW k \in Phases
      PROVE  /\ Numbered(versions[k]) /\ phase[k].current = Len(versions[k])
             /\ ~Signed(versions[k])
             /\ phase[k].lifecycle = "not_started"
             /\ phase[k].locked = (k # 1)
  <2>1. /\ phase[k].current = (IF opened THEN 1 ELSE 0)
        /\ phase[k].lifecycle = "not_started"
        /\ phase[k].locked = (k # 1)
    BY <1>1 DEF FirstPhaseRow
  <2>2. CASE opened
    <3>1. versions[k] = <<BaselineRow(1, "not_started")>>
      BY <1>1, <2>2
    <3> QED BY <2>1, <2>2, <3>1, <1>2 DEF Numbered, Signed
  <2>3. CASE ~opened
    <3>1. versions[k] = <<>>
      BY <1>1, <2>3
    <3> QED BY <2>1, <2>3, <3>1 DEF Numbered, Signed
  <2> QED BY <2>2, <2>3
<1>6. Chained(versions)
  BY <1>5, PhaseFacts DEF Chained
<1>7. \A k \in Phases : RowSound(phase[k], k, versions)
  BY <1>5, PhaseFacts DEF RowSound
<1>8. \A r \in Requests : RequestSound(req[r], versions)
  BY <1>3 DEF Init, RequestSound
<1> QED BY <1>4, <1>5, <1>6, <1>7, <1>8 DEF IInv

\* Every way a request begins, with what the rows it reads guarantee.
LEMMA OpeningKeepsIInv ==
    ASSUME IInv, NEW r \in Requests,
           \/ BeginOpen(r) \/ BeginGeneratePhaseOne(r)
           \/ BeginRevisePhaseOne(r) \/ BeginPrepare(r)
           \/ \E k \in Phases : BeginRetain(r, k) \/ BeginApprove(r, k)
                                \/ BeginIterate(r, k)
    PROVE  IInv'
<1>1. CASE BeginOpen(r)
  BY <1>1, PhaseFacts, BeginKeepsIInv DEF BeginOpen, Ops
<1>2. CASE BeginGeneratePhaseOne(r)
  BY <1>2, PhaseFacts, BeginKeepsIInv DEF BeginGeneratePhaseOne, Ops
<1>3. CASE BeginRevisePhaseOne(r)
  <2>1. PICK e \in 1 .. Latest(versions[1]) :
          Begin(r, "revise", 1, "check", e)
    BY <1>3 DEF BeginRevisePhaseOne
  <2>2. e \in Nat
    <3>1. Latest(versions[1]) \in Nat
      BY PhaseFacts, LatestIsLen DEF IInv, TypeOK
    <3> QED BY <3>1
  <2> QED BY <2>1, <2>2, PhaseFacts, BeginKeepsIInv DEF Ops
<1>4. CASE BeginPrepare(r)
  BY <1>4, PhaseFacts, BeginKeepsIInv DEF BeginPrepare, Ops
<1>5. ASSUME NEW k \in Phases, BeginRetain(r, k) PROVE IInv'
  BY <1>5, BeginKeepsIInv DEF BeginRetain, Ops
<1>6. ASSUME NEW k \in Phases, BeginApprove(r, k) PROVE IInv'
  <2>1. k # LastPhase /\ (k > 1 => Signed(versions[k - 1]))
    BY <1>6, PhaseFacts DEF BeginApprove, MayApprove, IInv, RowSound
  <2> QED BY <1>6, <2>1, BeginKeepsIInv DEF BeginApprove, Ops
<1>7. ASSUME NEW k \in Phases, BeginIterate(r, k) PROVE IInv'
  <2>1. k # LastPhase /\ (k > 1 => Signed(versions[k - 1]))
        /\ k \in PlanningPhases
    BY <1>7, PhaseFacts DEF BeginIterate, IInv, RowSound
  <2> QED BY <1>7, <2>1, BeginKeepsIInv DEF BeginIterate, Ops
<1> QED BY <1>1, <1>2, <1>3, <1>4, <1>5, <1>6, <1>7

LEMMA NextKeepsIInv == IInv /\ [Next]_vars => IInv'
<1> SUFFICES ASSUME IInv, [Next]_vars PROVE IInv'
  OBVIOUS
<1>1. CASE UNCHANGED vars
  BY <1>1 DEF vars, IInv, TypeOK
<1>2. ASSUME NEW r \in Requests, Step(r) PROVE IInv'
  <2>1. CASE \/ BeginOpen(r) \/ BeginGeneratePhaseOne(r)
             \/ BeginRevisePhaseOne(r) \/ BeginPrepare(r)
             \/ \E k \in Phases : BeginRetain(r, k) \/ BeginApprove(r, k)
                                  \/ BeginIterate(r, k)
    BY <2>1, OpeningKeepsIInv
  <2>2. CASE EnsurePhaseBaselines(r)
    BY <2>2, OpenKeepsIInv
  <2>3. CASE ReadLatest(r) \/ CheckExpectedVersion(r) \/ RunCompletes(r)
    BY <2>3, ReadKeepsIInv
  <2>4. CASE PersistPhaseOneVersion(r)
    BY <2>4, PersistKeepsIInv
  <2>5. CASE PhaseOneConflict(r) \/ RetryCollides(r) \/ RunFails(r)
    BY <2>5, RefuseKeepsIInv DEF PhaseOneConflict, RetryCollides, RunFails
  <2>6. CASE CreatePhaseVersion(r)
    BY <2>6, CreateKeepsIInv
  <2>7. CASE ApprovePhase(r)
    BY <2>7, ApproveKeepsIInv
  <2>8. CASE ApproveAfterRollback(r)
    BY <2>8, RollbackKeepsIInv
  <2>9. CASE RetainGeneratedPlanningPhase(r)
    BY <2>9, IterateKeepsIInv
  <2>10. CASE PrepareImages(r)
    BY <2>10, PrepareKeepsIInv
  <2> QED BY <1>2, <2>1, <2>2, <2>3, <2>4, <2>5, <2>6, <2>7, <2>8, <2>9,
             <2>10 DEF Step
<1> QED BY <1>1, <1>2 DEF Next

\* The inductive invariant holds in every state of every story.
THEOREM SpecIInv == Spec => []IInv
<1>1. Init => IInv
  BY InitIInv
<1>2. IInv /\ [Next]_vars => IInv'
  BY NextKeepsIInv
<1> QED BY <1>1, <1>2, PTL DEF Spec

\* A ledger is signed when its set of approvals is not empty.
LEMMA SignedIsApproved == \A k \in Phases : Signed(versions[k]) <=> Approved(k)
  BY DEF Signed, Approved, Approvals

\* The rows, ledgers and sessions keep their types, whatever the requests do.
THEOREM TypeCorrect == Spec => []TypeOK
<1>1. IInv => TypeOK
  BY DEF IInv
<1> QED BY <1>1, SpecIInv, PTL

\* However the appends of concurrent requests race, no version number of a
\* phase is skipped or used twice, and the row names the newest version.
THEOREM NumbersHaveNoGap == Spec => []LedgerNumbered
<1>1. IInv => LedgerNumbered
  BY DEF IInv, LedgerNumbered, Numbered
<1> QED BY <1>1, SpecIInv, PTL

\* No request approves a phase, or opens a planning phase, above one that was
\* never approved, even on rows it read long before it writes.
THEOREM NoPhaseSkipped == Spec => []ApprovalChain
<1>1. IInv => ApprovalChain
  <2> SUFFICES ASSUME IInv, NEW k \in Phases
               PROVE  /\ phase[k].lifecycle = "approved" => Approved(k)
                      /\ k > 1 /\ Approved(k) => Approved(k - 1)
                      /\ k \in PlanningPhases /\ ~phase[k].locked
                           => Approved(k - 1)
    BY DEF ApprovalChain
  <2>1. RowSound(phase[k], k, versions) /\ Chained(versions)
    BY DEF IInv
  <2>2. Signed(versions[k]) <=> Approved(k)
    BY SignedIsApproved
  <2>3. k > 1 => (Signed(versions[k - 1]) <=> Approved(k - 1))
    BY PhaseFacts, SignedIsApproved
  <2>4. k \in PlanningPhases => k > 1
    BY PhaseFacts
  <2> QED BY <2>1, <2>2, <2>3, <2>4 DEF RowSound, Chained
<1> QED BY <1>1, SpecIInv, PTL

\* Nothing a request does opens or approves the phase behind the picture lock.
THEOREM PictureStaysLocked == Spec => []PictureLock
<1>1. IInv => PictureLock
  BY PhaseFacts, SignedIsApproved DEF IInv, RowSound, Chained, PictureLock
<1> QED BY <1>1, SpecIInv, PTL
=============================================================================
