-------------------------- MODULE ManagedAssets_proofs --------------------------
(***************************************************************************)
(* Proofs about ManagedAssets, for every number of requests, contents,     *)
(* slots and names.                                                        *)
(*                                                                         *)
(* The argument: the name of a file is given once.  Until its row is       *)
(* inserted only the request that was given the name knows it, so its file *)
(* is as that request left it; afterwards requests that read the row know  *)
(* the name together with its content, which no request changes.  A name   *)
(* whose row was deleted never gets a row again, so what late repairs and  *)
(* clean-ups do to its file does not matter.                               *)
(***************************************************************************)
EXTENDS ManagedAssets, TLAPS

\* Nobody else knows the name of this request, and no row bears it.
Owns(r) ==
    /\ ~rows[req[r].name].present
    /\ \A s \in Requests \ {r} : req[s].pc # "idle" => req[s].name # req[r].name

RequestSound(r) ==
    req[r].pc # "idle" =>
      /\ req[r].name \in 1 .. given
      /\ req[r].pc \in {"file", "insert"} => Owns(r)
      /\ req[r].pc = "insert" => files[req[r].name] = req[r].content
      /\ req[r].pc \notin {"file", "insert"} /\ rows[req[r].name].present
           => rows[req[r].name].content = req[r].content
      /\ req[r].pc = "unlink" => ~rows[req[r].name].present
      /\ req[r].op = "link" => req[r].content \in CharacterReferences

NamesGiven == \A n \in Names : rows[n].present => n <= given

IInv ==
    /\ TypeOK
    /\ NamesGiven
    /\ BytesKept
    /\ LinksHold
    /\ \A r \in Requests : RequestSound(r)

\* The same rows are there with the same contents.
SameRows == \A n \in Names : /\ rows'[n].present = rows[n].present
                             /\ rows'[n].content = rows[n].content

LEMMA ContentFacts ==
    /\ AnyContent \in Contents
    /\ NoFile \notin Contents /\ Corrupt \notin Contents
    /\ StartingImages \subseteq Contents /\ CharacterReferences \subseteq Contents
    /\ \A n \in Names : n \in Nat /\ n # 0
    /\ Names \subseteq 0 .. MaxAssets
    /\ 0 \in 0 .. MaxAssets
  BY AssetAssumption DEF AnyContent, Contents, Names

LEMMA RowTypes ==
    ASSUME NEW c \in Contents
    PROVE  /\ Row(c) \in AssetRow /\ Row(c).present /\ Row(c).content = c
           /\ NoRow \in AssetRow /\ ~NoRow.present
  BY ContentFacts DEF Row, NoRow, AssetRow, Active

LEMMA GivenFacts ==
    ASSUME TypeOK
    PROVE  given \in Nat /\ received \in Nat /\ 1 .. given \subseteq Names
  BY AssetAssumption DEF TypeOK, Names

LEMMA IdleFacts == Idle \in RequestState /\ Idle.pc = "idle"
  BY AssetAssumption, ContentFacts, RowTypes DEF Idle, RequestState, Active

---------------------------------------------------------------------------
(* What a step of a request keeps *)

\* The other requests stay sound whatever a step of r does, if it leaves the
\* contents of rows alone, adds a row only under the name it owns, writes only
\* the file of its name, and takes a name that has a row or is new.
LEMMA OthersStaySound ==
    ASSUME IInv, NEW r \in Requests, NEW q \in RequestState,
           req' = [req EXCEPT ![r] = q],
           given' \in Nat, given' >= given,
           q.pc # "idle" => \/ req[r].pc # "idle" /\ q.name = req[r].name
                            \/ q.name \in Names /\ rows[q.name].present
                            \/ q.name = given + 1,
           \A n \in Names : rows'[n].present =>
              \/ rows[n].present /\ rows'[n].content = rows[n].content
              \/ n = req[r].name /\ req[r].pc = "insert",
           \A n \in Names : \/ files'[n] = files[n]
                            \/ n = req[r].name /\ req[r].pc # "idle",
           NEW s \in Requests \ {r}
    PROVE  RequestSound(s)'
<1> SUFFICES ASSUME req[s].pc # "idle" PROVE RequestSound(s)'
  BY DEF RequestSound, IInv, TypeOK
<1> DEFINE n == req[s].name
<1>1. /\ req'[s] = req[s] /\ req'[r] = q
      /\ \A t \in Requests \ {r} : req'[t] = req[t]
  BY DEF IInv, TypeOK
<1>2. /\ n \in 1 .. given /\ given \in Nat /\ n \in Names /\ n \in Nat
      /\ req[s].pc \in {"file", "insert"} => Owns(s)
      /\ req[s].pc = "insert" => files[n] = req[s].content
      /\ req[s].pc \notin {"file", "insert"} /\ rows[n].present
           => rows[n].content = req[s].content
      /\ req[s].pc = "unlink" => ~rows[n].present
      /\ req[s].op = "link" => req[s].content \in CharacterReferences
  BY GivenFacts DEF IInv, RequestSound
<1>3. req[r].pc = "insert" => req[r].name # n
  BY DEF IInv, RequestSound, Owns
<1>4. rows'[n].present => rows[n].present /\ rows'[n].content = rows[n].content
  BY <1>2, <1>3
<1>5. n \in 1 .. given'
  BY <1>2
<1>6. ASSUME req[s].pc \in {"file", "insert"} PROVE Owns(s)' /\ files'[n] = files[n]
  <2>1. /\ ~rows[n].present
        /\ \A t \in Requests \ {s} : req[t].pc # "idle" => req[t].name # n
    BY <1>2, <1>6 DEF Owns
  <2>2. q.pc # "idle" => q.name # n
    BY <2>1, <1>2
  <2>3. files'[n] = files[n]
    BY <2>1, <1>2
  <2> QED BY <2>1, <2>2, <2>3, <1>1, <1>4 DEF Owns
<1> QED BY <1>1, <1>2, <1>4, <1>5, <1>6 DEF RequestSound

LEMMA StepKeepsIInv ==
    ASSUME IInv, NEW r \in Requests, NEW q \in RequestState,
           req' = [req EXCEPT ![r] = q],
           given' \in 0 .. MaxAssets, given' >= given,
           received' \in 0 .. MaxRequests,
           q.pc # "idle" => \/ req[r].pc # "idle" /\ q.name = req[r].name
                            \/ q.name \in Names /\ rows[q.name].present
                            \/ q.name = given + 1,
           rows' \in [Names -> AssetRow],
           files' \in [Names -> Contents \cup {NoFile, Corrupt}],
           links' \in [Slots -> 0 .. MaxAssets],
           lost' \subseteq Names,
           \A n \in Names : rows'[n].present =>
              \/ rows[n].present /\ rows'[n].content = rows[n].content
              \/ n = req[r].name /\ req[r].pc = "insert",
           \A n \in Names : \/ files'[n] = files[n]
                            \/ n = req[r].name /\ req[r].pc # "idle",
           BytesKept', LinksHold', RequestSound(r)'
    PROVE  IInv'
<1>1. TypeOK'
  BY DEF IInv, TypeOK
<1>2. NamesGiven'
  <2> SUFFICES ASSUME NEW n \in Names, rows'[n].present PROVE n <= given'
    BY DEF NamesGiven
  <2>1. n \in Nat /\ given \in Nat /\ given' \in Nat
    BY ContentFacts, GivenFacts DEF IInv
  <2>2. CASE rows[n].present
    BY <2>1, <2>2 DEF IInv, NamesGiven
  <2>3. CASE n = req[r].name /\ req[r].pc = "insert"
    BY <2>1, <2>3 DEF IInv, RequestSound
  <2> QED BY <2>2, <2>3
<1>3. \A s \in Requests : RequestSound(s)'
  <2>1. given' \in Nat
    OBVIOUS
  <2> QED BY <2>1, OthersStaySound
<1> QED BY <1>1, <1>2, <1>3 DEF IInv

\* A request that ends owes nothing.
LEMMA CloseKeepsIInv ==
    ASSUME IInv, NEW r \in Requests, Close(r),
           rows' \in [Names -> AssetRow],
           files' \in [Names -> Contents \cup {NoFile, Corrupt}],
           links' \in [Slots -> 0 .. MaxAssets],
           lost' \subseteq Names,
           \A n \in Names : rows'[n].present =>
              \/ rows[n].present /\ rows'[n].content = rows[n].content
              \/ n = req[r].name /\ req[r].pc = "insert",
           \A n \in Names : \/ files'[n] = files[n]
                            \/ n = req[r].name /\ req[r].pc # "idle",
           BytesKept', LinksHold'
    PROVE  IInv'
<1>1. Idle \in RequestState /\ Idle.pc = "idle"
  BY IdleFacts
<1>2. /\ req' = [req EXCEPT ![r] = Idle]
      /\ given' \in 0 .. MaxAssets /\ given' >= given
      /\ received' \in 0 .. MaxRequests
  BY GivenFacts DEF Close, IInv, TypeOK
<1>3. RequestSound(r)'
  BY <1>1, <1>2 DEF RequestSound, IInv, TypeOK
<1> QED BY <1>1, <1>2, <1>3, StepKeepsIInv

LEMMA LinksStay ==
    ASSUME IInv, SameRows, UNCHANGED links
    PROVE  LinksHold'
<1>1. \A s \in Slots : links[s] # 0 => links[s] \in Names
  BY DEF IInv, TypeOK, Names
<1> QED BY <1>1 DEF SameRows, LinksHold, IInv

\* A request that ends and changes no row but for its approval.
LEMMA CloseSameRows ==
    ASSUME IInv, NEW r \in Requests, Close(r), SameRows, UNCHANGED links,
           rows' \in [Names -> AssetRow],
           files' \in [Names -> Contents \cup {NoFile, Corrupt}],
           lost' \subseteq Names,
           \A n \in Names : \/ files'[n] = files[n]
                            \/ n = req[r].name /\ req[r].pc # "idle",
           \A n \in Names : rows[n].present /\ n \notin lost'
                              => files'[n] = rows[n].content
    PROVE  IInv'
<1>1. BytesKept'
  BY DEF BytesKept, Good, SameRows
<1>2. LinksHold'
  BY LinksStay
<1>3. links' \in [Slots -> 0 .. MaxAssets]
  BY DEF IInv, TypeOK
<1> QED BY <1>1, <1>2, <1>3, CloseKeepsIInv DEF SameRows

LEMMA CloseUnchanged ==
    ASSUME IInv, NEW r \in Requests, Close(r), UNCHANGED <<rows, files, links, lost>>
    PROVE  IInv'
<1>1. /\ SameRows /\ rows' \in [Names -> AssetRow]
      /\ files' \in [Names -> Contents \cup {NoFile, Corrupt}]
      /\ lost' \subseteq Names
  BY DEF SameRows, IInv, TypeOK
<1>2. \A n \in Names : rows[n].present /\ n \notin lost' => files'[n] = rows[n].content
  BY DEF IInv, BytesKept, Good
<1>3. /\ UNCHANGED links
      /\ \A n \in Names : \/ files'[n] = files[n]
                          \/ n = req[r].name /\ req[r].pc # "idle"
  OBVIOUS
<1> QED BY <1>1, <1>2, <1>3, CloseSameRows

\* A request that begins or goes on, and writes nothing.
LEMMA GoOnKeepsIInv ==
    ASSUME IInv, NEW r \in Requests, NEW q \in RequestState,
           req' = [req EXCEPT ![r] = q],
           given' \in 0 .. MaxAssets, given' >= given,
           received' \in 0 .. MaxRequests,
           UNCHANGED <<rows, files, links, lost>>,
           q.pc # "idle" => \/ req[r].pc # "idle" /\ q.name = req[r].name
                            \/ q.name \in Names /\ rows[q.name].present
                            \/ q.name = given + 1,
           RequestSound(r)'
    PROVE  IInv'
<1>1. BytesKept' /\ LinksHold'
  <2>1. SameRows
    BY DEF SameRows
  <2> QED BY <2>1, LinksStay DEF IInv, BytesKept, Good
<1>2. /\ rows' \in [Names -> AssetRow]
      /\ files' \in [Names -> Contents \cup {NoFile, Corrupt}]
      /\ links' \in [Slots -> 0 .. MaxAssets] /\ lost' \subseteq Names
  BY DEF IInv, TypeOK
<1>3. /\ \A n \in Names : rows'[n].present =>
            \/ rows[n].present /\ rows'[n].content = rows[n].content
            \/ n = req[r].name /\ req[r].pc = "insert"
      /\ \A n \in Names : \/ files'[n] = files[n]
                          \/ n = req[r].name /\ req[r].pc # "idle"
  OBVIOUS
<1> QED BY <1>1, <1>2, <1>3, StepKeepsIInv

---------------------------------------------------------------------------
(* The beginnings *)

\* A request on a row that is there knows its content.
LEMMA BeginOnRow ==
    ASSUME IInv, NEW r \in Requests, NEW n \in Names, NEW q \in RequestState,
           Begin(r, q), UNCHANGED given, rows[n].present,
           q.name = n, q.content = rows[n].content,
           q.pc \in {"check", "write"},
           q.op = "link" => q.content \in CharacterReferences
    PROVE  IInv'
<1>1. /\ req' = [req EXCEPT ![r] = q] /\ req'[r] = q
      /\ UNCHANGED <<rows, files, links, lost>>
      /\ received' \in 0 .. MaxRequests
      /\ given' \in 0 .. MaxAssets /\ given' >= given
  BY AssetAssumption DEF Begin, IInv, TypeOK
<1>2. n \in 1 .. given'
  BY ContentFacts, GivenFacts DEF IInv, NamesGiven, Names
<1>3. RequestSound(r)'
  BY <1>1, <1>2 DEF RequestSound
<1> QED BY <1>1, <1>3, GoOnKeepsIInv

LEMMA BeginOnKeepsIInv ==
    ASSUME IInv, NEW r \in Requests, NEW n \in Names,
           NEW op \in {"upload", "video", "import", "archive", "delete", "rehydrate"},
           NEW pc \in {"check", "write"}, BeginOn(r, op, pc, n)
    PROVE  IInv'
<1> DEFINE q == [Idle EXCEPT !.op = op, !.pc = pc, !.name = n,
                             !.content = rows[n].content, !.seen = rows[n]]
<1>1. rows[n] \in AssetRow /\ rows[n].content \in Contents /\ n \in 0 .. MaxAssets
  BY ContentFacts DEF IInv, TypeOK, AssetRow
<1>2. /\ q \in RequestState /\ q.name = n /\ q.content = rows[n].content
      /\ q.pc = pc /\ q.op = op
  BY <1>1, IdleFacts DEF RequestState
<1>3. Begin(r, q) /\ UNCHANGED given /\ rows[n].present
  BY DEF BeginOn
<1> HIDE DEF q
<1> QED BY <1>2, <1>3, BeginOnRow

LEMMA BeginNewKeepsIInv ==
    ASSUME IInv, NEW r \in Requests, NEW op \in {"upload", "video", "import"},
           NEW c \in Contents, BeginNew(r, op, c)
    PROVE  IInv'
<1> DEFINE q == [Idle EXCEPT !.op = op, !.pc = "file", !.content = c,
                             !.name = given + 1]
<1>1. given \in Nat /\ MaxAssets \in Nat /\ given < MaxAssets /\ given' = given + 1
      /\ given + 1 \in Names /\ given + 1 \in 0 .. MaxAssets
  BY GivenFacts, AssetAssumption DEF IInv, BeginNew, Names
<1>2. /\ q \in RequestState /\ q.name = given + 1 /\ q.content = c
      /\ q.pc = "file" /\ q.op = op
  BY <1>1, IdleFacts DEF RequestState
<1>3. Begin(r, q)
  BY DEF BeginNew
<1> HIDE DEF q
<1>4. /\ req' = [req EXCEPT ![r] = q]
      /\ req'[r] = q /\ (\A s \in Requests \ {r} : req'[s] = req[s])
      /\ UNCHANGED <<rows, files, links, lost>>
      /\ received' \in 0 .. MaxRequests
      /\ given' \in 0 .. MaxAssets /\ given' >= given
  BY <1>1, <1>3, AssetAssumption DEF Begin, IInv, TypeOK
<1>5. ~rows[given + 1].present
  BY <1>1 DEF IInv, NamesGiven
<1>6. \A s \in Requests \ {r} : req[s].pc # "idle" => req[s].name # given + 1
  BY <1>1 DEF IInv, RequestSound
<1>7. RequestSound(r)'
  BY <1>1, <1>2, <1>4, <1>5, <1>6 DEF RequestSound, Owns
<1> QED BY <1>2, <1>4, <1>7, GoOnKeepsIInv

LEMMA BeginTransitionKeepsIInv ==
    ASSUME IInv, NEW r \in Requests, NEW n \in Names, NEW to \in Active,
           BeginTransition(r, n, to)
    PROVE  IInv'
<1> DEFINE q == [Idle EXCEPT !.op = "transition", !.pc = "write", !.name = n,
                             !.content = rows[n].content, !.seen = rows[n],
                             !.to = to]
<1>1. rows[n] \in AssetRow /\ rows[n].content \in Contents /\ n \in 0 .. MaxAssets
  BY ContentFacts DEF IInv, TypeOK, AssetRow
<1>2. /\ q \in RequestState /\ q.name = n /\ q.content = rows[n].content
      /\ q.pc = "write" /\ q.op = "transition"
  BY <1>1, IdleFacts DEF RequestState
<1>3. Begin(r, q) /\ UNCHANGED given /\ rows[n].present
  BY DEF BeginTransition
<1> HIDE DEF q
<1> QED BY <1>2, <1>3, BeginOnRow

LEMMA BeginLinkKeepsIInv ==
    ASSUME IInv, NEW r \in Requests, NEW n \in Names, NEW s \in Slots,
           BeginLink(r, n, s)
    PROVE  IInv'
<1> DEFINE q == [Idle EXCEPT !.op = "link", !.pc = "write", !.name = n,
                             !.content = rows[n].content, !.seen = rows[n],
                             !.slot = s]
<1>1. rows[n] \in AssetRow /\ rows[n].content \in Contents /\ n \in 0 .. MaxAssets
  BY ContentFacts DEF IInv, TypeOK, AssetRow
<1>2. /\ q \in RequestState /\ q.name = n /\ q.content = rows[n].content
      /\ q.pc = "write" /\ q.op = "link"
  BY <1>1, IdleFacts DEF RequestState
<1>3. /\ Begin(r, q) /\ UNCHANGED given /\ rows[n].present
      /\ rows[n].content \in CharacterReferences
  BY DEF BeginLink
<1> HIDE DEF q
<1> QED BY <1>2, <1>3, BeginOnRow

---------------------------------------------------------------------------
(* The steps of an open request *)

\* What is known of an open request.
LEMMA OpenFacts ==
    ASSUME IInv, NEW r \in Requests, req[r].pc # "idle"
    PROVE  /\ req[r] \in RequestState
           /\ req[r].name \in Names /\ req[r].name \in 1 .. given
           /\ req[r].content \in Contents
           /\ rows[req[r].name] \in AssetRow
           /\ req[r].seen \in AssetRow /\ req[r].to \in Active
           /\ req[r].slot \in Slots
           /\ rows \in [Names -> AssetRow]
           /\ files \in [Names -> Contents \cup {NoFile, Corrupt}]
           /\ links \in [Slots -> 0 .. MaxAssets]
           /\ lost \subseteq Names
           /\ RequestSound(r)
  BY GivenFacts DEF IInv, TypeOK, RequestState, RequestSound

LEMMA MoveKeepsIInv ==
    ASSUME IInv, NEW r \in Requests, req[r].pc = "check",
           NEW pc \in {"repair", "reuse"},
           Move(r, pc), UNCHANGED <<rows, files, links, lost>>
    PROVE  IInv'
<1> DEFINE q == [req[r] EXCEPT !.pc = pc]
<1>1. /\ req[r] \in RequestState /\ RequestSound(r)
  BY OpenFacts
<1>2. /\ q \in RequestState /\ q.name = req[r].name /\ q.content = req[r].content
      /\ q.pc = pc /\ q.op = req[r].op
  BY <1>1 DEF RequestState
<1>3. /\ req' = [req EXCEPT ![r] = q] /\ req'[r] = q
      /\ received' \in 0 .. MaxRequests
      /\ given' \in 0 .. MaxAssets /\ given' = given /\ given' >= given
  BY GivenFacts DEF Move, IInv, TypeOK
<1> HIDE DEF q
<1>4. RequestSound(r)'
  BY <1>1, <1>2, <1>3 DEF RequestSound
<1> QED BY <1>2, <1>3, <1>4, GoOnKeepsIInv

LEMMA CheckKeepsIInv ==
    ASSUME IInv, NEW r \in Requests, CheckDuplicate(r)
    PROVE  IInv'
<1>1. CASE req[r].op # "upload"
  BY <1>1, CloseUnchanged DEF CheckDuplicate
<1>2. CASE req[r].op = "upload"
  BY <1>2, MoveKeepsIInv DEF CheckDuplicate, At
<1> QED BY <1>1, <1>2

\* A file is replaced by the bytes of its row's content.
LEMMA RestoreKeepsIInv ==
    ASSUME IInv, NEW r \in Requests, req[r].pc \in {"repair", "write"},
           files' = [files EXCEPT ![req[r].name] = req[r].content],
           lost' = lost \ {req[r].name}, Close(r), UNCHANGED <<rows, links>>
    PROVE  IInv'
<1> DEFINE n == req[r].name
<1>1. /\ n \in Names /\ req[r].content \in Contents
      /\ rows[n].present => rows[n].content = req[r].content
      /\ rows \in [Names -> AssetRow]
      /\ files \in [Names -> Contents \cup {NoFile, Corrupt}]
      /\ lost \subseteq Names
  BY OpenFacts DEF RequestSound
<1>2. /\ files' \in [Names -> Contents \cup {NoFile, Corrupt}]
      /\ \A m \in Names : files'[m] = IF m = n THEN req[r].content ELSE files[m]
      /\ lost' \subseteq Names /\ SameRows /\ rows' \in [Names -> AssetRow]
  BY <1>1 DEF SameRows
<1>3. \A m \in Names : rows[m].present /\ m \notin lost' => files'[m] = rows[m].content
  BY <1>1, <1>2 DEF IInv, BytesKept, Good
<1> QED BY <1>2, <1>3, CloseSameRows

LEMMA RepairKeepsIInv ==
    ASSUME IInv, NEW r \in Requests, RepairBytes(r) \/ RestoreMissing(r)
    PROVE  IInv'
<1>1. CASE RepairBytes(r)
  BY <1>1, RestoreKeepsIInv DEF RepairBytes, At
<1>2. CASE RestoreMissing(r)
  <2>1. CASE files[req[r].name] = NoFile
    BY <1>2, <2>1, RestoreKeepsIInv DEF RestoreMissing, At
  <2>2. CASE files[req[r].name] # NoFile
    BY <1>2, <2>2, CloseUnchanged DEF RestoreMissing
  <2> QED BY <2>1, <2>2
<1> QED BY <1>1, <1>2

\* An update of a row keeps its presence and its content.
LEMMA UpdateFacts ==
    ASSUME NEW n \in Names, NEW row \in AssetRow, rows \in [Names -> AssetRow],
           row.present = rows[n].present, row.content = rows[n].content,
           Update(n, row)
    PROVE  rows' \in [Names -> AssetRow] /\ SameRows
  BY DEF Update, SameRows

LEMMA UpdateKeepsIInv ==
    ASSUME IInv, NEW r \in Requests, req[r].pc # "idle", NEW row \in AssetRow,
           row.present = rows[req[r].name].present,
           row.content = rows[req[r].name].content,
           Update(req[r].name, row), Close(r), UNCHANGED <<files, links, lost>>
    PROVE  IInv'
<1>1. /\ req[r].name \in Names /\ rows \in [Names -> AssetRow]
      /\ files \in [Names -> Contents \cup {NoFile, Corrupt}]
      /\ lost \subseteq Names
  BY OpenFacts
<1>2. rows' \in [Names -> AssetRow] /\ SameRows
  BY <1>1, UpdateFacts
<1>3. /\ files' \in [Names -> Contents \cup {NoFile, Corrupt}]
      /\ lost' \subseteq Names /\ UNCHANGED links
      /\ \A m \in Names : files'[m] = files[m]
  BY <1>1
<1>4. \A m \in Names : rows[m].present /\ m \notin lost' => files'[m] = rows[m].content
  BY <1>1 DEF IInv, BytesKept, Good
<1> QED BY <1>2, <1>3, <1>4, CloseSameRows

LEMMA ApprovalsKeepIInv ==
    ASSUME IInv, NEW r \in Requests,
           ReuseDuplicate(r) \/ TransitionApproval(r) \/ ArchiveAsset(r)
    PROVE  IInv'
<1> DEFINE n == req[r].name
           now == rows[n]
<1>1. req[r].pc # "idle" /\ Close(r) /\ UNCHANGED <<files, links, lost>>
  BY DEF ReuseDuplicate, TransitionApproval, ArchiveAsset, At
<1>2. /\ now \in AssetRow /\ req[r].seen \in AssetRow /\ req[r].to \in Active
  BY <1>1, OpenFacts
<1>3. ASSUME NEW a \in BOOLEAN, NEW s \in Active \cup {"archived"},
             Update(n, [now EXCEPT !.archived = a, !.approval = s])
      PROVE  IInv'
  <2> DEFINE row == [now EXCEPT !.archived = a, !.approval = s]
  <2>1. row \in AssetRow /\ row.present = now.present /\ row.content = now.content
    BY <1>2 DEF AssetRow
  <2> HIDE DEF row
  <2> QED BY <1>1, <1>3, <2>1, UpdateKeepsIInv DEF row
<1>4. CASE ReuseDuplicate(r)
  <2> DEFINE seen == req[r].seen
             back == IF seen.archived /\ seen.approval = "archived"
                     THEN "draft" ELSE seen.approval
             a == Written(now.archived, seen.archived, FALSE)
             s == Written(now.approval, seen.approval, back)
  <2>1. a \in BOOLEAN /\ s \in Active \cup {"archived"}
    BY <1>2 DEF Written, AssetRow, Active
  <2>2. Update(n, [now EXCEPT !.archived = a, !.approval = s])
    BY <1>4 DEF ReuseDuplicate
  <2> QED BY <2>1, <2>2, <1>3
<1>5. CASE TransitionApproval(r)
  <2> DEFINE row == [now EXCEPT !.approval = req[r].to]
  <2>1. row \in AssetRow /\ row.present = now.present /\ row.content = now.content
    BY <1>2 DEF AssetRow
  <2>2. Update(n, row)
    BY <1>5 DEF TransitionApproval
  <2> HIDE DEF row
  <2> QED BY <1>1, <2>1, <2>2, UpdateKeepsIInv
<1>6. CASE ArchiveAsset(r)
  <2> DEFINE s == Written(now.approval, req[r].seen.approval, "archived")
  <2>1. s \in Active \cup {"archived"}
    BY <1>2 DEF Written, AssetRow
  <2>2. Update(n, [now EXCEPT !.archived = TRUE, !.approval = s])
    BY <1>6 DEF ArchiveAsset
  <2> QED BY <2>1, <2>2, <1>3
<1> QED BY <1>4, <1>5, <1>6

LEMMA WriteKeepsIInv ==
    ASSUME IInv, NEW r \in Requests, WriteFile(r)
    PROVE  IInv'
<1> DEFINE n == req[r].name
           q == [req[r] EXCEPT !.pc = "insert"]
<1>1. req[r].pc = "file" /\ req[r].pc # "idle"
  BY DEF WriteFile, At
<1>2. /\ req[r] \in RequestState /\ n \in Names /\ n \in 1 .. given
      /\ req[r].content \in Contents
      /\ files \in [Names -> Contents \cup {NoFile, Corrupt}]
      /\ Owns(r)
      /\ req[r].op = "link" => req[r].content \in CharacterReferences
  BY <1>1, OpenFacts DEF RequestSound
<1>3. /\ q \in RequestState /\ q.name = n /\ q.content = req[r].content
      /\ q.pc = "insert" /\ q.op = req[r].op
  BY <1>2 DEF RequestState
<1>4. /\ req' = [req EXCEPT ![r] = q] /\ req'[r] = q
      /\ \A s \in Requests \ {r} : req'[s] = req[s]
      /\ received' \in 0 .. MaxRequests
      /\ given' \in 0 .. MaxAssets /\ given' = given /\ given' >= given
      /\ UNCHANGED <<rows, links, lost>>
  BY GivenFacts DEF WriteFile, Move, IInv, TypeOK
<1> HIDE DEF q
<1>5. /\ files' \in [Names -> Contents \cup {NoFile, Corrupt}]
      /\ \A m \in Names : files'[m] = IF m = n THEN req[r].content ELSE files[m]
  BY <1>2 DEF WriteFile
<1>6. RequestSound(r)'
  BY <1>2, <1>3, <1>4, <1>5 DEF RequestSound, Owns
<1>7. BytesKept'
  BY <1>2, <1>4, <1>5 DEF IInv, BytesKept, Good, Owns
<1>8. SameRows /\ LinksHold'
  BY <1>4, LinksStay DEF SameRows
<1>9. rows' \in [Names -> AssetRow] /\ links' \in [Slots -> 0 .. MaxAssets]
      /\ lost' \subseteq Names
  BY <1>4 DEF IInv, TypeOK
<1> QED
  BY <1>1, <1>3, <1>4, <1>5, <1>6, <1>7, <1>8, <1>9, StepKeepsIInv DEF SameRows

LEMMA InsertKeepsIInv ==
    ASSUME IInv, NEW r \in Requests, InsertRow(r)
    PROVE  IInv'
<1> DEFINE n == req[r].name
           c == req[r].content
           q == [req[r] EXCEPT !.pc = "refresh"]
<1>1. req[r].pc = "insert" /\ req[r].pc # "idle"
  BY DEF InsertRow, At
<1>2. /\ req[r] \in RequestState /\ n \in Names /\ n \in 1 .. given /\ c \in Contents
      /\ rows \in [Names -> AssetRow]
      /\ files \in [Names -> Contents \cup {NoFile, Corrupt}]
      /\ links \in [Slots -> 0 .. MaxAssets] /\ lost \subseteq Names
      /\ Owns(r) /\ files[n] = c
      /\ req[r].op = "link" => c \in CharacterReferences
  BY <1>1, OpenFacts DEF RequestSound
<1>3. /\ rows' = [rows EXCEPT ![n] = Row(c)] /\ Found(c) = {}
      /\ UNCHANGED <<files, links, lost>>
  BY DEF InsertRow
<1>4. /\ rows' \in [Names -> AssetRow]
      /\ rows'[n].present /\ rows'[n].content = c
      /\ \A m \in Names \ {n} : rows'[m] = rows[m]
  BY <1>2, <1>3, RowTypes
<1>5. BytesKept'
  BY <1>2, <1>3, <1>4 DEF IInv, BytesKept, Good
<1>6. LinksHold'
  <2>1. ~rows[n].present /\ \A m \in Names : ~(rows[m].present /\ rows[m].content = c)
    BY <1>2, <1>3 DEF Owns, Found
  <2>2. ASSUME NEW s \in Slots, links'[s] # 0
        PROVE  /\ rows'[links'[s]].present
               /\ rows'[links'[s]].content \in CharacterReferences
    <3>1. /\ links[s] \in Names /\ rows[links[s]].present
          /\ rows[links[s]].content \in CharacterReferences
      BY <1>2, <1>3, <2>2, AssetAssumption DEF IInv, LinksHold, Names
    <3> QED BY <3>1, <2>1, <1>3, <1>4
  <2>3. ASSUME NEW k \in Names, NEW m \in Names, rows'[k].present, rows'[m].present,
               rows'[k].content = rows'[m].content
        PROVE  k = m
    BY <2>1, <2>3, <1>4 DEF IInv, LinksHold
  <2> QED BY <2>2, <2>3 DEF LinksHold
<1>7. CASE Close(r)
  BY <1>1, <1>2, <1>3, <1>4, <1>5, <1>6, <1>7, CloseKeepsIInv
<1>8. CASE Move(r, "refresh")
  <2>1. /\ q \in RequestState /\ q.name = n /\ q.content = c
        /\ q.pc = "refresh" /\ q.op = req[r].op
    BY <1>2 DEF RequestState
  <2>2. /\ req' = [req EXCEPT ![r] = q] /\ req'[r] = q
        /\ received' \in 0 .. MaxRequests
        /\ given' \in 0 .. MaxAssets /\ given' = given /\ given' >= given
    BY <1>8, GivenFacts DEF Move, IInv, TypeOK
  <2> HIDE DEF q
  <2>3. RequestSound(r)'
    BY <2>1, <2>2, <1>2, <1>4 DEF RequestSound
  <2> QED BY <2>1, <2>2, <2>3, <1>1, <1>2, <1>3, <1>4, <1>5, <1>6, StepKeepsIInv
<1> QED BY <1>7, <1>8 DEF InsertRow

LEMMA DiscardKeepsIInv ==
    ASSUME IInv, NEW r \in Requests, DiscardFile(r)
    PROVE  IInv'
<1> DEFINE n == req[r].name
<1>1. /\ req[r].pc # "idle"
      /\ files' = [files EXCEPT ![n] = NoFile]
      /\ lost' = IF rows[n].present THEN lost \cup {n} ELSE lost
      /\ Close(r) /\ UNCHANGED <<rows, links>>
  BY DEF DiscardFile
<1>2. /\ n \in Names /\ rows \in [Names -> AssetRow] /\ lost \subseteq Names
      /\ files \in [Names -> Contents \cup {NoFile, Corrupt}]
  BY <1>1, OpenFacts
<1>3. /\ files' \in [Names -> Contents \cup {NoFile, Corrupt}]
      /\ \A m \in Names : files'[m] = IF m = n THEN NoFile ELSE files[m]
      /\ lost' \subseteq Names /\ SameRows /\ rows' \in [Names -> AssetRow]
  BY <1>1, <1>2 DEF SameRows
<1>4. \A m \in Names : rows[m].present /\ m \notin lost' => files'[m] = rows[m].content
  BY <1>1, <1>2, <1>3 DEF IInv, BytesKept, Good
<1> QED BY <1>1, <1>3, <1>4, CloseSameRows

LEMMA DeleteKeepsIInv ==
    ASSUME IInv, NEW r \in Requests, DeleteRow(r)
    PROVE  IInv'
<1> DEFINE n == req[r].name
           q == [req[r] EXCEPT !.pc = "unlink"]
<1>1. /\ req[r].pc = "write" /\ req[r].pc # "idle" /\ req[r].op = "delete"
      /\ rows' = [rows EXCEPT ![n] = NoRow]
      /\ links' = Detached(n)
      /\ Move(r, "unlink") /\ UNCHANGED <<files, lost>>
  BY DEF DeleteRow, At
<1>2. /\ req[r] \in RequestState /\ n \in Names /\ n \in 1 .. given
      /\ rows \in [Names -> AssetRow]
      /\ files \in [Names -> Contents \cup {NoFile, Corrupt}]
      /\ links \in [Slots -> 0 .. MaxAssets] /\ lost \subseteq Names
  BY <1>1, OpenFacts
<1>3. /\ rows' \in [Names -> AssetRow] /\ ~rows'[n].present
      /\ \A m \in Names \ {n} : rows'[m] = rows[m]
  BY <1>1, <1>2, ContentFacts, RowTypes
<1>4. /\ links' \in [Slots -> 0 .. MaxAssets]
      /\ \A s \in Slots : links'[s] # 0 => links'[s] = links[s] /\ links'[s] # n
  BY <1>1, <1>2, ContentFacts DEF Detached
<1>5. BytesKept'
  BY <1>1, <1>3 DEF IInv, BytesKept, Good
<1>6. LinksHold'
  <2>1. \A s \in Slots : links'[s] # 0 => links'[s] \in Names \ {n}
    BY <1>2, <1>4, AssetAssumption DEF Names
  <2>2. ASSUME NEW s \in Slots, links'[s] # 0
        PROVE  /\ rows'[links'[s]].present
               /\ rows'[links'[s]].content \in CharacterReferences
    BY <2>1, <2>2, <1>3, <1>4 DEF IInv, LinksHold
  <2>3. ASSUME NEW k \in Names, NEW m \in Names, rows'[k].present, rows'[m].present,
               rows'[k].content = rows'[m].content
        PROVE  k = m
    BY <2>3, <1>3 DEF IInv, LinksHold
  <2> QED BY <2>2, <2>3 DEF LinksHold
<1>7. /\ q \in RequestState /\ q.name = n /\ q.content = req[r].content
      /\ q.pc = "unlink" /\ q.op = "delete"
  BY <1>1, <1>2 DEF RequestState
<1>8. /\ req' = [req EXCEPT ![r] = q] /\ req'[r] = q
      /\ received' \in 0 .. MaxRequests
      /\ given' \in 0 .. MaxAssets /\ given' = given /\ given' >= given
  BY <1>1, GivenFacts DEF Move, IInv, TypeOK
<1> HIDE DEF q
<1>9. RequestSound(r)'
  BY <1>2, <1>3, <1>7, <1>8 DEF RequestSound
<1>10. /\ files' \in [Names -> Contents \cup {NoFile, Corrupt}]
       /\ lost' \subseteq Names
       /\ \A m \in Names : files'[m] = files[m]
       /\ \A m \in Names : rows'[m].present =>
             rows[m].present /\ rows'[m].content = rows[m].content
  BY <1>1, <1>2, <1>3
<1> QED
  BY <1>1, <1>3, <1>4, <1>5, <1>6, <1>7, <1>8, <1>9, <1>10, StepKeepsIInv

LEMMA UnlinkFileKeepsIInv ==
    ASSUME IInv, NEW r \in Requests, UnlinkFile(r)
    PROVE  IInv'
<1> DEFINE n == req[r].name
<1>1. /\ req[r].pc = "unlink" /\ req[r].pc # "idle"
      /\ Close(r) /\ UNCHANGED <<rows, links, lost>>
  BY DEF UnlinkFile, At
<1>2. CASE UNCHANGED files
  BY <1>1, <1>2, CloseUnchanged
<1>3. CASE files' = [files EXCEPT ![n] = NoFile]
  <2>1. /\ n \in Names /\ rows \in [Names -> AssetRow] /\ lost \subseteq Names
        /\ files \in [Names -> Contents \cup {NoFile, Corrupt}]
        /\ ~rows[n].present
    BY <1>1, OpenFacts DEF RequestSound
  <2>2. /\ files' \in [Names -> Contents \cup {NoFile, Corrupt}]
        /\ \A m \in Names : files'[m] = IF m = n THEN NoFile ELSE files[m]
        /\ lost' \subseteq Names /\ SameRows /\ rows' \in [Names -> AssetRow]
    BY <1>1, <1>3, <2>1 DEF SameRows
  <2>3. \A m \in Names : rows[m].present /\ m \notin lost' => files'[m] = rows[m].content
    BY <1>1, <2>1, <2>2 DEF IInv, BytesKept, Good
  <2> QED BY <1>1, <2>2, <2>3, CloseSameRows
<1> QED BY <1>2, <1>3 DEF UnlinkFile

LEMMA LinkKeepsIInv ==
    ASSUME IInv, NEW r \in Requests, LinkReference(r)
    PROVE  IInv'
<1> DEFINE n == req[r].name
           s == req[r].slot
<1>1. /\ req[r].pc = "write" /\ req[r].pc # "idle" /\ req[r].op = "link"
      /\ Close(r) /\ UNCHANGED <<rows, files, lost>>
  BY DEF LinkReference, At
<1>2. /\ n \in Names /\ s \in Slots /\ rows \in [Names -> AssetRow]
      /\ files \in [Names -> Contents \cup {NoFile, Corrupt}]
      /\ links \in [Slots -> 0 .. MaxAssets] /\ lost \subseteq Names
      /\ rows[n].present => rows[n].content \in CharacterReferences
      /\ n \in 0 .. MaxAssets
  BY <1>1, OpenFacts, ContentFacts DEF RequestSound
<1>3. CASE UNCHANGED links
  BY <1>1, <1>3, CloseUnchanged
<1>4. CASE links' = [links EXCEPT ![s] = n] /\ rows[n].present
  <2>1. links' \in [Slots -> 0 .. MaxAssets]
        /\ \A t \in Slots : links'[t] = IF t = s THEN n ELSE links[t]
    BY <1>2, <1>4
  <2>2. LinksHold'
    BY <1>1, <1>2, <1>4, <2>1 DEF IInv, LinksHold
  <2>3. BytesKept' /\ SameRows
    BY <1>1 DEF IInv, BytesKept, Good, SameRows
  <2>4. /\ rows' \in [Names -> AssetRow]
        /\ files' \in [Names -> Contents \cup {NoFile, Corrupt}]
        /\ lost' \subseteq Names
        /\ \A m \in Names : files'[m] = files[m]
        /\ \A m \in Names : rows'[m].present =>
              rows[m].present /\ rows'[m].content = rows[m].content
    BY <1>1, <1>2
  <2> QED BY <1>1, <2>1, <2>2, <2>3, <2>4, CloseKeepsIInv
<1> QED BY <1>3, <1>4 DEF LinkReference

---------------------------------------------------------------------------
(* What happens without a request *)

LEMMA OutsideKeepsIInv ==
    ASSUME IInv, \/ \E s \in Slots : UnlinkReference(s)
                 \/ \E n \in Names : DamageFile(n)
    PROVE  IInv'
<1>1. ASSUME NEW s \in Slots, UnlinkReference(s) PROVE IInv'
  <2>1. /\ links' \in [Slots -> 0 .. MaxAssets]
        /\ \A t \in Slots : links'[t] # 0 => links'[t] = links[t]
        /\ UNCHANGED <<rows, files, given, lost, req, received>>
    BY <1>1, ContentFacts DEF UnlinkReference, IInv, TypeOK
  <2>2. TypeOK' /\ NamesGiven' /\ BytesKept'
    BY <2>1 DEF IInv, TypeOK, NamesGiven, BytesKept, Good
  <2>3. LinksHold'
    BY <2>1 DEF IInv, LinksHold
  <2>4. \A r \in Requests : RequestSound(r)'
    BY <2>1 DEF IInv, RequestSound, Owns
  <2> QED BY <2>2, <2>3, <2>4 DEF IInv
<1>2. ASSUME NEW n \in Names, DamageFile(n) PROVE IInv'
  <2>1. PICK b \in {NoFile, Corrupt} : files' = [files EXCEPT ![n] = b]
    BY <1>2 DEF DamageFile
  <2>2. /\ rows[n].present /\ lost = {} /\ lost' = {n}
        /\ UNCHANGED <<rows, links, given, req, received>>
        /\ files \in [Names -> Contents \cup {NoFile, Corrupt}]
    BY <1>2 DEF DamageFile, IInv, TypeOK
  <2>3. /\ files' \in [Names -> Contents \cup {NoFile, Corrupt}]
        /\ \A m \in Names \ {n} : files'[m] = files[m]
    BY <2>1, <2>2
  <2>4. TypeOK' /\ NamesGiven' /\ LinksHold'
    BY <2>2, <2>3 DEF IInv, TypeOK, NamesGiven, LinksHold
  <2>5. BytesKept'
    BY <2>2, <2>3 DEF IInv, BytesKept, Good
  <2>6. \A r \in Requests : RequestSound(r)'
    <3> SUFFICES ASSUME NEW r \in Requests, req[r].pc # "idle"
                 PROVE  RequestSound(r)'
      BY <2>2 DEF RequestSound
    <3>1. RequestSound(r) /\ req[r].name \in Names
      BY OpenFacts
    <3>2. req[r].pc = "insert" => req[r].name # n
      BY <3>1, <2>2 DEF RequestSound, Owns
    <3> QED BY <3>1, <3>2, <2>2, <2>3 DEF RequestSound, Owns
  <2> QED BY <2>4, <2>5, <2>6 DEF IInv
<1> QED BY <1>1, <1>2

LEMMA InitIInv == Init => IInv
<1> SUFFICES ASSUME Init PROVE IInv
  OBVIOUS
<1>1. TypeOK
  BY AssetAssumption, IdleFacts, ContentFacts, RowTypes DEF Init, TypeOK
<1>2. \A n \in Names : ~rows[n].present
  BY ContentFacts, RowTypes DEF Init
<1>3. NamesGiven /\ BytesKept
  BY <1>2 DEF NamesGiven, BytesKept
<1>4. LinksHold
  BY <1>2 DEF Init, LinksHold
<1>5. \A r \in Requests : RequestSound(r)
  BY IdleFacts DEF Init, RequestSound
<1> QED BY <1>1, <1>3, <1>4, <1>5 DEF IInv

LEMMA NextKeepsIInv == IInv /\ [Next]_vars => IInv'
<1> SUFFICES ASSUME IInv, [Next]_vars PROVE IInv'
  OBVIOUS
<1>1. CASE UNCHANGED vars
  BY <1>1 DEF vars, IInv, TypeOK, NamesGiven, BytesKept, Good, LinksHold,
              RequestSound, Owns
<1>2. ASSUME NEW r \in Requests, Step(r) PROVE IInv'
  <2>1. ASSUME NEW c \in Contents, NEW op \in {"upload", "video", "import"},
               BeginDuplicate(r, op, c) \/ BeginNew(r, op, c)
        PROVE  IInv'
    <3>1. CASE BeginDuplicate(r, op, c)
      <4>1. PICK n \in Found(c) : BeginOn(r, op, "check", n)
        BY <3>1 DEF BeginDuplicate
      <4> QED BY <4>1, BeginOnKeepsIInv DEF Found
    <3> QED BY <2>1, <3>1, BeginNewKeepsIInv
  <2>2. CASE CheckDuplicate(r)
    BY <2>2, CheckKeepsIInv
  <2>3. CASE RepairBytes(r) \/ RestoreMissing(r)
    BY <2>3, RepairKeepsIInv
  <2>4. CASE ReuseDuplicate(r) \/ TransitionApproval(r) \/ ArchiveAsset(r)
    BY <2>4, ApprovalsKeepIInv
  <2>5. CASE WriteFile(r) \/ InsertRow(r) \/ DiscardFile(r)
    BY <2>5, WriteKeepsIInv, InsertKeepsIInv, DiscardKeepsIInv
  <2>6. CASE DeleteRow(r) \/ UnlinkFile(r) \/ LinkReference(r)
    BY <2>6, DeleteKeepsIInv, UnlinkFileKeepsIInv, LinkKeepsIInv
  <2>7. CASE RefreshRow(r) \/ Die(r)
    BY <2>7, CloseUnchanged DEF RefreshRow, Die
  <2>8. ASSUME NEW n \in Names,
               \/ BeginRehydrate(r, n) \/ BeginArchive(r, n) \/ BeginDelete(r, n)
               \/ \E to \in Active : BeginTransition(r, n, to)
               \/ \E s \in Slots : BeginLink(r, n, s)
        PROVE  IInv'
    <3>1. CASE BeginRehydrate(r, n) \/ BeginArchive(r, n) \/ BeginDelete(r, n)
      BY <3>1, BeginOnKeepsIInv DEF BeginRehydrate, BeginArchive, BeginDelete
    <3> QED BY <2>8, <3>1, BeginTransitionKeepsIInv, BeginLinkKeepsIInv
  <2> QED BY <1>2, <2>1, <2>2, <2>3, <2>4, <2>5, <2>6, <2>7, <2>8 DEF Step
<1> QED BY <1>1, <1>2, OutsideKeepsIInv DEF Next

\* The inductive invariant holds in every state of the library.
THEOREM SpecIInv == Spec => []IInv
<1> QED BY InitIInv, NextKeepsIInv, PTL DEF Spec

\* Rows, files, references and the open requests keep their types.
THEOREM TypeCorrect == Spec => []TypeOK
<1>1. IInv => TypeOK
  BY DEF IInv
<1> QED BY <1>1, SpecIInv, PTL

\* For any number of requests, contents and crashes a stored asset has its own
\* bytes on disk, unless they were damaged or given up by the request itself.
THEOREM StoredBytesAreKept == Spec => []BytesKept
<1>1. IInv => BytesKept
  BY DEF IInv
<1> QED BY <1>1, SpecIInv, PTL

\* No deletion, whenever it decided, leaves a reference without its asset, and
\* no race of uploads stores a content twice.
THEOREM ReferencesAreStored == Spec => []LinksHold
<1>1. IInv => LinksHold
  BY DEF IInv
<1> QED BY <1>1, SpecIInv, PTL
=============================================================================
