----------------------------- MODULE ManagedAssets -----------------------------
(***************************************************************************)
(* The media library of a project (services/reference_assets.py and its    *)
(* callers): rows of planning_media_assets, and one managed file per row   *)
(* outside the database.  A row and its file cannot be written in one      *)
(* transaction; the order of the two writes, the clean-up after a failure, *)
(* the repairs, and requests that decide on a row read earlier are what    *)
(* this module is about.                                                   *)
(*                                                                         *)
(* A file is named by a fresh UUID, so a row and its file share a name     *)
(* here.  From the first flush to its commit a request holds the write     *)
(* lock of SQLite and is one step.                                         *)
(*                                                                         *)
(* Left out: what the bytes are (a content stands for a kind and a         *)
(* SHA-256), formats and limits, projects, the audit rows, temporary files *)
(* (.partial, .repair), and the stories an operation turns into drafts     *)
(* (those are edits of StoryboardPlan).                                    *)
(***************************************************************************)
EXTENDS Integers

CONSTANTS Requests,             \* requests and scripts open at the same time
          Slots,                \* places for a reference of a character
          StartingImages,       \* contents of kind starting_image
          CharacterReferences,  \* contents of kind character_reference
          Videos,               \* contents of kind video_source
          NoFile, Corrupt,      \* no file, and bytes with another SHA-256
          MaxAssets,            \* bound: the names given to new files
          MaxRequests           \* bound: the requests in all

Contents == StartingImages \cup CharacterReferences \cup Videos
Names == 1 .. MaxAssets

ASSUME AssetAssumption ==
    /\ {NoFile, Corrupt} \cap Contents = {}
    /\ NoFile # Corrupt
    /\ StartingImages \cap CharacterReferences = {}
    /\ (StartingImages \cup CharacterReferences) \cap Videos = {}
    /\ Contents # {}
    /\ Slots # {}
    /\ MaxAssets \in Nat
    /\ MaxRequests \in Nat

VARIABLES rows,      \* planning_media_assets, by the name of the file
          files,     \* the managed files
          links,     \* character_reference_assets: slot -> name, 0 is no link
          given,     \* how many names have been given
          lost,      \* history: names whose bytes were damaged or taken away
          req,       \* the open requests
          received   \* how many requests have begun

vars == <<rows, files, links, given, lost, req, received>>

Active == {"draft", "in_review", "approved"}   \* and "blocked", like in_review

AssetRow == [present : BOOLEAN, content : Contents, archived : BOOLEAN,
             approval : Active \cup {"archived"}]

RequestState == [op   : {"none", "upload", "video", "import", "transition",
                         "archive", "delete", "link", "rehydrate"},
                 pc   : {"idle", "check", "repair", "reuse", "file", "insert",
                         "refresh", "write", "unlink"},
                 content : Contents,
                 name : 0 .. MaxAssets,
                 seen : AssetRow,               \* the row it read
                 to   : Active,                 \* new approval state
                 slot : Slots]

TypeOK ==
    /\ rows \in [Names -> AssetRow]
    /\ files \in [Names -> Contents \cup {NoFile, Corrupt}]
    /\ links \in [Slots -> 0 .. MaxAssets]
    /\ given \in 0 .. MaxAssets
    /\ lost \subseteq Names
    /\ req \in [Requests -> RequestState]
    /\ received \in 0 .. MaxRequests

---------------------------------------------------------------------------
(* Rows, files and requests *)

AnyContent == CHOOSE c \in Contents : TRUE

Row(content) == [present |-> TRUE, content |-> content, archived |-> FALSE,
                 approval |-> "draft"]

NoRow == [Row(AnyContent) EXCEPT !.present = FALSE]

Idle == [op |-> "none", pc |-> "idle", content |-> AnyContent, name |-> 0,
         seen |-> NoRow, to |-> "draft", slot |-> CHOOSE s \in Slots : TRUE]

Init ==
    /\ rows = [n \in Names |-> NoRow]
    /\ files = [n \in Names |-> NoFile]
    /\ links = [s \in Slots |-> 0]
    /\ given = 0
    /\ lost = {}
    /\ req = [r \in Requests |-> Idle]
    /\ received = 0

\* find_duplicate: the unique index leaves one row at most.
Found(c) == {n \in Names : rows[n].present /\ rows[n].content = c}

Good(n) == files[n] = rows[n].content

\* A column is written when the session changed what it had read.
Written(now, read, new) == IF new = read THEN now ELSE new

Begin(r, q) ==
    /\ req[r].pc = "idle"
    /\ received < MaxRequests
    /\ received' = received + 1
    /\ req' = [req EXCEPT ![r] = q]
    /\ UNCHANGED <<rows, files, links, lost>>

\* A request that works on an existing row reads it first.
BeginOn(r, op, pc, n) ==
    /\ rows[n].present
    /\ Begin(r, [Idle EXCEPT !.op = op, !.pc = pc, !.name = n,
                             !.content = rows[n].content, !.seen = rows[n]])
    /\ UNCHANGED given

Move(r, pc) == req' = [req EXCEPT ![r].pc = pc] /\ UNCHANGED <<given, received>>

Close(r) == req' = [req EXCEPT ![r] = Idle] /\ UNCHANGED <<given, received>>

At(r, pc) == req[r].pc = pc

\* An UPDATE of a row that is gone fails, and the request with it.
Update(n, row) ==
    rows' = IF rows[n].present THEN [rows EXCEPT ![n] = row] ELSE rows

---------------------------------------------------------------------------
(* Storing bytes: upload_asset, upload_video_asset_from_fileobj, and         *)
(* stage_asset_for_transaction with the import that commits for it           *)

Arrives(op, c) ==
    \/ op = "upload" /\ c \notin Videos
    \/ op = "video" /\ c \in Videos
    \/ op = "import" /\ c \in StartingImages

BeginDuplicate(r, op, c) ==
    /\ Arrives(op, c)
    /\ \E n \in Found(c) : BeginOn(r, op, "check", n)

BeginNew(r, op, c) ==
    /\ Arrives(op, c)
    /\ Found(c) = {}
    /\ given < MaxAssets
    /\ Begin(r, [Idle EXCEPT !.op = op, !.pc = "file", !.content = c,
                             !.name = given + 1])
    /\ given' = given + 1

\* Only an upload repairs a duplicate's bytes or takes it out of the archive; a
\* video or an import refuses bad bytes, an import also an archived row.
CheckDuplicate(r) ==
    /\ At(r, "check")
    /\ IF req[r].op # "upload" THEN Close(r)
       ELSE Move(r, IF Good(req[r].name) THEN "reuse" ELSE "repair")
    /\ UNCHANGED <<rows, files, links, lost>>

\* repair_duplicate_asset_bytes: temporary file, verified, moved into place.
RepairBytes(r) ==
    /\ At(r, "repair")
    /\ files' = [files EXCEPT ![req[r].name] = req[r].content]
    /\ lost' = lost \ {req[r].name}
    /\ Close(r)
    /\ UNCHANGED <<rows, links>>

\* A healthy duplicate is taken out of the archive.
ReuseDuplicate(r) ==
    /\ At(r, "reuse")
    /\ LET n == req[r].name
           seen == req[r].seen
           back == IF seen.archived /\ seen.approval = "archived"
                   THEN "draft" ELSE seen.approval
       IN Update(n, [rows[n] EXCEPT
                       !.archived = Written(@, seen.archived, FALSE),
                       !.approval = Written(@, seen.approval, back)])
    /\ Close(r)
    /\ UNCHANGED <<files, links, lost>>

WriteFile(r) ==
    /\ At(r, "file")
    /\ files' = [files EXCEPT ![req[r].name] = req[r].content]
    /\ Move(r, "insert")
    /\ UNCHANGED <<rows, links, lost>>

\* The unique (project, kind, SHA-256) index refuses a second row.  An import
\* has nothing to do after its commit, the others read the row back.
InsertRow(r) ==
    /\ At(r, "insert")
    /\ Found(req[r].content) = {}
    /\ rows' = [rows EXCEPT ![req[r].name] = Row(req[r].content)]
    /\ IF req[r].op = "import" THEN Close(r) ELSE Move(r, "refresh")
    /\ UNCHANGED <<files, links, lost>>

RefreshRow(r) ==
    /\ At(r, "refresh")
    /\ rows[req[r].name].present
    /\ Close(r)
    /\ UNCHANGED <<rows, files, links, lost>>

\* Mutant: the clean-up removes what bears the content, not the own file.
DiscardFound(r) ==
    /\ req[r].pc \in {"insert", "refresh"}
    /\ files' = [n \in Names |->
                   IF n = req[r].name \/ n \in Found(req[r].content)
                   THEN NoFile ELSE files[n]]
    /\ lost' = IF rows[req[r].name].present THEN lost \cup {req[r].name}
               ELSE lost
    /\ Close(r)
    /\ UNCHANGED <<rows, links>>

\* An exception up to the end of the request removes the file it wrote: an
\* insert that is refused, and also a refresh that fails after the commit.
DiscardFile(r) ==
    /\ req[r].pc \in {"insert", "refresh"}
    /\ files' = [files EXCEPT ![req[r].name] = NoFile]
    /\ lost' = IF rows[req[r].name].present THEN lost \cup {req[r].name}
               ELSE lost
    /\ Close(r)
    /\ UNCHANGED <<rows, links>>

\* rehydrate_missing_asset, called by the bundle's repair: installs the bytes
\* only while the destination is absent.
BeginRehydrate(r, n) ==
    /\ files[n] = NoFile
    /\ BeginOn(r, "rehydrate", "write", n)

RestoreMissing(r) ==
    /\ At(r, "write")
    /\ req[r].op = "rehydrate"
    /\ IF files[req[r].name] = NoFile
       THEN /\ files' = [files EXCEPT ![req[r].name] = req[r].content]
            /\ lost' = lost \ {req[r].name}
       ELSE UNCHANGED <<files, lost>>
    /\ Close(r)
    /\ UNCHANGED <<rows, links>>

---------------------------------------------------------------------------
(* Approval of a starting image, archive, delete *)

\* The state the reviewer expects is the one the row has; bytes are looked for
\* before an approval.
BeginTransition(r, n, to) ==
    /\ rows[n].content \in StartingImages
    /\ ~rows[n].archived
    /\ rows[n].approval \notin {"archived", to}
    /\ to = "approved" => files[n] # NoFile
    /\ rows[n].present
    /\ Begin(r, [Idle EXCEPT !.op = "transition", !.pc = "write", !.name = n,
                             !.content = rows[n].content, !.seen = rows[n],
                             !.to = to])
    /\ UNCHANGED given

TransitionApproval(r) ==
    /\ At(r, "write")
    /\ req[r].op = "transition"
    /\ Update(req[r].name, [rows[req[r].name] EXCEPT !.approval = req[r].to])
    /\ Close(r)
    /\ UNCHANGED <<files, links, lost>>

BeginArchive(r, n) ==
    /\ ~rows[n].archived
    /\ BeginOn(r, "archive", "write", n)

ArchiveAsset(r) ==
    /\ At(r, "write")
    /\ req[r].op = "archive"
    /\ LET n == req[r].name
       IN Update(n, [rows[n] EXCEPT
                       !.archived = TRUE,
                       !.approval = Written(@, req[r].seen.approval, "archived")])
    /\ Close(r)
    /\ UNCHANGED <<files, links, lost>>

\* An archived asset, or with force=true a draft.
Deletable(row) == row.archived \/ row.approval \in {"draft", "archived"}

BeginDelete(r, n) ==
    /\ Deletable(rows[n])
    /\ BeginOn(r, "delete", "write", n)

\* Mutant: the references of the asset are left behind.
KeepLinks(n) == links

\* The links listed before, and by ON DELETE CASCADE those that came since.
Detached(n) == [s \in Slots |-> IF links[s] = n THEN 0 ELSE links[s]]

DeleteRow(r) ==
    /\ At(r, "write")
    /\ req[r].op = "delete"
    /\ rows' = [rows EXCEPT ![req[r].name] = NoRow]
    /\ links' = Detached(req[r].name)
    /\ Move(r, "unlink")
    /\ UNCHANGED <<files, lost>>

\* The file goes after the commit; an OSError leaves it.
UnlinkFile(r) ==
    /\ At(r, "unlink")
    /\ \/ files' = [files EXCEPT ![req[r].name] = NoFile]
       \/ UNCHANGED files
    /\ Close(r)
    /\ UNCHANGED <<rows, links, lost>>

---------------------------------------------------------------------------
(* References of a character *)

BeginLink(r, n, s) ==
    /\ rows[n].present
    /\ ~rows[n].archived
    /\ rows[n].content \in CharacterReferences
    /\ links[s] = 0
    /\ Begin(r, [Idle EXCEPT !.op = "link", !.pc = "write", !.name = n,
                             !.content = rows[n].content, !.seen = rows[n],
                             !.slot = s])
    /\ UNCHANGED given

\* The foreign key and the unique (character, order) are what the insert meets.
LinkReference(r) ==
    /\ At(r, "write")
    /\ req[r].op = "link"
    /\ IF rows[req[r].name].present /\ links[req[r].slot] = 0
       THEN links' = [links EXCEPT ![req[r].slot] = req[r].name]
       ELSE UNCHANGED links
    /\ Close(r)
    /\ UNCHANGED <<rows, files, lost>>

UnlinkReference(s) ==
    /\ links[s] # 0
    /\ links' = [links EXCEPT ![s] = 0]
    /\ UNCHANGED <<rows, files, given, lost, req, received>>

---------------------------------------------------------------------------
(* What happens to the requests and to the files *)

\* The process dies, or an exception ends the request before it wrote a row:
\* nothing is cleaned up.
Die(r) ==
    /\ req[r].pc # "idle"
    /\ Close(r)
    /\ UNCHANGED <<rows, files, links, lost>>

\* Somebody removes or changes a file behind the backend's back.
DamageFile(n) ==
    /\ lost = {}
    /\ rows[n].present
    /\ files[n] # NoFile
    /\ \E b \in {NoFile, Corrupt} : files' = [files EXCEPT ![n] = b]
    /\ lost' = {n}
    /\ UNCHANGED <<rows, links, given, req, received>>

Step(r) ==
    \/ \E c \in Contents, op \in {"upload", "video", "import"} :
          BeginDuplicate(r, op, c) \/ BeginNew(r, op, c)
    \/ CheckDuplicate(r) \/ RepairBytes(r) \/ ReuseDuplicate(r)
    \/ WriteFile(r) \/ InsertRow(r) \/ RefreshRow(r) \/ DiscardFile(r)
    \/ RestoreMissing(r) \/ TransitionApproval(r) \/ ArchiveAsset(r)
    \/ DeleteRow(r) \/ UnlinkFile(r) \/ LinkReference(r) \/ Die(r)
    \/ \E n \in Names :
          \/ BeginRehydrate(r, n) \/ BeginArchive(r, n) \/ BeginDelete(r, n)
          \/ \E to \in Active : BeginTransition(r, n, to)
          \/ \E s \in Slots : BeginLink(r, n, s)

Next == \/ \E r \in Requests : Step(r)
        \/ \E s \in Slots : UnlinkReference(s)
        \/ \E n \in Names : DamageFile(n)

Spec == Init /\ [][Next]_vars

---------------------------------------------------------------------------
(* Properties *)

\* Whoever races, fails or dies between the database and the file system: the
\* bytes of a stored asset are its own and on disk, unless somebody damaged the
\* file or the read after the commit failed in the request that stored them.
BytesKept ==
    \A n \in Names : rows[n].present /\ n \notin lost => Good(n)

\* A reference of a character is a stored asset of the right kind, and two rows
\* never stand for one content, although links, deletions and uploads decide on
\* rows read before.
LinksHold ==
    /\ \A s \in Slots : links[s] # 0 =>
          /\ rows[links[s]].present
          /\ rows[links[s]].content \in CharacterReferences
    /\ \A n, m \in Names :
          rows[n].present /\ rows[m].present /\ rows[n].content = rows[m].content
            => n = m

---------------------------------------------------------------------------
(* Stated by a comment or a document, not kept by the code: TLC refutes each. *)

\* delete_asset, "Hard delete only when archived (or force=True for draft
\* assets)": no row that is neither disappears.
DeletePolicy ==
    [][\A n \in Names : rows[n].present /\ ~rows'[n].present
                          => Deletable(rows[n])]_vars
=============================================================================
