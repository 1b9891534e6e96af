------------------------------- MODULE StoryTree -------------------------------
(***************************************************************************)
(* The chapters, scenes and shots of one story, the continuity links       *)
(* between shots and the characters linked to them                         *)
(* (backend/app/services/storyboard.py; the replacement of the whole tree  *)
(* by a proposal is upsert_hierarchy of storyboard_mutations.py).          *)
(*                                                                         *)
(* A request first loads the node it is about, with the nodes above it,    *)
(* and refuses an archived one.  Only then does it select the story row    *)
(* FOR UPDATE.  What it loaded before stays in its session: the nodes      *)
(* count as active and the columns as they were, although another request  *)
(* may have committed while this one waited.  Everything else is read      *)
(* under the lock, so that the rest of a request is one step here.  The    *)
(* database is PostgreSQL: SQLite ignores the lock.                        *)
(*                                                                         *)
(* Left out: titles and the like, approvals of single rows and the other   *)
(* grounds of a refusal (Refuse may always happen), voices, narration.     *)
(***************************************************************************)
EXTENDS Integers, FiniteSets

CONSTANTS Chapters, Scenes, Shots, Characters,   \* identities of rows
          NoShot,      \* no continuity source
          Nowhere,     \* the parent of a chapter, and of a row not made yet
          Story,       \* the request is about the story itself
          Nobody,      \* no request is open
          Requests,    \* HTTP requests that may be open at the same time
          ShotOrders,  \* bound: the order_index values clients send for shots
          GroupOrders, \* bound: and for chapters and scenes
          MaxGroups,   \* bound: the chapters, and the scenes, of a proposal
          MaxShots     \* bound: the shots of a proposal

ASSUME TreeAssumption ==
    /\ IsFiniteSet(Chapters) /\ IsFiniteSet(Scenes) /\ IsFiniteSet(Shots)
    /\ Chapters \cap Scenes = {} /\ Chapters \cap Shots = {} /\ Scenes \cap Shots = {}
    /\ Characters \cap (Chapters \cup Scenes \cup Shots) = {}
    /\ \A n \in {Story, Nobody} : n \notin Chapters \cup Scenes \cup Shots
    /\ NoShot \notin Shots
    /\ Nowhere \notin Chapters \cup Scenes
    /\ ShotOrders \subseteq Nat /\ GroupOrders \subseteq Nat
    /\ MaxGroups \in Nat /\ MaxShots \in Nat

VARIABLES tree,        \* the rows of chapters, scenes and shots
          character,   \* the characters of the story
          links,       \* the rows of shot_characters
          req,         \* the open requests
          repeated     \* history: an applied proposal named a shot twice

vars == <<tree, character, links, req, repeated>>

Tomb == -1   \* a private negative position of an archived row

States == {"none", "active", "archived"}

Rows(parents) == [state : States, parent : parents \cup {Nowhere},
                  order : Nat \cup {Tomb}]

ShotRow == [state : States, parent : Scenes \cup {Nowhere},
            order : Nat \cup {Tomb}, source : Shots \cup {NoShot}]

TreeType == [chapter : [Chapters -> Rows({})],
             scene   : [Scenes -> Rows(Chapters)],
             shot    : [Shots -> ShotRow]]

\* The node a request loaded and, of a shot, the row.
RequestState == [node : Chapters \cup Scenes \cup Shots \cup Characters
                          \cup {Story, Nobody},
                 seen : ShotRow]

TypeOK ==
    /\ tree \in TreeType
    /\ character \in [Characters -> States]
    /\ links \subseteq Shots \X Characters
    /\ req \in [Requests -> RequestState]
    /\ repeated \in BOOLEAN

---------------------------------------------------------------------------
(* The tree *)

NoRow == [state |-> "none", parent |-> Nowhere, order |-> Tomb]

NoShotRow == [state |-> "none", parent |-> Nowhere, order |-> Tomb,
              source |-> NoShot]

Idle == [node |-> Nobody, seen |-> NoShotRow]

Init ==
    /\ tree = [chapter |-> [c \in Chapters |-> NoRow],
               scene   |-> [s \in Scenes |-> NoRow],
               shot    |-> [x \in Shots |-> NoShotRow]]
    /\ character = [k \in Characters |-> "none"]
    /\ links = {}
    /\ req = [r \in Requests |-> Idle]
    /\ repeated = FALSE

Made(rows) == {n \in DOMAIN rows : rows[n].state # "none"}

Active(rows) == {n \in DOMAIN rows : rows[n].state = "active"}

Siblings(rows, parent) == {n \in Made(rows) : rows[n].parent = parent}

SceneOf(t, x) == t.shot[x].parent

ChapterOf(t, x) == t.scene[SceneOf(t, x)].parent

\* The shots an author sees: nothing above them is archived.
Visible(t) == {x \in Active(t.shot) : /\ SceneOf(t, x) \in Active(t.scene)
                                      /\ ChapterOf(t, x) \in Active(t.chapter)}

Position(t, x) == <<t.chapter[ChapterOf(t, x)].order,
                    t.scene[SceneOf(t, x)].order,
                    t.shot[x].order>>

Precedes(t, x, y) ==
    LET p == Position(t, x)
        q == Position(t, y)
    IN \E i \in 1 .. 3 : p[i] < q[i] /\ \A j \in 1 .. i - 1 : p[j] = q[j]

\* The walk along continuity sources that starts at x comes to y.
Leads(t, x, y) ==
    \A W \in SUBSET Shots :
        (/\ x \in W
         /\ \A w \in W : t.shot[w].source # NoShot => t.shot[w].source \in W)
        => y \in W

\* uq_chapter_story_order, uq_scene_chapter_order, uq_shot_scene_order.
DistinctIn(rows) ==
    \A m, n \in Made(rows) :
        (m # n /\ rows[m].parent = rows[n].parent /\ rows[m].order # Tomb)
        => rows[m].order # rows[n].order

\* _reindex_active_siblings: the active ones 0, 1, ..., the archived ones out of the way.
Reindexed(rows, parent) ==
    [n \in DOMAIN rows |->
        IF n \notin Siblings(rows, parent) THEN rows[n]
        ELSE [rows[n] EXCEPT !.order =
                IF rows[n].state = "archived" THEN Tomb
                ELSE Cardinality({m \in Siblings(rows, parent) \cap Active(rows) :
                                    rows[m].order < rows[n].order})]]

ArchiveIn(rows, nodes) ==
    [n \in DOMAIN rows |->
        IF n \in nodes THEN [rows[n] EXCEPT !.state = "archived"] ELSE rows[n]]

---------------------------------------------------------------------------
(* Requests *)

\* What a request about node n holds in its session as active.
Held(t, n) ==
    CASE n \in Shots  -> {n, SceneOf(t, n), ChapterOf(t, n)}
      [] n \in Scenes -> {n, t.scene[n].parent}
      [] OTHER        -> {n}

\* _active_shot_context of a request that holds some nodes.
ContextActive(t, held, x) ==
    /\ x \in held \cup Active(t.shot)
    /\ SceneOf(t, x) \in held \cup Active(t.scene)
    /\ ChapterOf(t, x) \in held \cup Active(t.chapter)

\* Mutant: the walk along the sources is missing.
ValidWithoutWalk(t, held, x, source) ==
    source # NoShot =>
      /\ source # x
      /\ ContextActive(t, held, x)
      /\ ContextActive(t, held, source)
      /\ Precedes(t, source, x)

\* _validate_continuity: the source is active and precedes, and so are those
\* the walk meets active, none of them the target.
ValidContinuity(t, held, x, source) ==
    source # NoShot =>
      /\ source # x
      /\ ContextActive(t, held, x)
      /\ Precedes(t, source, x)
      /\ \A y \in Shots : Leads(t, source, y) => y # x /\ ContextActive(t, held, y)

\* The nodes a request may be about: active, and so is all above them.
Loadable ==
    {Story} \cup Active(tree.chapter) \cup Visible(tree)
    \cup {s \in Active(tree.scene) : tree.scene[s].parent \in Active(tree.chapter)}
    \cup {k \in Characters : character[k] = "active"}

\* A request loads its node and waits for the lock on the story.
Begin(r) ==
    /\ req[r].node = Nobody
    /\ \E n \in Loadable :
         req' = [req EXCEPT ![r] =
                   [node |-> n, seen |-> IF n \in Shots THEN tree.shot[n] ELSE NoShotRow]]
    /\ UNCHANGED <<tree, character, links, repeated>>

Close(r) == req' = [req EXCEPT ![r] = Idle]

\* The request gives an error and writes nothing.
Refuse(r) ==
    /\ req[r].node # Nobody
    /\ Close(r)
    /\ UNCHANGED <<tree, character, links, repeated>>

\* The rows are flushed and the transaction commits.
CommitTree(r, t) ==
    /\ DistinctIn(t.chapter) /\ DistinctIn(t.scene) /\ DistinctIn(t.shot)
    /\ tree' = t
    /\ UNCHANGED <<character, links, repeated>>
    /\ Close(r)

CommitLinks(r, new) ==
    /\ links' = new
    /\ UNCHANGED <<tree, character, repeated>>
    /\ Close(r)

---------------------------------------------------------------------------
(* Shots *)

Inserted(parent, order) == [state |-> "active", parent |-> parent, order |-> order]

\* create_shot: the row is flushed, then validated.
CreateShot(r) ==
    LET s == req[r].node IN
    /\ s \in Scenes
    /\ \E x \in Shots \ Made(tree.shot), order \in ShotOrders,
          source \in Shots \cup {NoShot} :
         LET t == [tree EXCEPT !.shot[x] =
                     [state |-> "active", parent |-> s, order |-> order,
                      source |-> source]]
         IN /\ source \in Made(t.shot) \cup {NoShot}
            /\ ValidContinuity(t, Held(tree, s), x, source)
            /\ CommitTree(r, t)

\* A column is written when it differs from what the session had read.
Edited(x, seen, order, source) ==
    LET row == tree.shot[x] IN
    [tree EXCEPT !.shot[x] =
        [row EXCEPT !.order  = IF order = seen.order THEN row.order ELSE order,
                    !.source = IF source = seen.source THEN row.source ELSE source]]

\* update_shot (PUT): the row is flushed, then validated.
PutShot(r) ==
    LET x == req[r].node IN
    /\ x \in Shots
    /\ \E order \in ShotOrders, source \in Made(tree.shot) \cup {NoShot} :
         LET t == Edited(x, req[r].seen, order, source)
         IN /\ ValidContinuity(t, Held(tree, x), x, source)
            /\ CommitTree(r, t)

\* patch_shot: a field not given keeps the value read.  The continuity is
\* validated before the flush and again after it; the shots that have this
\* one as their source are not looked at.
PatchShot(r) ==
    LET x == req[r].node
        seen == req[r].seen
    IN
    /\ x \in Shots
    /\ \E order \in {seen.order} \cup ShotOrders,
          source \in {seen.source, NoShot} \cup Made(tree.shot) :
         LET t == Edited(x, seen, order, source)
         IN /\ order # seen.order =>
                 \A y \in Siblings(tree.shot, seen.parent) \cap Active(tree.shot) :
                    y # x => tree.shot[y].order # order
            /\ ValidContinuity(tree, Held(tree, x), x, source)
            /\ ValidContinuity(t, Held(tree, x), x, source)
            /\ CommitTree(r, t)

\* Mutant: the dependents of what is archived are not asked for.
NobodyDepends(doomed) == TRUE

\* _external_continuity_dependents: no visible shot outside has its source among them.
NoDependents(doomed) ==
    \A y \in Visible(tree) \ doomed : tree.shot[y].source \notin doomed

ArchiveShot(r) ==
    LET x == req[r].node IN
    /\ x \in Shots
    /\ NoDependents({x})
    /\ CommitTree(r, [tree EXCEPT !.shot =
                        Reindexed(ArchiveIn(@, {x}), SceneOf(tree, x))])

---------------------------------------------------------------------------
(* Scenes and chapters *)

CreateScene(r) ==
    LET c == req[r].node IN
    /\ c \in Chapters
    /\ \E s \in Scenes \ Made(tree.scene), order \in GroupOrders :
         CommitTree(r, [tree EXCEPT !.scene[s] = Inserted(c, order)])

CreateChapter(r) ==
    /\ req[r].node = Story
    /\ \E c \in Chapters \ Made(tree.chapter), order \in GroupOrders :
         CommitTree(r, [tree EXCEPT !.chapter[c] = Inserted(Nowhere, order)])

ShotsUnder(scenes) == {x \in Active(tree.shot) : SceneOf(tree, x) \in scenes}

ArchiveScene(r) ==
    LET s == req[r].node IN
    /\ s \in Scenes
    /\ NoDependents(ShotsUnder({s}))
    /\ CommitTree(r, [tree EXCEPT
                        !.shot = ArchiveIn(@, ShotsUnder({s})),
                        !.scene = Reindexed(ArchiveIn(@, {s}), tree.scene[s].parent)])

ArchiveChapter(r) ==
    LET c == req[r].node
        scenes == Siblings(tree.scene, c)
    IN
    /\ c \in Chapters
    /\ NoDependents(ShotsUnder(scenes))
    /\ CommitTree(r, [tree EXCEPT
                        !.shot = ArchiveIn(@, ShotsUnder(scenes)),
                        !.scene = ArchiveIn(@, scenes \cap Active(tree.scene)),
                        !.chapter = Reindexed(ArchiveIn(@, {c}), Nowhere)])

\* The active children of a parent exchange their positions.
Reorderings(rows, parent) ==
    LET kids == Siblings(rows, parent) \cap Active(rows)
        slots == {rows[n].order : n \in kids}
        Placed(f) == [n \in DOMAIN rows |->
                        IF n \in kids THEN [rows[n] EXCEPT !.order = f[n]] ELSE rows[n]]
    IN {Placed(f) : f \in {g \in [kids -> slots] :
                             \A m, n \in kids : m # n => g[m] # g[n]}}

\* reorder: afterwards every visible shot is validated.
AllValid(t, held) ==
    \A x \in Visible(t) : ValidContinuity(t, held, x, t.shot[x].source)

Reorder(r) ==
    LET n == req[r].node IN
    \E t \in {[tree EXCEPT !.chapter = rows] :
                 rows \in IF n = Story THEN Reorderings(tree.chapter, Nowhere) ELSE {}}
             \cup {[tree EXCEPT !.scene = rows] :
                 rows \in IF n \in Chapters THEN Reorderings(tree.scene, n) ELSE {}}
             \cup {[tree EXCEPT !.shot = rows] :
                 rows \in IF n \in Scenes THEN Reorderings(tree.shot, n) ELSE {}} :
        /\ AllValid(t, Held(tree, n))
        /\ CommitTree(r, t)

---------------------------------------------------------------------------
(* Characters *)

CreateCharacter(r) ==
    /\ req[r].node = Story
    /\ \E k \in Characters :
         /\ character[k] = "none"
         /\ character' = [character EXCEPT ![k] = "active"]
    /\ UNCHANGED <<tree, links, repeated>>
    /\ Close(r)

ArchiveCharacter(r) ==
    LET k == req[r].node IN
    /\ k \in Characters
    /\ \A x \in Visible(tree) : <<x, k>> \notin links
    /\ character' = [character EXCEPT ![k] = "archived"]
    /\ UNCHANGED <<tree, links, repeated>>
    /\ Close(r)

LinkCharacter(r) ==
    LET x == req[r].node IN
    /\ x \in Shots
    /\ \E k \in Characters :
         /\ character[k] = "active"
         /\ <<x, k>> \notin links
         /\ CommitLinks(r, links \cup {<<x, k>>})

UnlinkCharacter(r) ==
    LET x == req[r].node IN
    /\ x \in Shots
    /\ \E k \in Characters :
         /\ character[k] = "active"
         /\ <<x, k>> \in links
         /\ CommitLinks(r, links \ {<<x, k>>})

LinksOf(shots) == {l \in links : l[1] \in shots}

ReplaceCharacters(r) ==
    LET x == req[r].node IN
    /\ x \in Shots
    /\ \E new \in SUBSET {k \in Characters : character[k] = "active"} :
         CommitLinks(r, (links \ LinksOf({x})) \cup {<<x, k>> : k \in new})

---------------------------------------------------------------------------
(* A proposal replaces the tree.  It lists chapters, scenes and shots; item *)
(* i is the row item[i] under the item under[i] of the kind above.          *)

\* Only a shot may be named by two items here: the planner repeats the shots
\* of a plan, with their ids, when the duration asks for more of them.
Listings(rows, above, max) ==
    UNION {[item : [1 .. n -> DOMAIN rows], under : [1 .. n -> DOMAIN above]] :
             n \in 1 .. max}

WellPlaced(rows, above, list) ==
    /\ \A i \in DOMAIN list.item :
         /\ i + 1 \in DOMAIN list.item => list.under[i] <= list.under[i + 1]
         /\ rows[list.item[i]].state # "none"
              => rows[list.item[i]].parent = above[list.under[i]]
    /\ \A i, j \in DOMAIN list.item :
         i # j /\ list.item[i] = list.item[j] => rows[list.item[i]].state # "none"

Repeats(list) == \E i, j \in DOMAIN list.item : i # j /\ list.item[i] = list.item[j]

\* The last item that names a row prevails.
ItemOf(list, n) ==
    CHOOSE i \in DOMAIN list.item :
        /\ list.item[i] = n
        /\ \A j \in DOMAIN list.item : list.item[j] = n => j <= i

Named(list) == {list.item[i] : i \in DOMAIN list.item}

\* Its place among the items under the same parent.
PlaceOf(list, n) ==
    Cardinality({j \in DOMAIN list.item : /\ j < ItemOf(list, n)
                                          /\ list.under[j] = list.under[ItemOf(list, n)]})

\* Listed rows are active where the list puts them; under a listed parent the
\* others are archived and put out of the way.
Replaced(rows, above, list) ==
    [n \in DOMAIN rows |->
        IF n \in Named(list)
        THEN [rows[n] EXCEPT !.state = "active",
                             !.parent = above[list.under[ItemOf(list, n)]],
                             !.order = PlaceOf(list, n)]
        ELSE IF n \in Made(rows) /\ \E i \in DOMAIN above : above[i] = rows[n].parent
        THEN [rows[n] EXCEPT !.state = "archived", !.order = Tomb]
        ELSE rows[n]]

\* The sources: an earlier item (0 is none) that is not the same row.
Sourced(rows, list, source) ==
    [x \in DOMAIN rows |->
        IF x \notin Named(list) THEN rows[x]
        ELSE [rows[x] EXCEPT !.source =
                IF source[ItemOf(list, x)] = 0 THEN NoShot
                ELSE list.item[source[ItemOf(list, x)]]]]

SourceLists(list) ==
    {f \in [DOMAIN list.item -> 0 .. MaxShots] :
        \A i \in DOMAIN list.item :
            f[i] < i /\ (f[i] # 0 => list.item[f[i]] # list.item[i])}

\* upsert_characters, upsert_hierarchy and, when the plan is a full one,
\* _archive_omitted_identities.
ApplyProposal(r) ==
    /\ req[r].node = Story
    /\ \E cs \in Listings(tree.chapter, <<Nowhere>>, MaxGroups) :
         /\ WellPlaced(tree.chapter, <<Nowhere>>, cs) /\ ~Repeats(cs)
         /\ \E ss \in Listings(tree.scene, cs.item, MaxGroups) :
              /\ WellPlaced(tree.scene, cs.item, ss) /\ ~Repeats(ss)
              /\ \E xs \in Listings(tree.shot, ss.item, MaxShots) :
                   /\ WellPlaced(tree.shot, ss.item, xs)
                   /\ \E source \in SourceLists(xs) :
                        tree' = [chapter |-> Replaced(tree.chapter, <<Nowhere>>, cs),
                                 scene |-> Replaced(tree.scene, cs.item, ss),
                                 shot |-> Sourced(Replaced(tree.shot, ss.item, xs),
                                                  xs, source)]
                   /\ repeated' = (repeated \/ Repeats(xs))
                   /\ \E kept \in SUBSET Characters, full \in BOOLEAN :
                        /\ character' = [k \in Characters |->
                              IF k \in kept THEN "active"
                              ELSE IF full /\ character[k] = "active" THEN "archived"
                              ELSE character[k]]
                        /\ \E new \in SUBSET (Named(xs) \X kept) :
                              links' = (links \ LinksOf(Named(xs))) \cup new
    /\ Close(r)

Next ==
    \E r \in Requests :
        \/ Begin(r) \/ Refuse(r)
        \/ CreateChapter(r) \/ CreateScene(r) \/ CreateShot(r)
        \/ PutShot(r) \/ PatchShot(r)
        \/ ArchiveShot(r) \/ ArchiveScene(r) \/ ArchiveChapter(r)
        \/ Reorder(r)
        \/ CreateCharacter(r) \/ ArchiveCharacter(r)
        \/ LinkCharacter(r) \/ UnlinkCharacter(r) \/ ReplaceCharacters(r)
        \/ ApplyProposal(r)

Spec == Init /\ [][Next]_vars

---------------------------------------------------------------------------
(* Properties *)

\* Following continuity sources never comes back to the same shot.  Patching a
\* shot's position does not look at the shots that depend on it, so a source may
\* come to lie behind its target; only the walk of _validate_continuity then
\* keeps a later request from closing the circle.
AcyclicIn(t) ==
    \A S \in SUBSET Shots :
        S # {} => \E x \in S : t.shot[x].source \notin S

\* "Continuity links may not form a cycle" (storyboard.py:659).  TLC refutes it: see
\* ApplyProposal.
Acyclic == AcyclicIn(tree)

\* No cycle of continuity sources, as long as no applied proposal named a shot twice.
ContinuityAcyclic == repeated \/ Acyclic

\* What an author sees is complete: the source of a visible shot is visible and
\* the characters linked to it are active, whatever was archived, replaced by a
\* proposal or written by requests that had loaded their nodes before.
NothingDangles ==
    \A x \in Visible(tree) :
        /\ tree.shot[x].source # NoShot => tree.shot[x].source \in Visible(tree)
        /\ \A k \in Characters : <<x, k>> \in links => character[k] = "active"

=============================================================================
