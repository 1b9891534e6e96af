---------------------------- MODULE StoryTree_proofs ----------------------------
(***************************************************************************)
(* Proofs about StoryTree, for every number of chapters, scenes, shots,    *)
(* characters and requests and every size of a proposal.                   *)
(*                                                                         *)
(* The argument: rows are never unmade, and a row is made under a made     *)
(* one, so nothing becomes visible by being under a new parent.  A source  *)
(* is written only after the walk from it did not meet the target; the     *)
(* shots the walk passes form a set that is closed under sources and does  *)
(* not contain the target, and a cycle through the new link would have to  *)
(* leave that set.  In a proposal that names no shot twice every source    *)
(* has a smaller item than its target, so that a cycle would have no shot  *)
(* with the least item.                                                    *)
(***************************************************************************)
EXTENDS StoryTree, FiniteSetTheorems, WellFoundedInduction, TLAPS

\* A row is made under a made one.
Rooted(t) ==
    /\ \A s \in Made(t.scene) : t.scene[s].parent \in Made(t.chapter)
    /\ \A x \in Made(t.shot) : t.shot[x].parent \in Made(t.scene)

SourcesVisible(t) ==
    \A x \in Visible(t) :
        t.shot[x].source # NoShot => t.shot[x].source \in Visible(t)

LinksSound(t, l, ch) ==
    /\ \A p \in l : p[1] \in Made(t.shot)
    /\ \A x \in Visible(t), k \in Characters : <<x, k>> \in l => ch[k] = "active"

\* What a request loaded was there.
Loaded(t, n) ==
    /\ n \in Chapters => n \in Made(t.chapter)
    /\ n \in Scenes => n \in Made(t.scene)
    /\ n \in Shots => n \in Made(t.shot)

IInv ==
    /\ TypeOK
    /\ Rooted(tree)
    /\ SourcesVisible(tree)
    /\ LinksSound(tree, links, character)
    /\ repeated \/ AcyclicIn(tree)
    /\ \A r \in Requests : Loaded(tree, req[r].node)

\* No row of t is unmade in u.
Grows(t, u) ==
    /\ Made(t.chapter) \subseteq Made(u.chapter)
    /\ Made(t.scene) \subseteq Made(u.scene)
    /\ Made(t.shot) \subseteq Made(u.shot)

---------------------------------------------------------------------------
(* The order of the natural numbers *)

Less == {ss \in Nat \X Nat : ss[1] < ss[2]}

LEMMA LessWellFounded == IsWellFoundedOn(Less, Nat)
  BY NatLessThanWellFounded DEF OpToRel, Less

LEMMA Least ==
    ASSUME NEW T \in SUBSET Nat, T # {}
    PROVE  \E m \in T : \A n \in T : m <= n
<1>1. PICK x \in T : \A y \in T : ~ (<<y, x>> \in Less)
  BY LessWellFounded, WFMin
<1>2. ASSUME NEW n \in T PROVE x <= n
  <2>1. <<n, x>> \in Nat \X Nat /\ <<n, x>>[1] = n /\ <<n, x>>[2] = x
    OBVIOUS
  <2>2. ~(n < x)
    BY <1>1, <2>1 DEF Less
  <2>3. n \in Nat /\ x \in Nat
    OBVIOUS
  <2> QED
    BY <2>2, <2>3
<1>3. QED
  BY <1>1, <1>2

LEMMA Greatest ==
    ASSUME NEW max \in Nat, NEW T \in SUBSET (1 .. max), T # {}
    PROVE  \E m \in T : \A n \in T : n <= m
<1> DEFINE U == {max - i : i \in T}
<1>1. U \in SUBSET Nat /\ U # {}
  <2>1. ASSUME NEW i \in T PROVE max - i \in Nat
    OBVIOUS
  <2> QED
    BY <2>1
<1>2. PICK u \in U : \A v \in U : u <= v
  BY <1>1, Least
<1>3. PICK m \in T : u = max - m
  OBVIOUS
<1>4. ASSUME NEW n \in T PROVE n <= m
  <2>1. u <= max - n
    BY <1>2
  <2> QED
    BY <2>1, <1>3
<1>5. QED
  BY <1>4

---------------------------------------------------------------------------
(* Trees *)

LEMMA Identities ==
    /\ Chapters \cap Scenes = {} /\ Chapters \cap Shots = {} /\ Scenes \cap Shots = {}
    /\ Characters \cap (Chapters \cup Scenes \cup Shots) = {}
    /\ Story \notin Chapters \cup Scenes \cup Shots
    /\ Nobody \notin Chapters \cup Scenes \cup Shots
    /\ NoShot \notin Shots /\ Nowhere \notin Chapters \cup Scenes
    /\ ShotOrders \subseteq Nat /\ GroupOrders \subseteq Nat
    /\ MaxGroups \in Nat /\ MaxShots \in Nat
  BY TreeAssumption

LEMMA TreeParts ==
    ASSUME NEW t \in TreeType
    PROVE  /\ t.chapter \in [Chapters -> Rows({})]
           /\ t.scene \in [Scenes -> Rows(Chapters)]
           /\ t.shot \in [Shots -> ShotRow]
           /\ DOMAIN t.chapter = Chapters /\ DOMAIN t.scene = Scenes
           /\ DOMAIN t.shot = Shots
  BY DEF TreeType

LEMMA VisibleIs ==
    ASSUME NEW t \in TreeType, NEW x
    PROVE  x \in Visible(t) <=>
             /\ x \in Shots /\ t.shot[x].state = "active"
             /\ t.shot[x].parent \in Scenes
             /\ t.scene[t.shot[x].parent].state = "active"
             /\ t.scene[t.shot[x].parent].parent \in Chapters
             /\ t.chapter[t.scene[t.shot[x].parent].parent].state = "active"
  BY TreeParts DEF Visible, Active, SceneOf, ChapterOf

\* The commit of a new tree keeps the invariant when the tree is sound.
LEMMA Committed ==
    ASSUME IInv, NEW r \in Requests, NEW t, CommitTree(r, t),
           t \in TreeType, Rooted(t), SourcesVisible(t),
           LinksSound(t, links, character), Grows(tree, t),
           repeated \/ AcyclicIn(t)
    PROVE  IInv'
<1> USE DEF IInv
<1>1. tree' = t /\ character' = character /\ links' = links /\ repeated' = repeated
      /\ req' = [req EXCEPT ![r] = Idle]
  BY DEF CommitTree, Close
<1>2. Idle \in RequestState /\ Idle.node = Nobody
  BY Identities DEF Idle, RequestState, NoShotRow, ShotRow, States, Tomb
<1>3. TypeOK'
  BY <1>1, <1>2 DEF TypeOK
<1>4. ASSUME NEW q \in Requests PROVE Loaded(tree, req[q].node)'
  <2>1. Loaded(t, req[q].node)
    BY DEF Loaded, Grows
  <2>2. Loaded(t, Nobody)
    BY Identities DEF Loaded
  <2>3. req'[q].node \in {req[q].node, Nobody}
    BY <1>1, <1>2 DEF TypeOK
  <2> QED
    BY <1>1, <2>1, <2>2, <2>3
<1>5. QED
  BY <1>1, <1>3, <1>4

\* The same for what leaves the tree alone.
LEMMA CommittedLinks ==
    ASSUME IInv, NEW r \in Requests, Close(r), UNCHANGED <<tree, repeated>>,
           (links \subseteq Shots \X Characters)',
           (character \in [Characters -> States])',
           LinksSound(tree, links, character)'
    PROVE  IInv'
<1> USE DEF IInv
<1>1. tree' = tree /\ repeated' = repeated /\ req' = [req EXCEPT ![r] = Idle]
  BY DEF Close
<1>2. Idle \in RequestState /\ Idle.node = Nobody
  BY Identities DEF Idle, RequestState, NoShotRow, ShotRow, States, Tomb
<1>3. TypeOK'
  BY <1>1, <1>2 DEF TypeOK
<1>4. ASSUME NEW q \in Requests PROVE Loaded(tree, req[q].node)'
  <2>2. Loaded(tree, Nobody)
    BY Identities DEF Loaded
  <2>3. req'[q].node \in {req[q].node, Nobody}
    BY <1>1, <1>2 DEF TypeOK
  <2> QED
    BY <1>1, <2>2, <2>3
<1>5. QED
  BY <1>1, <1>3, <1>4

\* Links stay sound when no shot becomes visible.
LEMMA FewerVisible ==
    ASSUME NEW t, NEW u, LinksSound(t, links, character),
           Made(t.shot) \subseteq Made(u.shot), Visible(u) \subseteq Visible(t)
    PROVE  LinksSound(u, links, character)
  BY DEF LinksSound

\* A tree that has the sources of another one has no cycle either.
LEMMA SameSources ==
    ASSUME NEW t, NEW u, AcyclicIn(t),
           \A x \in Shots : u.shot[x].source = t.shot[x].source
    PROVE  AcyclicIn(u)
<1> SUFFICES ASSUME NEW S \in SUBSET Shots, S # {}
             PROVE  \E x \in S : u.shot[x].source \notin S
  BY DEF AcyclicIn
<1>1. PICK x \in S : t.shot[x].source \notin S
  BY DEF AcyclicIn
<1>2. QED
  BY <1>1

\* A source that was validated closes no cycle.
LEMMA NewSource ==
    ASSUME NEW t, NEW u, AcyclicIn(t), NEW held, NEW x \in Shots,
           \A y \in Shots : u.shot[y].source \in Shots \cup {NoShot},
           \A y \in Shots \ {x} : u.shot[y].source = t.shot[y].source,
           \/ u.shot[x].source = t.shot[x].source
           \/ ValidContinuity(u, held, x, u.shot[x].source)
    PROVE  AcyclicIn(u)
<1>1. CASE u.shot[x].source = t.shot[x].source
  BY <1>1, SameSources
<1>2. CASE ValidContinuity(u, held, x, u.shot[x].source)
  <2> SUFFICES ASSUME NEW S \in SUBSET Shots, S # {},
                      \A y \in S : u.shot[y].source \in S
               PROVE  FALSE
    BY DEF AcyclicIn
  <2> DEFINE source == u.shot[x].source
  <2>1. CASE x \notin S
    BY <2>1 DEF AcyclicIn
  <2>2. CASE x \in S
    <3>1. source \in S /\ source # NoShot
      BY <2>2, Identities
    <3>2. ~ Leads(u, source, x)
      BY <1>2, <3>1 DEF ValidContinuity
    <3>3. PICK W \in SUBSET Shots :
             /\ source \in W /\ x \notin W
             /\ \A w \in W : u.shot[w].source # NoShot => u.shot[w].source \in W
      BY <3>2 DEF Leads
    <3>4. S \cap W # {} /\ S \cap W \in SUBSET Shots
      BY <3>1, <3>3
    <3>5. \A w \in S \cap W : t.shot[w].source \in S \cap W
      BY <3>3, Identities
    <3> QED
      BY <3>4, <3>5 DEF AcyclicIn
  <2> QED
    BY <2>1, <2>2
<1>3. QED
  BY <1>1, <1>2

---------------------------------------------------------------------------
(* Archiving and placing *)

\* Archiving rows changes nothing but their state.
LEMMA ArchiveFacts ==
    ASSUME NEW N, NEW P, NEW rows \in [N -> Rows(P)], NEW nodes, nodes \subseteq Made(rows)
    PROVE  LET a == ArchiveIn(rows, nodes) IN
           /\ a \in [N -> Rows(P)]
           /\ Made(a) = Made(rows)
           /\ \A n \in N : /\ a[n].parent = rows[n].parent
                           /\ a[n].state = IF n \in nodes THEN "archived" ELSE rows[n].state
<1> DEFINE a == ArchiveIn(rows, nodes)
<1>1. \A n \in N : rows[n] \in Rows(P)
  OBVIOUS
<1>2. ASSUME NEW n \in N
      PROVE  /\ a[n] \in Rows(P) /\ a[n].parent = rows[n].parent
             /\ a[n].state = IF n \in nodes THEN "archived" ELSE rows[n].state
  BY <1>1 DEF ArchiveIn, Rows, States
<1>3. a \in [N -> Rows(P)] /\ DOMAIN a = N
  BY <1>2 DEF ArchiveIn
<1>4. Made(a) = Made(rows)
  BY <1>2, <1>3 DEF Made
<1>5. QED
  BY <1>2, <1>3, <1>4

LEMMA ArchiveShotFacts ==
    ASSUME NEW rows \in [Shots -> ShotRow], NEW nodes, nodes \subseteq Made(rows)
    PROVE  LET a == ArchiveIn(rows, nodes) IN
           /\ a \in [Shots -> ShotRow]
           /\ Made(a) = Made(rows)
           /\ \A n \in Shots :
                /\ a[n].parent = rows[n].parent /\ a[n].source = rows[n].source
                /\ a[n].state = IF n \in nodes THEN "archived" ELSE rows[n].state
<1> DEFINE a == ArchiveIn(rows, nodes)
<1>1. \A n \in Shots : rows[n] \in ShotRow
  OBVIOUS
<1>2. ASSUME NEW n \in Shots
      PROVE  /\ a[n] \in ShotRow /\ a[n].parent = rows[n].parent
             /\ a[n].source = rows[n].source
             /\ a[n].state = IF n \in nodes THEN "archived" ELSE rows[n].state
  BY <1>1 DEF ArchiveIn, ShotRow, States
<1>3. a \in [Shots -> ShotRow] /\ DOMAIN a = Shots
  BY <1>2 DEF ArchiveIn
<1>4. Made(a) = Made(rows)
  BY <1>2, <1>3 DEF Made
<1>5. QED
  BY <1>2, <1>3, <1>4

LEMMA CountIsNatural ==
    ASSUME NEW N, IsFiniteSet(N), NEW S, S \subseteq N
    PROVE  Cardinality(S) \in Nat
  BY FS_Subset, FS_CardinalityType

\* _reindex_active_siblings changes positions only.
LEMMA ReindexFacts ==
    ASSUME NEW N, IsFiniteSet(N), NEW P, NEW rows \in [N -> Rows(P)], NEW parent
    PROVE  LET a == Reindexed(rows, parent) IN
           /\ a \in [N -> Rows(P)]
           /\ Made(a) = Made(rows)
           /\ \A n \in N : a[n].parent = rows[n].parent /\ a[n].state = rows[n].state
<1> DEFINE a == Reindexed(rows, parent)
           Before(n) == {m \in Siblings(rows, parent) \cap Active(rows) :
                            rows[m].order < rows[n].order}
<1>1. \A n \in N : rows[n] \in Rows(P)
  OBVIOUS
<1>2. ASSUME NEW n \in N PROVE Cardinality(Before(n)) \in Nat
  <2>1. Before(n) \subseteq N
    BY DEF Active
  <2> QED
    BY <2>1, CountIsNatural
<1>3. ASSUME NEW n \in N
      PROVE  a[n] \in Rows(P) /\ a[n].parent = rows[n].parent
             /\ a[n].state = rows[n].state
  <2> DEFINE o == IF rows[n].state = "archived" THEN Tomb ELSE Cardinality(Before(n))
  <2>1. a[n] = IF n \notin Siblings(rows, parent) THEN rows[n]
               ELSE [rows[n] EXCEPT !.order = o]
    BY DEF Reindexed
  <2>2. o \in Nat \cup {Tomb}
    BY <1>2
  <2> HIDE DEF o
  <2> QED
    BY <1>1, <2>1, <2>2 DEF Rows
<1>4. a \in [N -> Rows(P)] /\ DOMAIN a = N
  <2>1. a = [n \in N |-> a[n]]
    BY DEF Reindexed
  <2> HIDE DEF a
  <2> QED
    BY <1>3, <2>1
<1>5. Made(a) = Made(rows)
  <2> HIDE DEF a
  <2> QED
    BY <1>3, <1>4 DEF Made
<1>6. QED
  BY <1>3, <1>4, <1>5

LEMMA ReindexShotFacts ==
    ASSUME NEW rows \in [Shots -> ShotRow], NEW parent
    PROVE  LET a == Reindexed(rows, parent) IN
           /\ a \in [Shots -> ShotRow]
           /\ Made(a) = Made(rows)
           /\ \A n \in Shots : /\ a[n].parent = rows[n].parent
                               /\ a[n].state = rows[n].state
                               /\ a[n].source = rows[n].source
<1> DEFINE a == Reindexed(rows, parent)
           Before(n) == {m \in Siblings(rows, parent) \cap Active(rows) :
                            rows[m].order < rows[n].order}
<1>1. \A n \in Shots : rows[n] \in ShotRow
  OBVIOUS
<1>2. ASSUME NEW n \in Shots PROVE Cardinality(Before(n)) \in Nat
  <2>1. Before(n) \subseteq Shots
    BY DEF Active
  <2> QED
    BY <2>1, CountIsNatural, TreeAssumption
<1>3. ASSUME NEW n \in Shots
      PROVE  a[n] \in ShotRow /\ a[n].parent = rows[n].parent
             /\ a[n].state = rows[n].state /\ a[n].source = rows[n].source
  <2> DEFINE o == IF rows[n].state = "archived" THEN Tomb ELSE Cardinality(Before(n))
  <2>1. a[n] = IF n \notin Siblings(rows, parent) THEN rows[n]
               ELSE [rows[n] EXCEPT !.order = o]
    BY DEF Reindexed
  <2>2. o \in Nat \cup {Tomb}
    BY <1>2
  <2> HIDE DEF o
  <2> QED
    BY <1>1, <2>1, <2>2 DEF ShotRow
<1>4. a \in [Shots -> ShotRow] /\ DOMAIN a = Shots
  <2>1. a = [n \in Shots |-> a[n]]
    BY DEF Reindexed
  <2> HIDE DEF a
  <2> QED
    BY <1>3, <2>1
<1>5. Made(a) = Made(rows)
  <2> HIDE DEF a
  <2> QED
    BY <1>3, <1>4 DEF Made
<1>6. QED
  BY <1>3, <1>4, <1>5

\* A reordering changes positions only.
LEMMA ReorderingFacts ==
    ASSUME NEW N, NEW P, NEW rows \in [N -> Rows(P)], NEW parent,
           NEW a \in Reorderings(rows, parent)
    PROVE  /\ a \in [N -> Rows(P)]
           /\ Made(a) = Made(rows)
           /\ \A n \in N : a[n].parent = rows[n].parent /\ a[n].state = rows[n].state
<1> DEFINE kids == Siblings(rows, parent) \cap Active(rows)
           slots == {rows[n].order : n \in kids}
<1>1. \A n \in N : rows[n] \in Rows(P)
  OBVIOUS
<1>2. kids \subseteq N
  BY DEF Active
<1>3. slots \subseteq Nat \cup {Tomb}
  BY <1>1, <1>2 DEF Rows
<1>4. PICK f \in [kids -> slots] :
        a = [n \in N |-> IF n \in kids THEN [rows[n] EXCEPT !.order = f[n]] ELSE rows[n]]
  BY DEF Reorderings
<1> HIDE DEF kids, slots
<1>5. ASSUME NEW n \in N
      PROVE  a[n] \in Rows(P) /\ a[n].parent = rows[n].parent /\ a[n].state = rows[n].state
  <2>1. n \in kids => f[n] \in Nat \cup {Tomb}
    BY <1>3, <1>4
  <2> QED
    BY <1>1, <1>4, <2>1 DEF Rows
<1>6. a \in [N -> Rows(P)] /\ DOMAIN a = N
  BY <1>4, <1>5
<1>7. Made(a) = Made(rows)
  BY <1>5, <1>6 DEF Made
<1>8. QED
  BY <1>5, <1>6, <1>7

LEMMA ReorderingShotFacts ==
    ASSUME NEW rows \in [Shots -> ShotRow], NEW parent,
           NEW a \in Reorderings(rows, parent)
    PROVE  /\ a \in [Shots -> ShotRow]
           /\ Made(a) = Made(rows)
           /\ \A n \in Shots : /\ a[n].parent = rows[n].parent
                               /\ a[n].state = rows[n].state
                               /\ a[n].source = rows[n].source
<1> DEFINE kids == Siblings(rows, parent) \cap Active(rows)
           slots == {rows[n].order : n \in kids}
<1>1. \A n \in Shots : rows[n] \in ShotRow
  OBVIOUS
<1>2. kids \subseteq Shots
  BY DEF Active
<1>3. slots \subseteq Nat \cup {Tomb}
  BY <1>1, <1>2 DEF ShotRow
<1>4. PICK f \in [kids -> slots] :
        a = [n \in Shots |->
               IF n \in kids THEN [rows[n] EXCEPT !.order = f[n]] ELSE rows[n]]
  BY DEF Reorderings
<1> HIDE DEF kids, slots
<1>5. ASSUME NEW n \in Shots
      PROVE  a[n] \in ShotRow /\ a[n].parent = rows[n].parent
             /\ a[n].state = rows[n].state /\ a[n].source = rows[n].source
  <2>1. n \in kids => f[n] \in Nat \cup {Tomb}
    BY <1>3, <1>4
  <2> QED
    BY <1>1, <1>4, <2>1 DEF ShotRow
<1>6. a \in [Shots -> ShotRow] /\ DOMAIN a = Shots
  BY <1>4, <1>5
<1>7. Made(a) = Made(rows)
  BY <1>5, <1>6 DEF Made
<1>8. QED
  BY <1>5, <1>6, <1>7

\* A tree u has the rows of t under the same parents with the same sources.
SameRows(t, u) ==
    /\ \A c \in Chapters : u.chapter[c].parent = t.chapter[c].parent
    /\ \A s \in Scenes : u.scene[s].parent = t.scene[s].parent
    /\ \A x \in Shots : /\ u.shot[x].parent = t.shot[x].parent
                        /\ u.shot[x].source = t.shot[x].source
    /\ Made(u.chapter) = Made(t.chapter)
    /\ Made(u.scene) = Made(t.scene)
    /\ Made(u.shot) = Made(t.shot)

\* Hiding shots that no other visible shot depends on keeps a tree sound.
LEMMA Hidden ==
    ASSUME IInv, NEW u \in TreeType, SameRows(tree, u),
           NEW doomed, NoDependents(doomed),
           Visible(u) \subseteq Visible(tree) \ doomed,
           Visible(tree) \ doomed \subseteq Visible(u)
    PROVE  /\ Rooted(u) /\ SourcesVisible(u) /\ LinksSound(u, links, character)
           /\ Grows(tree, u) /\ (repeated \/ AcyclicIn(u))
<1> USE DEF IInv
<1>0. tree \in TreeType /\ Visible(u) \subseteq Shots
  BY VisibleIs DEF TypeOK
<1>1. Rooted(u)
  <2>1. Made(u.scene) \subseteq Scenes /\ Made(u.shot) \subseteq Shots
    BY TreeParts DEF Made
  <2> QED
    BY <2>1 DEF Rooted, SameRows
<1>2. SourcesVisible(u)
  <2> SUFFICES ASSUME NEW x \in Visible(u), u.shot[x].source # NoShot
               PROVE  u.shot[x].source \in Visible(u)
    BY DEF SourcesVisible
  <2>1. u.shot[x].source = tree.shot[x].source
    BY <1>0 DEF SameRows
  <2>2. tree.shot[x].source \in Visible(tree)
    BY <2>1 DEF SourcesVisible
  <2>3. tree.shot[x].source \notin doomed
    BY DEF NoDependents
  <2> QED
    BY <2>1, <2>2, <2>3
<1>3. LinksSound(u, links, character)
  BY FewerVisible DEF SameRows
<1>4. Grows(tree, u)
  BY DEF Grows, SameRows
<1>5. repeated \/ AcyclicIn(u)
  BY SameSources DEF SameRows
<1>6. QED
  BY <1>1, <1>2, <1>3, <1>4, <1>5

---------------------------------------------------------------------------
(* The requests that archive or reorder *)

LEMMA ArchiveShotSafe ==
    ASSUME IInv, NEW r \in Requests, ArchiveShot(r)
    PROVE  IInv'
<1> USE DEF IInv
<1> DEFINE x == req[r].node
           a == ArchiveIn(tree.shot, {x})
           rows == Reindexed(a, SceneOf(tree, x))
           t == [tree EXCEPT !.shot = rows]
<1>1. x \in Shots /\ NoDependents({x}) /\ CommitTree(r, t)
  BY DEF ArchiveShot
<1>2. tree \in TreeType /\ x \in Made(tree.shot)
  BY <1>1 DEF TypeOK, Loaded
<1>3. /\ a \in [Shots -> ShotRow] /\ Made(a) = Made(tree.shot)
      /\ \A n \in Shots :
           /\ a[n].parent = tree.shot[n].parent /\ a[n].source = tree.shot[n].source
           /\ a[n].state = IF n \in {x} THEN "archived" ELSE tree.shot[n].state
  BY <1>2, TreeParts, ArchiveShotFacts
<1> HIDE DEF a
<1>4. /\ rows \in [Shots -> ShotRow] /\ Made(rows) = Made(tree.shot)
      /\ \A n \in Shots :
           /\ rows[n].parent = tree.shot[n].parent /\ rows[n].source = tree.shot[n].source
           /\ rows[n].state = IF n = x THEN "archived" ELSE tree.shot[n].state
  BY <1>3, ReindexShotFacts
<1> HIDE DEF rows
<1>5. /\ t \in TreeType /\ t.shot = rows /\ t.scene = tree.scene
      /\ t.chapter = tree.chapter
  BY <1>2, <1>4 DEF TreeType
<1> HIDE DEF t
<1>6. SameRows(tree, t)
  BY <1>4, <1>5 DEF SameRows
<1>7. Visible(t) = Visible(tree) \ {x}
  <2>1. ASSUME NEW y PROVE y \in Visible(t) <=> y \in Visible(tree) \ {x}
    <3>1. y \in Visible(t) <=>
            /\ y \in Shots /\ t.shot[y].state = "active"
            /\ t.shot[y].parent \in Scenes
            /\ t.scene[t.shot[y].parent].state = "active"
            /\ t.scene[t.shot[y].parent].parent \in Chapters
            /\ t.chapter[t.scene[t.shot[y].parent].parent].state = "active"
      BY <1>5, VisibleIs
    <3>2. y \in Visible(tree) <=>
            /\ y \in Shots /\ tree.shot[y].state = "active"
            /\ tree.shot[y].parent \in Scenes
            /\ tree.scene[tree.shot[y].parent].state = "active"
            /\ tree.scene[tree.shot[y].parent].parent \in Chapters
            /\ tree.chapter[tree.scene[tree.shot[y].parent].parent].state = "active"
      BY <1>2, VisibleIs
    <3> QED
      BY <3>1, <3>2, <1>4, <1>5
  <2> QED
    BY <2>1
<1>8. /\ Rooted(t) /\ SourcesVisible(t) /\ LinksSound(t, links, character)
      /\ Grows(tree, t) /\ (repeated \/ AcyclicIn(t))
  <2>1. /\ Visible(t) \subseteq Visible(tree) \ {x}
        /\ Visible(tree) \ {x} \subseteq Visible(t)
    BY <1>7
  <2> QED
    BY <1>1, <1>5, <1>6, <1>7, <2>1, Hidden
<1>9. QED
  BY <1>1, <1>5, <1>8, Committed

LEMMA ArchiveSceneSafe ==
    ASSUME IInv, NEW r \in Requests, ArchiveScene(r)
    PROVE  IInv'
<1> USE DEF IInv
<1> DEFINE s == req[r].node
           doomed == ShotsUnder({s})
           shots == ArchiveIn(tree.shot, doomed)
           a == ArchiveIn(tree.scene, {s})
           scenes == Reindexed(a, tree.scene[s].parent)
           t == [tree EXCEPT !.shot = shots, !.scene = scenes]
<1>1. s \in Scenes /\ NoDependents(doomed) /\ CommitTree(r, t)
  BY DEF ArchiveScene
<1>2. tree \in TreeType /\ s \in Made(tree.scene)
  BY <1>1 DEF TypeOK, Loaded
<1>3. doomed = {x \in Shots : tree.shot[x].state = "active" /\ tree.shot[x].parent = s}
  BY <1>2, TreeParts DEF ShotsUnder, Active, SceneOf
<1>4. doomed \subseteq Made(tree.shot)
  BY <1>2, <1>3, TreeParts DEF Made
<1> HIDE DEF doomed
<1>5. /\ shots \in [Shots -> ShotRow] /\ Made(shots) = Made(tree.shot)
      /\ \A n \in Shots :
           /\ shots[n].parent = tree.shot[n].parent /\ shots[n].source = tree.shot[n].source
           /\ shots[n].state = IF n \in doomed THEN "archived" ELSE tree.shot[n].state
  BY <1>2, <1>4, TreeParts, ArchiveShotFacts
<1> HIDE DEF shots
<1>6. /\ a \in [Scenes -> Rows(Chapters)] /\ Made(a) = Made(tree.scene)
      /\ \A n \in Scenes :
           /\ a[n].parent = tree.scene[n].parent
           /\ a[n].state = IF n \in {s} THEN "archived" ELSE tree.scene[n].state
  BY <1>2, TreeParts, ArchiveFacts
<1> HIDE DEF a
<1>7. /\ scenes \in [Scenes -> Rows(Chapters)] /\ Made(scenes) = Made(tree.scene)
      /\ \A n \in Scenes :
           /\ scenes[n].parent = tree.scene[n].parent
           /\ scenes[n].state = IF n = s THEN "archived" ELSE tree.scene[n].state
  BY <1>6, TreeAssumption, ReindexFacts
<1> HIDE DEF scenes
<1>8. /\ t \in TreeType /\ t.shot = shots /\ t.scene = scenes
      /\ t.chapter = tree.chapter
  BY <1>2, <1>5, <1>7 DEF TreeType
<1> HIDE DEF t
<1>9. SameRows(tree, t)
  BY <1>5, <1>7, <1>8 DEF SameRows
<1>10. Visible(t) = Visible(tree) \ doomed
  <2>1. ASSUME NEW y PROVE y \in Visible(t) <=> y \in Visible(tree) \ doomed
    <3>1. y \in Visible(t) <=>
            /\ y \in Shots /\ t.shot[y].state = "active"
            /\ t.shot[y].parent \in Scenes
            /\ t.scene[t.shot[y].parent].state = "active"
            /\ t.scene[t.shot[y].parent].parent \in Chapters
            /\ t.chapter[t.scene[t.shot[y].parent].parent].state = "active"
      BY <1>8, VisibleIs
    <3>2. y \in Visible(tree) <=>
            /\ y \in Shots /\ tree.shot[y].state = "active"
            /\ tree.shot[y].parent \in Scenes
            /\ tree.scene[tree.shot[y].parent].state = "active"
            /\ tree.scene[tree.shot[y].parent].parent \in Chapters
            /\ tree.chapter[tree.scene[tree.shot[y].parent].parent].state = "active"
      BY <1>2, VisibleIs
    <3> QED
      BY <3>1, <3>2, <1>3, <1>5, <1>7, <1>8
  <2> QED
    BY <2>1
<1>11. /\ Rooted(t) /\ SourcesVisible(t) /\ LinksSound(t, links, character)
      /\ Grows(tree, t) /\ (repeated \/ AcyclicIn(t))
  <2>1. /\ Visible(t) \subseteq Visible(tree) \ doomed
        /\ Visible(tree) \ doomed \subseteq Visible(t)
    BY <1>10
  <2> QED
    BY <1>1, <1>8, <1>9, <1>10, <2>1, Hidden
<1>12. QED
  BY <1>1, <1>8, <1>11, Committed

LEMMA ArchiveChapterSafe ==
    ASSUME IInv, NEW r \in Requests, ArchiveChapter(r)
    PROVE  IInv'
<1> USE DEF IInv
<1> DEFINE c == req[r].node
           under == Siblings(tree.scene, c)
           doomed == ShotsUnder(under)
           shots == ArchiveIn(tree.shot, doomed)
           scenes == ArchiveIn(tree.scene, under \cap Active(tree.scene))
           a == ArchiveIn(tree.chapter, {c})
           chapters == Reindexed(a, Nowhere)
           t == [tree EXCEPT !.shot = shots, !.scene = scenes, !.chapter = chapters]
<1>1. c \in Chapters /\ NoDependents(doomed) /\ CommitTree(r, t)
  BY DEF ArchiveChapter
<1>2. tree \in TreeType /\ c \in Made(tree.chapter)
  BY <1>1 DEF TypeOK, Loaded
<1>3. under = {s \in Scenes : tree.scene[s].state # "none" /\ tree.scene[s].parent = c}
  BY <1>2, TreeParts DEF Siblings, Made
<1>4. under \cap Active(tree.scene) \subseteq Made(tree.scene)
      /\ under \cap Active(tree.scene) = {s \in under : tree.scene[s].state = "active"}
  BY <1>2, <1>3, TreeParts DEF Made, Active
<1> HIDE DEF under
<1>5. doomed = {x \in Shots : tree.shot[x].state = "active" /\ tree.shot[x].parent \in under}
  BY <1>2, TreeParts DEF ShotsUnder, Active, SceneOf
<1>6. doomed \subseteq Made(tree.shot)
  BY <1>2, <1>5, TreeParts DEF Made
<1> HIDE DEF doomed
<1>7. /\ shots \in [Shots -> ShotRow] /\ Made(shots) = Made(tree.shot)
      /\ \A n \in Shots :
           /\ shots[n].parent = tree.shot[n].parent /\ shots[n].source = tree.shot[n].source
           /\ shots[n].state = IF n \in doomed THEN "archived" ELSE tree.shot[n].state
  BY <1>2, <1>6, TreeParts, ArchiveShotFacts
<1> HIDE DEF shots
<1>8. /\ scenes \in [Scenes -> Rows(Chapters)] /\ Made(scenes) = Made(tree.scene)
      /\ \A n \in Scenes :
           /\ scenes[n].parent = tree.scene[n].parent
           /\ scenes[n].state = IF n \in under /\ tree.scene[n].state = "active"
                                THEN "archived" ELSE tree.scene[n].state
  <2>1. /\ scenes \in [Scenes -> Rows(Chapters)] /\ Made(scenes) = Made(tree.scene)
        /\ \A n \in Scenes :
             /\ scenes[n].parent = tree.scene[n].parent
             /\ scenes[n].state = IF n \in under \cap Active(tree.scene)
                                  THEN "archived" ELSE tree.scene[n].state
    BY <1>2, <1>4, TreeParts, ArchiveFacts
  <2> HIDE DEF scenes
  <2> QED
    BY <2>1, <1>4
<1> HIDE DEF scenes
<1>9. /\ a \in [Chapters -> Rows({})] /\ Made(a) = Made(tree.chapter)
      /\ \A n \in Chapters :
           /\ a[n].parent = tree.chapter[n].parent
           /\ a[n].state = IF n \in {c} THEN "archived" ELSE tree.chapter[n].state
  BY <1>2, TreeParts, ArchiveFacts
<1> HIDE DEF a
<1>10. /\ chapters \in [Chapters -> Rows({})] /\ Made(chapters) = Made(tree.chapter)
       /\ \A n \in Chapters :
            /\ chapters[n].parent = tree.chapter[n].parent
            /\ chapters[n].state = IF n = c THEN "archived" ELSE tree.chapter[n].state
  BY <1>9, TreeAssumption, ReindexFacts
<1> HIDE DEF chapters
<1>11. /\ t \in TreeType /\ t.shot = shots /\ t.scene = scenes
       /\ t.chapter = chapters
  BY <1>2, <1>7, <1>8, <1>10 DEF TreeType
<1> HIDE DEF t
<1>12. SameRows(tree, t)
  BY <1>7, <1>8, <1>10, <1>11 DEF SameRows
<1>13. Visible(t) = Visible(tree) \ doomed
  <2>1. ASSUME NEW y PROVE y \in Visible(t) <=> y \in Visible(tree) \ doomed
    <3>1. y \in Visible(t) <=>
            /\ y \in Shots /\ t.shot[y].state = "active"
            /\ t.shot[y].parent \in Scenes
            /\ t.scene[t.shot[y].parent].state = "active"
            /\ t.scene[t.shot[y].parent].parent \in Chapters
            /\ t.chapter[t.scene[t.shot[y].parent].parent].state = "active"
      BY <1>11, VisibleIs
    <3>2. y \in Visible(tree) <=>
            /\ y \in Shots /\ tree.shot[y].state = "active"
            /\ tree.shot[y].parent \in Scenes
            /\ tree.scene[tree.shot[y].parent].state = "active"
            /\ tree.scene[tree.shot[y].parent].parent \in Chapters
            /\ tree.chapter[tree.scene[tree.shot[y].parent].parent].state = "active"
      BY <1>2, VisibleIs
    <3> QED
      BY <3>1, <3>2, <1>3, <1>5, <1>7, <1>8, <1>10, <1>11
  <2> QED
    BY <2>1
<1>14. /\ Rooted(t) /\ SourcesVisible(t) /\ LinksSound(t, links, character)
      /\ Grows(tree, t) /\ (repeated \/ AcyclicIn(t))
  <2>1. /\ Visible(t) \subseteq Visible(tree) \ doomed
        /\ Visible(tree) \ doomed \subseteq Visible(t)
    BY <1>13
  <2> QED
    BY <1>1, <1>11, <1>12, <1>13, <2>1, Hidden
<1>15. QED
  BY <1>1, <1>11, <1>14, Committed

LEMMA ReorderSafe ==
    ASSUME IInv, NEW r \in Requests, Reorder(r)
    PROVE  IInv'
<1> USE DEF IInv
<1>1. tree \in TreeType
  BY DEF TypeOK
<1>2. PICK t : /\ \/ \E rows \in Reorderings(tree.chapter, Nowhere) :
                        t = [tree EXCEPT !.chapter = rows]
                  \/ \E rows \in Reorderings(tree.scene, req[r].node) :
                        t = [tree EXCEPT !.scene = rows]
                  \/ \E rows \in Reorderings(tree.shot, req[r].node) :
                        t = [tree EXCEPT !.shot = rows]
               /\ CommitTree(r, t)
  BY DEF Reorder
<1>3. /\ t \in TreeType /\ SameRows(tree, t)
      /\ \A c \in Chapters : t.chapter[c].state = tree.chapter[c].state
      /\ \A s \in Scenes : t.scene[s].state = tree.scene[s].state
      /\ \A x \in Shots : t.shot[x].state = tree.shot[x].state
  <2>1. CASE \E rows \in Reorderings(tree.chapter, Nowhere) :
                t = [tree EXCEPT !.chapter = rows]
    <3>1. PICK rows \in Reorderings(tree.chapter, Nowhere) :
                t = [tree EXCEPT !.chapter = rows]
      BY <2>1
    <3>2. /\ rows \in [Chapters -> Rows({})] /\ Made(rows) = Made(tree.chapter)
          /\ \A n \in Chapters : /\ rows[n].parent = tree.chapter[n].parent
                                 /\ rows[n].state = tree.chapter[n].state
      BY <1>1, TreeParts, ReorderingFacts
    <3>3. t \in TreeType /\ t.chapter = rows /\ t.scene = tree.scene /\ t.shot = tree.shot
      BY <1>1, <3>1, <3>2 DEF TreeType
    <3> QED
      BY <3>2, <3>3 DEF SameRows
  <2>2. CASE \E rows \in Reorderings(tree.scene, req[r].node) :
                t = [tree EXCEPT !.scene = rows]
    <3>1. PICK rows \in Reorderings(tree.scene, req[r].node) :
                t = [tree EXCEPT !.scene = rows]
      BY <2>2
    <3>2. /\ rows \in [Scenes -> Rows(Chapters)] /\ Made(rows) = Made(tree.scene)
          /\ \A n \in Scenes : /\ rows[n].parent = tree.scene[n].parent
                               /\ rows[n].state = tree.scene[n].state
      BY <1>1, TreeParts, ReorderingFacts
    <3>3. t \in TreeType /\ t.scene = rows /\ t.chapter = tree.chapter /\ t.shot = tree.shot
      BY <1>1, <3>1, <3>2 DEF TreeType
    <3> QED
      BY <3>2, <3>3 DEF SameRows
  <2>3. CASE \E rows \in Reorderings(tree.shot, req[r].node) :
                t = [tree EXCEPT !.shot = rows]
    <3>1. PICK rows \in Reorderings(tree.shot, req[r].node) :
                t = [tree EXCEPT !.shot = rows]
      BY <2>3
    <3>2. /\ rows \in [Shots -> ShotRow] /\ Made(rows) = Made(tree.shot)
          /\ \A n \in Shots : /\ rows[n].parent = tree.shot[n].parent
                              /\ rows[n].state = tree.shot[n].state
                              /\ rows[n].source = tree.shot[n].source
      BY <1>1, TreeParts, ReorderingShotFacts
    <3>3. t \in TreeType /\ t.shot = rows /\ t.chapter = tree.chapter /\ t.scene = tree.scene
      BY <1>1, <3>1, <3>2 DEF TreeType
    <3> QED
      BY <3>2, <3>3 DEF SameRows
  <2> QED
    BY <1>2, <2>1, <2>2, <2>3
<1>4. Visible(t) = Visible(tree)
  <2>1. ASSUME NEW y PROVE y \in Visible(t) <=> y \in Visible(tree)
    <3>1. y \in Visible(t) <=>
            /\ y \in Shots /\ t.shot[y].state = "active"
            /\ t.shot[y].parent \in Scenes
            /\ t.scene[t.shot[y].parent].state = "active"
            /\ t.scene[t.shot[y].parent].parent \in Chapters
            /\ t.chapter[t.scene[t.shot[y].parent].parent].state = "active"
      BY <1>3, VisibleIs
    <3>2. y \in Visible(tree) <=>
            /\ y \in Shots /\ tree.shot[y].state = "active"
            /\ tree.shot[y].parent \in Scenes
            /\ tree.scene[tree.shot[y].parent].state = "active"
            /\ tree.scene[tree.shot[y].parent].parent \in Chapters
            /\ tree.chapter[tree.scene[tree.shot[y].parent].parent].state = "active"
      BY <1>1, VisibleIs
    <3>3. /\ \A s \in Scenes : t.scene[s].parent = tree.scene[s].parent
          /\ \A x \in Shots : t.shot[x].parent = tree.shot[x].parent
      BY <1>3 DEF SameRows
    <3>4. /\ \A c \in Chapters : t.chapter[c].state = tree.chapter[c].state
          /\ \A s \in Scenes : t.scene[s].state = tree.scene[s].state
          /\ \A x \in Shots : t.shot[x].state = tree.shot[x].state
      BY <1>3
    <3>5. CASE y \in Shots /\ tree.shot[y].parent \in Scenes
      <4> DEFINE s == tree.shot[y].parent
      <4>1. t.shot[y].parent = s /\ t.scene[s].parent = tree.scene[s].parent
        BY <3>3, <3>5
      <4>2. t.shot[y].state = tree.shot[y].state /\ t.scene[s].state = tree.scene[s].state
        BY <3>4, <3>5
      <4> HIDE DEF s
      <4>3. tree.scene[s].parent \in Chapters
              => t.chapter[tree.scene[s].parent].state = tree.chapter[tree.scene[s].parent].state
        BY <3>4
      <4> QED
        BY <3>1, <3>2, <4>1, <4>2, <4>3 DEF s
    <3>6. CASE ~(y \in Shots /\ tree.shot[y].parent \in Scenes)
      BY <3>1, <3>2, <3>3, <3>6
    <3> QED
      BY <3>5, <3>6
  <2> QED
    BY <2>1
<1>5. NoDependents({})
  BY DEF NoDependents
<1>6. /\ Rooted(t) /\ SourcesVisible(t) /\ LinksSound(t, links, character)
      /\ Grows(tree, t) /\ (repeated \/ AcyclicIn(t))
  <2>1. /\ Visible(t) \subseteq Visible(tree) \ {}
        /\ Visible(tree) \ {} \subseteq Visible(t)
    BY <1>4
  <2> QED
    BY <1>3, <1>5, <2>1, Hidden
<1>7. QED
  BY <1>2, <1>3, <1>6, Committed

---------------------------------------------------------------------------
(* The requests that write shots *)

LEMMA InitSafe ==
    ASSUME Init
    PROVE  IInv
<1> USE Identities DEF Init
<1>1. TypeOK
  BY DEF TypeOK, TreeType, Rows, ShotRow, States, RequestState, Idle, NoRow, NoShotRow, Tomb
<1>2. Made(tree.chapter) = {} /\ Made(tree.scene) = {} /\ Made(tree.shot) = {}
  BY DEF Made, NoRow, NoShotRow
<1>3. Visible(tree) = {}
  BY DEF Visible, Active, NoShotRow
<1>4. AcyclicIn(tree)
  BY DEF AcyclicIn, NoShotRow
<1>5. \A r \in Requests : Loaded(tree, req[r].node)
  BY DEF Loaded, Idle
<1>6. QED
  BY <1>1, <1>2, <1>3, <1>4, <1>5 DEF IInv, Rooted, SourcesVisible, LinksSound

LEMMA BeginSafe ==
    ASSUME IInv, NEW r \in Requests, Begin(r)
    PROVE  IInv'
<1> USE DEF IInv
<1>1. tree' = tree /\ character' = character /\ links' = links /\ repeated' = repeated
  BY DEF Begin
<1>2. PICK n \in Loadable :
        req' = [req EXCEPT ![r] =
                  [node |-> n, seen |-> IF n \in Shots THEN tree.shot[n] ELSE NoShotRow]]
  BY DEF Begin
<1>3. tree \in TreeType
  BY DEF TypeOK
<1>4. /\ n \in Chapters \cup Scenes \cup Shots \cup Characters \cup {Story}
      /\ n \in Shots => tree.shot[n] \in ShotRow
      /\ NoShotRow \in ShotRow
  <2>1. Visible(tree) \subseteq Shots
    BY <1>3, VisibleIs
  <2> QED
    BY <1>3, <2>1, TreeParts
    DEF Loadable, Active, NoShotRow, ShotRow, States, Tomb
<1>5. TypeOK'
  BY <1>1, <1>2, <1>4 DEF TypeOK, RequestState
<1>6. Loaded(tree, n)
  <2>1. Visible(tree) \subseteq Shots /\ Visible(tree) \subseteq Made(tree.shot)
    BY <1>3, VisibleIs, TreeParts DEF Made
  <2>2. Active(tree.chapter) \subseteq Made(tree.chapter)
        /\ Active(tree.scene) \subseteq Made(tree.scene)
    BY DEF Active, Made
  <2>3. /\ Active(tree.chapter) \subseteq Chapters
        /\ Active(tree.scene) \subseteq Scenes
    BY <1>3, TreeParts DEF Active
  <2> QED
    BY <2>1, <2>2, <2>3, Identities DEF Loadable, Loaded
<1>7. ASSUME NEW q \in Requests PROVE Loaded(tree, req[q].node)'
  <2>1. req'[q].node \in {req[q].node, n}
    BY <1>2 DEF TypeOK
  <2> QED
    BY <1>1, <1>6, <2>1
<1>8. QED
  BY <1>1, <1>5, <1>7

LEMMA RefuseSafe ==
    ASSUME IInv, NEW r \in Requests, Refuse(r)
    PROVE  IInv'
<1>1. Close(r) /\ tree' = tree /\ character' = character /\ links' = links
      /\ repeated' = repeated
  BY DEF Refuse
<1>2. QED
  BY <1>1, CommittedLinks DEF IInv, TypeOK

\* What _active_shot_context accepts is visible, when what the session holds is active.
LEMMA ContextVisible ==
    ASSUME NEW t \in TreeType, Rooted(t), NEW held, NEW z \in Shots,
           held \cap Shots \subseteq Active(t.shot),
           held \cap Scenes \subseteq Active(t.scene),
           held \cap Chapters \subseteq Active(t.chapter),
           ContextActive(t, held, z)
    PROVE  z \in Visible(t)
<1>1. z \in Active(t.shot) /\ z \in Made(t.shot)
  BY TreeParts DEF ContextActive, Active, Made
<1>2. SceneOf(t, z) \in Made(t.scene) /\ SceneOf(t, z) \in Scenes
  BY <1>1, TreeParts DEF SceneOf, Rooted, Made
<1>3. ChapterOf(t, z) \in Chapters
  BY <1>2, TreeParts DEF ChapterOf, Rooted, Made
<1>4. SceneOf(t, z) \in Active(t.scene) /\ ChapterOf(t, z) \in Active(t.chapter)
  BY <1>2, <1>3 DEF ContextActive
<1>5. QED
  BY <1>1, <1>4 DEF Visible

\* A source that was validated is one itself.
LEMMA SourceInContext ==
    ASSUME NEW t, NEW held, NEW x, NEW z \in Shots, ValidContinuity(t, held, x, z)
    PROVE  ContextActive(t, held, z)
<1>1. Leads(t, z, z)
  BY DEF Leads
<1>2. QED
  BY <1>1, Identities DEF ValidContinuity

LEMMA CreateShotSafe ==
    ASSUME IInv, NEW r \in Requests, CreateShot(r)
    PROVE  IInv'
<1> USE DEF IInv
<1> DEFINE s == req[r].node
<1>1. PICK x \in Shots \ Made(tree.shot), order \in ShotOrders,
           source \in Shots \cup {NoShot} :
        LET t == [tree EXCEPT !.shot[x] =
                    [state |-> "active", parent |-> s, order |-> order,
                     source |-> source]]
        IN /\ source \in Made(t.shot) \cup {NoShot}
           /\ ValidContinuity(t, Held(tree, s), x, source)
           /\ CommitTree(r, t)
  BY DEF CreateShot
<1> DEFINE t == [tree EXCEPT !.shot[x] =
                   [state |-> "active", parent |-> s, order |-> order,
                    source |-> source]]
<1>2. /\ s \in Scenes /\ s \in Made(tree.scene)
      /\ tree \in TreeType
  BY DEF CreateShot, TypeOK, Loaded
<1>3. /\ ValidContinuity(t, Held(tree, s), x, source)
      /\ CommitTree(r, t)
  BY <1>1
<1>4. /\ t \in TreeType /\ t.chapter = tree.chapter /\ t.scene = tree.scene
      /\ \A y \in Shots : y # x => t.shot[y] = tree.shot[y]
      /\ t.shot[x] = [state |-> "active", parent |-> s, order |-> order, source |-> source]
  <2>1. order \in Nat
    BY Identities
  <2>2. [state |-> "active", parent |-> s, order |-> order, source |-> source] \in ShotRow
    BY <1>2, <2>1 DEF ShotRow, States
  <2> QED
    BY <1>2, <2>2 DEF TreeType
<1> HIDE DEF t
<1>5. /\ Made(t.chapter) = Made(tree.chapter) /\ Made(t.scene) = Made(tree.scene)
      /\ Made(t.shot) = Made(tree.shot) \cup {x}
  BY <1>2, <1>4, TreeParts DEF Made
<1>6. Rooted(t)
  BY <1>2, <1>4, <1>5, TreeParts DEF Rooted, Made
<1>7. \A y : y # x => (y \in Visible(t) <=> y \in Visible(tree))
  <2> SUFFICES ASSUME NEW y, y # x PROVE y \in Visible(t) <=> y \in Visible(tree)
    OBVIOUS
  <2>1. y \in Visible(t) <=>
          /\ y \in Shots /\ t.shot[y].state = "active"
          /\ t.shot[y].parent \in Scenes
          /\ t.scene[t.shot[y].parent].state = "active"
          /\ t.scene[t.shot[y].parent].parent \in Chapters
          /\ t.chapter[t.scene[t.shot[y].parent].parent].state = "active"
    BY <1>4, VisibleIs
  <2>2. y \in Visible(tree) <=>
          /\ y \in Shots /\ tree.shot[y].state = "active"
          /\ tree.shot[y].parent \in Scenes
          /\ tree.scene[tree.shot[y].parent].state = "active"
          /\ tree.scene[tree.shot[y].parent].parent \in Chapters
          /\ tree.chapter[tree.scene[tree.shot[y].parent].parent].state = "active"
    BY <1>2, VisibleIs
  <2> QED
    BY <2>1, <2>2, <1>4
<1>8. x \notin Visible(tree) /\ Visible(tree) \subseteq Shots
      /\ Visible(t) \subseteq Shots
  BY <1>2, <1>4, VisibleIs, TreeParts DEF Made
<1>9. SourcesVisible(t)
  <2> SUFFICES ASSUME NEW y \in Visible(t), t.shot[y].source # NoShot
               PROVE  t.shot[y].source \in Visible(t)
    BY DEF SourcesVisible
  <2>1. CASE y # x
    BY <1>4, <1>7, <1>8, <2>1 DEF SourcesVisible
  <2>2. CASE y = x
    <3>1. source \in Shots /\ t.shot[y].source = source
      BY <1>4, <2>2
    <3>2. Held(tree, s) = {s, tree.scene[s].parent}
      BY <1>2, Identities DEF Held
    <3>3. s \in Active(t.scene) /\ tree.scene[s].parent \in Active(t.chapter)
          /\ tree.scene[s].parent \in Chapters
      BY <1>4, <2>2, VisibleIs, TreeParts DEF Active
    <3>4. /\ Held(tree, s) \cap Shots = {}
          /\ Held(tree, s) \cap Scenes \subseteq Active(t.scene)
          /\ Held(tree, s) \cap Chapters \subseteq Active(t.chapter)
      BY <1>2, <3>2, <3>3, Identities
    <3>5. ContextActive(t, Held(tree, s), source)
      BY <1>3, <3>1, SourceInContext
    <3> QED
      BY <1>4, <1>6, <3>1, <3>4, <3>5, ContextVisible
  <2> QED
    BY <2>1, <2>2
<1>10. LinksSound(t, links, character)
  BY <1>5, <1>7, <1>8 DEF LinksSound
<1>11. repeated \/ AcyclicIn(t)
  <2>1. \A y \in Shots : t.shot[y].source \in Shots \cup {NoShot}
    BY <1>4, TreeParts DEF ShotRow
  <2>2. ValidContinuity(t, Held(tree, s), x, t.shot[x].source)
    BY <1>3, <1>4
  <2>3. AcyclicIn(tree) => AcyclicIn(t)
    BY <1>4, <2>1, <2>2, NewSource
  <2> QED
    BY <2>3
<1>12. Grows(tree, t)
  BY <1>5 DEF Grows
<1>13. QED
  BY <1>3, <1>4, <1>6, <1>9, <1>10, <1>11, <1>12, Committed

\* Writing a position and a validated source.
LEMMA EditSafe ==
    ASSUME IInv, NEW r \in Requests, NEW x \in Shots, x = req[r].node,
           NEW order \in Nat \cup {Tomb}, NEW source \in Shots \cup {NoShot},
           ValidContinuity(Edited(x, req[r].seen, order, source), Held(tree, x), x, source),
           CommitTree(r, Edited(x, req[r].seen, order, source))
    PROVE  IInv'
<1> USE DEF IInv
<1> DEFINE seen == req[r].seen
           t == Edited(x, seen, order, source)
           o == IF order = seen.order THEN tree.shot[x].order ELSE order
           z == IF source = seen.source THEN tree.shot[x].source ELSE source
<1>1. tree \in TreeType /\ x \in Made(tree.shot)
  BY DEF TypeOK, Loaded
<1>2. tree.shot[x] \in ShotRow /\ o \in Nat \cup {Tomb} /\ z \in Shots \cup {NoShot}
  BY <1>1, TreeParts DEF ShotRow
<1>3. /\ t \in TreeType /\ t.chapter = tree.chapter /\ t.scene = tree.scene
      /\ \A y \in Shots : y # x => t.shot[y] = tree.shot[y]
      /\ t.shot[x].state = tree.shot[x].state /\ t.shot[x].parent = tree.shot[x].parent
      /\ t.shot[x].source = z
  <2> DEFINE row == [tree.shot[x] EXCEPT !.order = o, !.source = z]
  <2>1. t = [tree EXCEPT !.shot[x] = row]
    BY <1>2 DEF Edited, ShotRow
  <2>2. row \in ShotRow /\ row.state = tree.shot[x].state
        /\ row.parent = tree.shot[x].parent /\ row.source = z
    BY <1>2 DEF ShotRow
  <2> HIDE DEF t, o, z, row
  <2> QED
    BY <1>1, <2>1, <2>2 DEF TreeType
<1> HIDE DEF o
<1>4. /\ ValidContinuity(t, Held(tree, x), x, source) /\ CommitTree(r, t)
      /\ z = tree.shot[x].source \/ z = source
  OBVIOUS
<1> HIDE DEF t, z
<1>5. /\ Made(t.chapter) = Made(tree.chapter) /\ Made(t.scene) = Made(tree.scene)
      /\ Made(t.shot) = Made(tree.shot)
  BY <1>1, <1>3, TreeParts DEF Made
<1>6. Rooted(t)
  BY <1>1, <1>3, <1>5, TreeParts DEF Rooted, Made
<1>7. Visible(t) = Visible(tree) /\ Visible(tree) \subseteq Shots
  <2>1. ASSUME NEW y PROVE y \in Visible(t) <=> y \in Visible(tree)
    <3>1. y \in Visible(t) <=>
            /\ y \in Shots /\ t.shot[y].state = "active"
            /\ t.shot[y].parent \in Scenes
            /\ t.scene[t.shot[y].parent].state = "active"
            /\ t.scene[t.shot[y].parent].parent \in Chapters
            /\ t.chapter[t.scene[t.shot[y].parent].parent].state = "active"
      BY <1>3, VisibleIs
    <3>2. y \in Visible(tree) <=>
            /\ y \in Shots /\ tree.shot[y].state = "active"
            /\ tree.shot[y].parent \in Scenes
            /\ tree.scene[tree.shot[y].parent].state = "active"
            /\ tree.scene[tree.shot[y].parent].parent \in Chapters
            /\ tree.chapter[tree.scene[tree.shot[y].parent].parent].state = "active"
      BY <1>1, VisibleIs
    <3> QED
      BY <3>1, <3>2, <1>3
  <2> QED
    BY <1>1, <2>1, VisibleIs
<1>8. SourcesVisible(t)
  <2> SUFFICES ASSUME NEW y \in Visible(t), t.shot[y].source # NoShot
               PROVE  t.shot[y].source \in Visible(t)
    BY DEF SourcesVisible
  <2>1. CASE t.shot[y].source = tree.shot[y].source
    BY <1>7, <2>1 DEF SourcesVisible
  <2>2. CASE y = x /\ t.shot[y].source = source
    <3>1. source \in Shots
      BY <2>2
    <3>2. Held(tree, x) = {x, SceneOf(tree, x), ChapterOf(tree, x)}
      BY Identities DEF Held
    <3>3. x \in Active(t.shot) /\ SceneOf(tree, x) \in Active(t.scene)
          /\ ChapterOf(tree, x) \in Active(t.chapter)
      BY <1>3, <1>7, <2>2 DEF Visible, Active
    <3>4. /\ x \in Shots /\ SceneOf(tree, x) \in Scenes
          /\ ChapterOf(tree, x) \in Chapters
      BY <1>3, <3>3, TreeParts DEF Active
    <3>5. /\ Held(tree, x) \cap Shots \subseteq Active(t.shot)
          /\ Held(tree, x) \cap Scenes \subseteq Active(t.scene)
          /\ Held(tree, x) \cap Chapters \subseteq Active(t.chapter)
      BY <3>2, <3>3, <3>4, Identities
    <3>6. ContextActive(t, Held(tree, x), source)
      BY <1>4, <3>1, SourceInContext
    <3> QED
      BY <1>3, <1>6, <2>2, <3>1, <3>5, <3>6, ContextVisible
  <2> QED
    BY <1>3, <1>4, <1>7, <2>1, <2>2
<1>9. LinksSound(t, links, character)
  BY <1>5, <1>7 DEF LinksSound
<1>10. repeated \/ AcyclicIn(t)
  <2>1. \A y \in Shots : t.shot[y].source \in Shots \cup {NoShot}
    BY <1>3, TreeParts DEF ShotRow
  <2>2. \A y \in Shots \ {x} : t.shot[y].source = tree.shot[y].source
    BY <1>3
  <2>3. AcyclicIn(tree) => AcyclicIn(t)
    BY <1>3, <1>4, <2>1, <2>2, NewSource
  <2> QED
    BY <2>3
<1>11. Grows(tree, t)
  BY <1>5 DEF Grows
<1>12. QED
  BY <1>3, <1>4, <1>6, <1>8, <1>9, <1>10, <1>11, Committed

LEMMA PutShotSafe ==
    ASSUME IInv, NEW r \in Requests, PutShot(r)
    PROVE  IInv'
<1> DEFINE x == req[r].node
<1>1. x \in Shots
  BY DEF PutShot
<1>2. PICK order \in ShotOrders, source \in Made(tree.shot) \cup {NoShot} :
        /\ ValidContinuity(Edited(x, req[r].seen, order, source), Held(tree, x), x, source)
        /\ CommitTree(r, Edited(x, req[r].seen, order, source))
  BY DEF PutShot
<1>3. order \in Nat \cup {Tomb} /\ source \in Shots \cup {NoShot}
  BY Identities, TreeParts DEF IInv, TypeOK, Made
<1>4. QED
  BY <1>1, <1>2, <1>3, EditSafe

LEMMA PatchShotSafe ==
    ASSUME IInv, NEW r \in Requests, PatchShot(r)
    PROVE  IInv'
<1> DEFINE x == req[r].node
<1>1. x \in Shots
  BY DEF PatchShot
<1>2. PICK order \in {req[r].seen.order} \cup ShotOrders,
           source \in {req[r].seen.source, NoShot} \cup Made(tree.shot) :
        /\ ValidContinuity(Edited(x, req[r].seen, order, source), Held(tree, x), x, source)
        /\ CommitTree(r, Edited(x, req[r].seen, order, source))
  BY DEF PatchShot
<1>3. req[r].seen \in ShotRow
  BY DEF IInv, TypeOK, RequestState
<1>4. order \in Nat \cup {Tomb} /\ source \in Shots \cup {NoShot}
  BY <1>3, Identities, TreeParts DEF IInv, TypeOK, Made, ShotRow
<1>5. QED
  BY <1>1, <1>2, <1>4, EditSafe

---------------------------------------------------------------------------
(* Chapters and scenes are created *)

\* A tree with more chapters or scenes, and the same shots in sight.
LEMMA SameShots ==
    ASSUME IInv, NEW r \in Requests, NEW t \in TreeType, CommitTree(r, t),
           Rooted(t), Grows(tree, t), t.shot = tree.shot, Visible(t) = Visible(tree)
    PROVE  IInv'
<1> USE DEF IInv
<1>1. SourcesVisible(t)
  BY DEF SourcesVisible
<1>2. LinksSound(t, links, character)
  BY DEF LinksSound
<1>3. repeated \/ AcyclicIn(t)
  BY DEF AcyclicIn
<1>4. QED
  BY <1>1, <1>2, <1>3, Committed

LEMMA CreateSceneSafe ==
    ASSUME IInv, NEW r \in Requests, CreateScene(r)
    PROVE  IInv'
<1> USE DEF IInv
<1> DEFINE c == req[r].node
<1>1. PICK s \in Scenes \ Made(tree.scene), order \in GroupOrders :
        CommitTree(r, [tree EXCEPT !.scene[s] = Inserted(c, order)])
  BY DEF CreateScene
<1> DEFINE t == [tree EXCEPT !.scene[s] = Inserted(c, order)]
<1>2. c \in Chapters /\ c \in Made(tree.chapter) /\ tree \in TreeType
  BY DEF CreateScene, TypeOK, Loaded
<1>3. /\ t \in TreeType /\ t.chapter = tree.chapter /\ t.shot = tree.shot
      /\ \A y \in Scenes : y # s => t.scene[y] = tree.scene[y]
      /\ t.scene[s] = Inserted(c, order)
  <2>1. Inserted(c, order) \in Rows(Chapters)
    BY <1>2, Identities DEF Inserted, Rows, States
  <2> QED
    BY <1>2, <2>1 DEF TreeType
<1>4. CommitTree(r, t)
  BY <1>1
<1> HIDE DEF t
<1>5. /\ Made(t.chapter) = Made(tree.chapter) /\ Made(t.shot) = Made(tree.shot)
      /\ Made(t.scene) = Made(tree.scene) \cup {s}
  BY <1>2, <1>3, TreeParts DEF Made, Inserted
<1>6. Rooted(t)
  BY <1>2, <1>3, <1>5, TreeParts DEF Rooted, Made, Inserted
<1>7. Visible(t) = Visible(tree)
  <2>1. ASSUME NEW y PROVE y \in Visible(t) <=> y \in Visible(tree)
    <3>1. y \in Visible(t) <=>
            /\ y \in Shots /\ t.shot[y].state = "active"
            /\ t.shot[y].parent \in Scenes
            /\ t.scene[t.shot[y].parent].state = "active"
            /\ t.scene[t.shot[y].parent].parent \in Chapters
            /\ t.chapter[t.scene[t.shot[y].parent].parent].state = "active"
      BY <1>3, VisibleIs
    <3>2. y \in Visible(tree) <=>
            /\ y \in Shots /\ tree.shot[y].state = "active"
            /\ tree.shot[y].parent \in Scenes
            /\ tree.scene[tree.shot[y].parent].state = "active"
            /\ tree.scene[tree.shot[y].parent].parent \in Chapters
            /\ tree.chapter[tree.scene[tree.shot[y].parent].parent].state = "active"
      BY <1>2, VisibleIs
    <3>3. y \in Shots /\ tree.shot[y].state = "active" => tree.shot[y].parent # s
      BY <1>2, TreeParts DEF Rooted, Made
    <3> QED
      BY <3>1, <3>2, <3>3, <1>3
  <2> QED
    BY <2>1
<1>8. Grows(tree, t)
  BY <1>5 DEF Grows
<1>9. QED
  BY <1>3, <1>4, <1>6, <1>7, <1>8, SameShots

LEMMA CreateChapterSafe ==
    ASSUME IInv, NEW r \in Requests, CreateChapter(r)
    PROVE  IInv'
<1> USE DEF IInv
<1>1. PICK c \in Chapters \ Made(tree.chapter), order \in GroupOrders :
        CommitTree(r, [tree EXCEPT !.chapter[c] = Inserted(Nowhere, order)])
  BY DEF CreateChapter
<1> DEFINE t == [tree EXCEPT !.chapter[c] = Inserted(Nowhere, order)]
<1>2. tree \in TreeType
  BY DEF TypeOK
<1>3. /\ t \in TreeType /\ t.scene = tree.scene /\ t.shot = tree.shot
      /\ \A y \in Chapters : y # c => t.chapter[y] = tree.chapter[y]
      /\ t.chapter[c] = Inserted(Nowhere, order)
  <2>1. Inserted(Nowhere, order) \in Rows({})
    BY Identities DEF Inserted, Rows, States
  <2> QED
    BY <1>2, <2>1 DEF TreeType
<1>4. CommitTree(r, t)
  BY <1>1
<1> HIDE DEF t
<1>5. /\ Made(t.scene) = Made(tree.scene) /\ Made(t.shot) = Made(tree.shot)
      /\ Made(t.chapter) = Made(tree.chapter) \cup {c}
  BY <1>2, <1>3, TreeParts DEF Made, Inserted
<1>6. Rooted(t)
  BY <1>2, <1>3, <1>5 DEF Rooted
<1>7. Visible(t) = Visible(tree)
  <2>1. ASSUME NEW y PROVE y \in Visible(t) <=> y \in Visible(tree)
    <3>1. y \in Visible(t) <=>
            /\ y \in Shots /\ t.shot[y].state = "active"
            /\ t.shot[y].parent \in Scenes
            /\ t.scene[t.shot[y].parent].state = "active"
            /\ t.scene[t.shot[y].parent].parent \in Chapters
            /\ t.chapter[t.scene[t.shot[y].parent].parent].state = "active"
      BY <1>3, VisibleIs
    <3>2. y \in Visible(tree) <=>
            /\ y \in Shots /\ tree.shot[y].state = "active"
            /\ tree.shot[y].parent \in Scenes
            /\ tree.scene[tree.shot[y].parent].state = "active"
            /\ tree.scene[tree.shot[y].parent].parent \in Chapters
            /\ tree.chapter[tree.scene[tree.shot[y].parent].parent].state = "active"
      BY <1>2, VisibleIs
    <3>3. (/\ tree.shot[y].parent \in Scenes
           /\ tree.scene[tree.shot[y].parent].state = "active")
              => tree.scene[tree.shot[y].parent].parent # c
      BY <1>2, TreeParts DEF Rooted, Made
    <3> QED
      BY <3>1, <3>2, <3>3, <1>3
  <2> QED
    BY <2>1
<1>8. Grows(tree, t)
  BY <1>5 DEF Grows
<1>9. QED
  BY <1>3, <1>4, <1>6, <1>7, <1>8, SameShots

---------------------------------------------------------------------------
(* The requests that write characters and links *)

LEMMA CreateCharacterSafe ==
    ASSUME IInv, NEW r \in Requests, CreateCharacter(r)
    PROVE  IInv'
<1> USE DEF IInv
<1>1. PICK k \in Characters : character[k] = "none"
                              /\ character' = [character EXCEPT ![k] = "active"]
  BY DEF CreateCharacter
<1>2. Close(r) /\ tree' = tree /\ links' = links /\ repeated' = repeated
  BY DEF CreateCharacter
<1>3. LinksSound(tree, links, character)'
  BY <1>1, <1>2 DEF LinksSound, TypeOK
<1>4. (character \in [Characters -> States])' /\ (links \subseteq Shots \X Characters)'
  BY <1>1, <1>2 DEF TypeOK, States
<1>5. QED
  BY <1>2, <1>3, <1>4, CommittedLinks

LEMMA ArchiveCharacterSafe ==
    ASSUME IInv, NEW r \in Requests, ArchiveCharacter(r)
    PROVE  IInv'
<1> USE DEF IInv
<1> DEFINE k == req[r].node
<1>1. /\ k \in Characters /\ \A x \in Visible(tree) : <<x, k>> \notin links
      /\ character' = [character EXCEPT ![k] = "archived"]
      /\ Close(r) /\ tree' = tree /\ links' = links /\ repeated' = repeated
  BY DEF ArchiveCharacter
<1>2. LinksSound(tree, links, character)'
  BY <1>1 DEF LinksSound, TypeOK
<1>3. (character \in [Characters -> States])' /\ (links \subseteq Shots \X Characters)'
  BY <1>1 DEF TypeOK, States
<1>4. QED
  BY <1>1, <1>2, <1>3, CommittedLinks

\* A request about a shot changes the links of that shot only, to active characters.
LEMMA LinksChanged ==
    ASSUME IInv, NEW r \in Requests, NEW new, CommitLinks(r, new),
           \A l \in new : \/ l \in links
                          \/ /\ l \in Made(tree.shot) \X Characters
                             /\ character[l[2]] = "active"
    PROVE  IInv'
<1> USE DEF IInv
<1>1. /\ links' = new /\ Close(r)
      /\ tree' = tree /\ character' = character /\ repeated' = repeated
  BY DEF CommitLinks
<1>2. Made(tree.shot) \subseteq Shots
  BY TreeParts DEF TypeOK, Made
<1>3. (character \in [Characters -> States])' /\ (links \subseteq Shots \X Characters)'
  <2>1. ASSUME NEW l \in new PROVE l \in Shots \X Characters
    BY <1>2 DEF TypeOK
  <2> QED
    BY <1>1, <2>1 DEF TypeOK
<1>4. LinksSound(tree, links, character)'
  <2>1. ASSUME NEW l \in new PROVE l[1] \in Made(tree.shot)
    BY DEF LinksSound
  <2>2. ASSUME NEW x \in Visible(tree), NEW k \in Characters, <<x, k>> \in new
        PROVE  character[k] = "active"
    <3>1. <<x, k>>[2] = k
      OBVIOUS
    <3> QED
      BY <2>2, <3>1 DEF LinksSound
  <2> QED
    BY <1>1, <2>1, <2>2 DEF LinksSound
<1>5. QED
  BY <1>1, <1>3, <1>4, CommittedLinks

LEMMA LinkCharacterSafe ==
    ASSUME IInv, NEW r \in Requests, LinkCharacter(r)
    PROVE  IInv'
<1> DEFINE x == req[r].node
<1>1. PICK k \in Characters :
        character[k] = "active" /\ CommitLinks(r, links \cup {<<x, k>>})
  BY DEF LinkCharacter
<1>2. x \in Made(tree.shot)
  BY DEF LinkCharacter, IInv, Loaded
<1>3. ASSUME NEW l \in links \cup {<<x, k>>}
      PROVE  l \in links \/ (l \in Made(tree.shot) \X Characters /\ character[l[2]] = "active")
  BY <1>1, <1>2
<1>4. QED
  BY <1>1, <1>3, LinksChanged

LEMMA UnlinkCharacterSafe ==
    ASSUME IInv, NEW r \in Requests, UnlinkCharacter(r)
    PROVE  IInv'
<1>1. PICK k \in Characters : CommitLinks(r, links \ {<<req[r].node, k>>})
  BY DEF UnlinkCharacter
<1>2. QED
  BY <1>1, LinksChanged

LEMMA ReplaceCharactersSafe ==
    ASSUME IInv, NEW r \in Requests, ReplaceCharacters(r)
    PROVE  IInv'
<1> DEFINE x == req[r].node
<1>1. PICK new \in SUBSET {k \in Characters : character[k] = "active"} :
        CommitLinks(r, (links \ LinksOf({x})) \cup {<<x, k>> : k \in new})
  BY DEF ReplaceCharacters
<1>2. x \in Made(tree.shot)
  BY DEF ReplaceCharacters, IInv, Loaded
<1>3. ASSUME NEW l \in (links \ LinksOf({x})) \cup {<<x, k>> : k \in new}
      PROVE  l \in links \/ (l \in Made(tree.shot) \X Characters /\ character[l[2]] = "active")
  BY <1>2
<1>4. QED
  BY <1>1, <1>3, LinksChanged

---------------------------------------------------------------------------
(* A proposal is applied *)

\* The items of a proposal that name a row have a last one.
LEMMA ItemFacts ==
    ASSUME NEW n \in Nat, NEW list, DOMAIN list.item = 1 .. n, NEW row \in Named(list)
    PROVE  /\ ItemOf(list, row) \in 1 .. n
           /\ list.item[ItemOf(list, row)] = row
           /\ \A j \in 1 .. n : list.item[j] = row => j <= ItemOf(list, row)
<1> DEFINE T == {i \in 1 .. n : list.item[i] = row}
<1>1. T \in SUBSET (1 .. n) /\ T # {}
  BY DEF Named
<1>2. PICK m \in T : \A j \in T : j <= m
  BY <1>1, Greatest
<1>3. \E i \in DOMAIN list.item :
        /\ list.item[i] = row
        /\ \A j \in DOMAIN list.item : list.item[j] = row => j <= i
  BY <1>2
<1>4. QED
  BY <1>3 DEF ItemOf

LEMMA PlaceIsNatural ==
    ASSUME NEW n \in Nat, NEW list, DOMAIN list.item = 1 .. n, NEW row
    PROVE  PlaceOf(list, row) \in Nat
<1>1. IsFiniteSet(1 .. n)
  BY FS_Interval
<1>2. {j \in DOMAIN list.item : /\ j < ItemOf(list, row)
                                /\ list.under[j] = list.under[ItemOf(list, row)]}
        \subseteq 1 .. n
  OBVIOUS
<1>3. QED
  BY <1>1, <1>2, CountIsNatural DEF PlaceOf

\* What a replacement does to the rows of chapters and of scenes.
Replaces(N, P, rows, m, above, list, a) ==
    /\ a \in [N -> Rows(P)]
    /\ Made(rows) \subseteq Made(a)
    /\ \A k \in N :
         /\ k \in Named(list) =>
              /\ a[k].state = "active"
              /\ \E j \in 1 .. m : a[k].parent = above[j]
         /\ k \notin Named(list) =>
              /\ a[k].parent = rows[k].parent
              /\ a[k].state # "none" => rows[k].state # "none"
              /\ a[k].state = "active" => \A j \in 1 .. m : above[j] # rows[k].parent

LEMMA ReplacedFacts ==
    ASSUME NEW N, NEW P, NEW rows \in [N -> Rows(P)],
           NEW m \in Nat, NEW above \in [1 .. m -> P \cup {Nowhere}],
           NEW n \in Nat, NEW list,
           list.item \in [1 .. n -> N], list.under \in [1 .. n -> 1 .. m]
    PROVE  Replaces(N, P, rows, m, above, list, Replaced(rows, above, list))
<1> DEFINE a == Replaced(rows, above, list)
           parent(k) == above[list.under[ItemOf(list, k)]]
           doomed(k) == k \in Made(rows) /\ \E i \in DOMAIN above : above[i] = rows[k].parent
<1>1. /\ \A k \in N : rows[k] \in Rows(P)
      /\ DOMAIN list.item = 1 .. n
  OBVIOUS
<1>2. a = [k \in N |->
             IF k \in Named(list)
             THEN [rows[k] EXCEPT !.state = "active", !.parent = parent(k),
                                  !.order = PlaceOf(list, k)]
             ELSE IF doomed(k) THEN [rows[k] EXCEPT !.state = "archived", !.order = Tomb]
             ELSE rows[k]]
  BY DEF Replaced
<1> HIDE DEF a
<1>3. ASSUME NEW k \in N, k \in Named(list)
      PROVE  /\ a[k] \in Rows(P) /\ a[k].state = "active"
             /\ \E j \in 1 .. m : a[k].parent = above[j]
  <2>1. ItemOf(list, k) \in 1 .. n
    BY <1>1, <1>3, ItemFacts
  <2>2. list.under[ItemOf(list, k)] \in 1 .. m
    BY <2>1
  <2>3. PlaceOf(list, k) \in Nat
    BY <1>1, PlaceIsNatural
  <2> DEFINE place == PlaceOf(list, k)
             u == list.under[ItemOf(list, k)]
  <2>4. a[k] = [rows[k] EXCEPT !.state = "active", !.parent = above[u], !.order = place]
    BY <1>2, <1>3
  <2>5. place \in Nat /\ u \in 1 .. m /\ above[u] \in P \cup {Nowhere}
    BY <2>2, <2>3
  <2> HIDE DEF place, u
  <2>6. rows[k] \in Rows(P)
    BY <1>1
  <2> QED
    BY <2>4, <2>5, <2>6 DEF Rows, States
<1>4. ASSUME NEW k \in N, k \notin Named(list)
      PROVE  /\ a[k] \in Rows(P) /\ a[k].parent = rows[k].parent
             /\ a[k].state # "none" => rows[k].state # "none"
             /\ rows[k].state # "none" => a[k].state # "none"
             /\ a[k].state = "active" => \A j \in 1 .. m : above[j] # rows[k].parent
  <2>1. rows[k] \in Rows(P) /\ (k \in Made(rows) <=> rows[k].state # "none")
    BY <1>1 DEF Made
  <2>2. CASE doomed(k)
    <3>1. a[k] = [rows[k] EXCEPT !.state = "archived", !.order = Tomb]
      BY <1>2, <1>4, <2>2
    <3>2. rows[k].state # "none"
      BY <2>1, <2>2
    <3> QED
      BY <2>1, <3>1, <3>2 DEF Rows, States
  <2>3. CASE ~doomed(k)
    <3>1. a[k] = rows[k]
      BY <1>2, <1>4, <2>3
    <3> QED
      BY <2>1, <2>3, <3>1
  <2> QED
    BY <2>2, <2>3
<1>5. a \in [N -> Rows(P)] /\ DOMAIN a = N
  BY <1>2, <1>3, <1>4
<1>6. Made(rows) \subseteq Made(a)
  <2>1. ASSUME NEW k \in Made(rows) PROVE k \in Made(a)
    <3>1. k \in N /\ rows[k].state # "none"
      BY DEF Made
    <3>2. a[k].state # "none"
      BY <1>3, <1>4, <3>1
    <3> QED
      BY <1>5, <3>1, <3>2 DEF Made
  <2> QED
    BY <2>1
<1>7. QED
  BY <1>3, <1>4, <1>5, <1>6 DEF a, Replaces

\* The same for shots, with their sources.
ReplacesShots(rows, m, above, n, list, a) ==
    /\ a \in [Shots -> ShotRow]
    /\ Made(rows) \subseteq Made(a)
    /\ \A k \in Shots :
         /\ k \in Named(list) =>
              /\ a[k].state = "active"
              /\ \E j \in 1 .. m : a[k].parent = above[j]
              /\ a[k].source # NoShot =>
                   \E j \in 1 .. n : a[k].source = list.item[j] /\ j < ItemOf(list, k)
         /\ k \notin Named(list) =>
              /\ a[k].parent = rows[k].parent /\ a[k].source = rows[k].source
              /\ a[k].state # "none" => rows[k].state # "none"
              /\ a[k].state = "active" => \A j \in 1 .. m : above[j] # rows[k].parent

LEMMA ReplacedShotFacts ==
    ASSUME NEW rows \in [Shots -> ShotRow],
           NEW m \in Nat, NEW above \in [1 .. m -> Scenes],
           NEW n \in 1 .. MaxShots, NEW list,
           list.item \in [1 .. n -> Shots], list.under \in [1 .. n -> 1 .. m],
           NEW source \in SourceLists(list)
    PROVE  ReplacesShots(rows, m, above, n, list,
                         Sourced(Replaced(rows, above, list), list, source))
<1> DEFINE b == Replaced(rows, above, list)
           a == Sourced(b, list, source)
           parent(k) == above[list.under[ItemOf(list, k)]]
           doomed(k) == k \in Made(rows) /\ \E i \in DOMAIN above : above[i] = rows[k].parent
           from(k) == IF source[ItemOf(list, k)] = 0 THEN NoShot
                      ELSE list.item[source[ItemOf(list, k)]]
<1>1. /\ \A k \in Shots : rows[k] \in ShotRow
      /\ DOMAIN list.item = 1 .. n /\ n \in Nat
  OBVIOUS
<1>2. b = [k \in Shots |->
             IF k \in Named(list)
             THEN [rows[k] EXCEPT !.state = "active", !.parent = parent(k),
                                  !.order = PlaceOf(list, k)]
             ELSE IF doomed(k) THEN [rows[k] EXCEPT !.state = "archived", !.order = Tomb]
             ELSE rows[k]]
  BY DEF Replaced
<1> HIDE DEF b
<1>3. a = [k \in Shots |-> IF k \notin Named(list) THEN b[k]
                           ELSE [b[k] EXCEPT !.source = from(k)]]
  BY <1>2 DEF Sourced
<1> HIDE DEF a
<1>4. ASSUME NEW k \in Shots, k \in Named(list)
      PROVE  /\ a[k] \in ShotRow /\ a[k].state = "active"
             /\ \E j \in 1 .. m : a[k].parent = above[j]
             /\ a[k].source # NoShot =>
                  \E j \in 1 .. n : a[k].source = list.item[j] /\ j < ItemOf(list, k)
  <2> DEFINE i == ItemOf(list, k)
             u == list.under[i]
             place == PlaceOf(list, k)
             z == from(k)
  <2>1. i \in 1 .. n
    BY <1>1, <1>4, ItemFacts
  <2>2. place \in Nat
    BY <1>1, PlaceIsNatural
  <2>3. u \in 1 .. m /\ above[u] \in Scenes
    BY <2>1
  <2>4. source[i] \in 0 .. MaxShots /\ source[i] < i
    BY <1>1, <2>1 DEF SourceLists
  <2>5. \/ z = NoShot
        \/ \E j \in 1 .. n : z = list.item[j] /\ j < i
    <3>1. CASE source[i] = 0
      BY <3>1
    <3>2. CASE source[i] # 0
      <4>1. source[i] \in 1 .. n
        BY <2>1, <2>4, <3>2, Identities
      <4> QED
        BY <2>4, <3>2, <4>1
    <3> QED
      BY <3>1, <3>2
  <2>6. z \in Shots \cup {NoShot}
    BY <2>5
  <2>7. b[k] = [rows[k] EXCEPT !.state = "active", !.parent = above[u], !.order = place]
    BY <1>2, <1>4
  <2>8. a[k] = [b[k] EXCEPT !.source = z]
    BY <1>3, <1>4
  <2>9. rows[k] \in ShotRow
    BY <1>1
  <2> HIDE DEF u, place, z
  <2>10. b[k] \in ShotRow /\ b[k].state = "active" /\ b[k].parent = above[u]
    BY <2>2, <2>3, <2>7, <2>9 DEF ShotRow, States
  <2>11. /\ a[k] \in ShotRow /\ a[k].state = "active" /\ a[k].parent = above[u]
         /\ a[k].source = z
    BY <2>6, <2>8, <2>10 DEF ShotRow
  <2> QED
    BY <2>3, <2>5, <2>11
<1>5. ASSUME NEW k \in Shots, k \notin Named(list)
      PROVE  /\ a[k] \in ShotRow /\ a[k].parent = rows[k].parent
             /\ a[k].source = rows[k].source
             /\ a[k].state # "none" => rows[k].state # "none"
             /\ rows[k].state # "none" => a[k].state # "none"
             /\ a[k].state = "active" => \A j \in 1 .. m : above[j] # rows[k].parent
  <2>1. rows[k] \in ShotRow /\ (k \in Made(rows) <=> rows[k].state # "none")
    BY <1>1 DEF Made
  <2>2. CASE doomed(k)
    <3>1. a[k] = [rows[k] EXCEPT !.state = "archived", !.order = Tomb]
      BY <1>2, <1>3, <1>5, <2>2
    <3>2. rows[k].state # "none"
      BY <2>1, <2>2
    <3> QED
      BY <2>1, <3>1, <3>2 DEF ShotRow, States
  <2>3. CASE ~doomed(k)
    <3>1. a[k] = rows[k]
      BY <1>2, <1>3, <1>5, <2>3
    <3> QED
      BY <2>1, <2>3, <3>1
  <2> QED
    BY <2>2, <2>3
<1>6. a \in [Shots -> ShotRow] /\ DOMAIN a = Shots
  <2>1. \A k \in Shots : a[k] \in ShotRow
    BY <1>4, <1>5
  <2> QED
    BY <1>3, <2>1
<1>7. Made(rows) \subseteq Made(a)
  <2>1. ASSUME NEW k \in Made(rows) PROVE k \in Made(a)
    <3>1. k \in Shots /\ rows[k].state # "none"
      BY DEF Made
    <3>2. a[k].state # "none"
      BY <1>4, <1>5, <3>1
    <3> QED
      BY <1>6, <3>1, <3>2 DEF Made
  <2> QED
    BY <2>1
<1>8. QED
  BY <1>4, <1>5, <1>6, <1>7 DEF a, b, ReplacesShots

\* Sources that lie before their targets in the list close no cycle, when the list
\* names every shot once.
LEMMA EarlierSources ==
    ASSUME NEW t, AcyclicIn(t), NEW u, NEW n \in Nat, NEW list,
           list.item \in [1 .. n -> Shots], ~Repeats(list),
           \A x \in Shots \ Named(list) : u.shot[x].source = t.shot[x].source,
           \A x \in Named(list) :
              u.shot[x].source # NoShot =>
                \E j \in 1 .. n : u.shot[x].source = list.item[j] /\ j < ItemOf(list, x)
    PROVE  AcyclicIn(u)
<1> SUFFICES ASSUME NEW S \in SUBSET Shots, S # {},
                    \A x \in S : u.shot[x].source \in S
             PROVE  FALSE
  BY DEF AcyclicIn
<1>1. CASE S \cap Named(list) = {}
  BY <1>1 DEF AcyclicIn
<1>2. CASE S \cap Named(list) # {}
  <2> DEFINE T == {ItemOf(list, x) : x \in S \cap Named(list)}
  <2>1. \A x \in Named(list) : /\ ItemOf(list, x) \in 1 .. n
                               /\ list.item[ItemOf(list, x)] = x
    BY ItemFacts
  <2>2. T \in SUBSET Nat /\ T # {}
    BY <1>2, <2>1
  <2>3. PICK i \in T : \A j \in T : i <= j
    BY <2>2, Least
  <2>4. PICK x \in S \cap Named(list) : i = ItemOf(list, x)
    BY <2>3
  <2>5. u.shot[x].source \in S /\ u.shot[x].source # NoShot
    BY <2>4, Identities
  <2>6. PICK j \in 1 .. n : u.shot[x].source = list.item[j] /\ j < i
    BY <2>4, <2>5
  <2> DEFINE y == list.item[j]
  <2>7. y \in S \cap Named(list)
    BY <2>5, <2>6 DEF Named
  <2>8. ItemOf(list, y) = j
    BY <2>1, <2>7 DEF Repeats
  <2>9. i <= j
    BY <2>3, <2>7, <2>8
  <2> QED
    BY <2>1, <2>4, <2>6, <2>9
<1>3. QED
  BY <1>1, <1>2

LEMMA ListingParts ==
    ASSUME NEW rows, NEW above, NEW max, NEW list \in Listings(rows, above, max)
    PROVE  \E n \in 1 .. max : /\ list.item \in [1 .. n -> DOMAIN rows]
                               /\ list.under \in [1 .. n -> DOMAIN above]
<1>1. PICK n \in 1 .. max :
        list \in [item : [1 .. n -> DOMAIN rows], under : [1 .. n -> DOMAIN above]]
  BY DEF Listings
<1>2. QED
  BY <1>1

\* What a proposal that lists cs, ss and xs writes.
Writes(cs, ss, xs) ==
    /\ \E source \in SourceLists(xs) :
         tree' = [chapter |-> Replaced(tree.chapter, <<Nowhere>>, cs),
                  scene |-> Replaced(tree.scene, cs.item, ss),
                  shot |-> Sourced(Replaced(tree.shot, ss.item, xs), xs, source)]
    /\ repeated' = (repeated \/ Repeats(xs))
    /\ \E kept \in SUBSET Characters, full \in BOOLEAN :
         /\ character' = [k \in Characters |->
               IF k \in kept THEN "active"
               ELSE IF full /\ character[k] = "active" THEN "archived"
               ELSE character[k]]
         /\ \E new \in SUBSET (Named(xs) \X kept) :
               links' = (links \ LinksOf(Named(xs))) \cup new

LEMMA ApplyProposalSafe ==
    ASSUME IInv, NEW r \in Requests, ApplyProposal(r)
    PROVE  IInv'
<1> USE DEF IInv
<1>1a. PICK cs \in Listings(tree.chapter, <<Nowhere>>, MaxGroups) :
        \E ss \in Listings(tree.scene, cs.item, MaxGroups) :
          \E xs \in Listings(tree.shot, ss.item, MaxShots) : Writes(cs, ss, xs)
  BY DEF ApplyProposal, Writes
<1>1b. PICK ss \in Listings(tree.scene, cs.item, MaxGroups) :
        \E xs \in Listings(tree.shot, ss.item, MaxShots) : Writes(cs, ss, xs)
  BY <1>1a
<1>1. PICK xs \in Listings(tree.shot, ss.item, MaxShots) : Writes(cs, ss, xs)
  BY <1>1b
<1>2. PICK source \in SourceLists(xs) :
        tree' = [chapter |-> Replaced(tree.chapter, <<Nowhere>>, cs),
                 scene |-> Replaced(tree.scene, cs.item, ss),
                 shot |-> Sourced(Replaced(tree.shot, ss.item, xs), xs, source)]
  BY <1>1 DEF Writes
<1>3a. PICK kept \in SUBSET Characters, full \in BOOLEAN :
        /\ character' = [k \in Characters |->
              IF k \in kept THEN "active"
              ELSE IF full /\ character[k] = "active" THEN "archived"
              ELSE character[k]]
        /\ \E new \in SUBSET (Named(xs) \X kept) :
              links' = (links \ LinksOf(Named(xs))) \cup new
  BY <1>1 DEF Writes
<1>3. PICK new \in SUBSET (Named(xs) \X kept) :
        links' = (links \ LinksOf(Named(xs))) \cup new
  BY <1>3a
<1>4. tree \in TreeType
  BY DEF TypeOK
<1>5. PICK nc \in 1 .. MaxGroups : /\ cs.item \in [1 .. nc -> Chapters]
                                   /\ cs.under \in [1 .. nc -> 1 .. 1]
  <2>1. \E n \in 1 .. MaxGroups : /\ cs.item \in [1 .. n -> DOMAIN tree.chapter]
                                  /\ cs.under \in [1 .. n -> DOMAIN <<Nowhere>>]
    BY ListingParts
  <2>2. DOMAIN tree.chapter = Chapters /\ DOMAIN <<Nowhere>> = 1 .. 1
    BY <1>4, TreeParts
  <2> QED
    BY <2>1, <2>2
<1>6. PICK ns \in 1 .. MaxGroups : /\ ss.item \in [1 .. ns -> Scenes]
                                   /\ ss.under \in [1 .. ns -> 1 .. nc]
  <2>1. \E n \in 1 .. MaxGroups : /\ ss.item \in [1 .. n -> DOMAIN tree.scene]
                                  /\ ss.under \in [1 .. n -> DOMAIN cs.item]
    BY ListingParts
  <2>2. DOMAIN tree.scene = Scenes /\ DOMAIN cs.item = 1 .. nc
    BY <1>4, <1>5, TreeParts
  <2> QED
    BY <2>1, <2>2
<1>7. PICK nx \in 1 .. MaxShots : /\ xs.item \in [1 .. nx -> Shots]
                                  /\ xs.under \in [1 .. nx -> 1 .. ns]
  <2>1. \E n \in 1 .. MaxShots : /\ xs.item \in [1 .. n -> DOMAIN tree.shot]
                                 /\ xs.under \in [1 .. n -> DOMAIN ss.item]
    BY ListingParts
  <2>2. DOMAIN tree.shot = Shots /\ DOMAIN ss.item = 1 .. ns
    BY <1>4, <1>6, TreeParts
  <2> QED
    BY <2>1, <2>2
<1>8. nc \in Nat /\ ns \in Nat /\ nx \in Nat
  BY Identities
<1>9. DOMAIN cs.item = 1 .. nc /\ DOMAIN ss.item = 1 .. ns /\ DOMAIN xs.item = 1 .. nx
  BY <1>5, <1>6, <1>7
<1> DEFINE chapters == Replaced(tree.chapter, <<Nowhere>>, cs)
           scenes == Replaced(tree.scene, cs.item, ss)
           shots == Sourced(Replaced(tree.shot, ss.item, xs), xs, source)
           t == [chapter |-> chapters, scene |-> scenes, shot |-> shots]
<1>10. /\ chapters \in [Chapters -> Rows({})]
       /\ Made(tree.chapter) \subseteq Made(chapters)
       /\ \A k \in Chapters :
            /\ k \in Named(cs) => chapters[k].state = "active"
            /\ k \notin Named(cs) =>
                 (chapters[k].state = "active" => tree.chapter[k].parent # Nowhere)
  <2>1. <<Nowhere>> \in [1 .. 1 -> {} \cup {Nowhere}] /\ <<Nowhere>>[1] = Nowhere
    OBVIOUS
  <2> DEFINE above == <<Nowhere>>
  <2>2. above \in [1 .. 1 -> {} \cup {Nowhere}] /\ above[1] = Nowhere
    BY <2>1
  <2> HIDE DEF above
  <2>3. tree.chapter \in [Chapters -> Rows({})]
    BY <1>4, TreeParts
  <2>4. Replaces(Chapters, {}, tree.chapter, 1, above, cs, Replaced(tree.chapter, above, cs))
    BY <1>5, <1>8, <2>2, <2>3, ReplacedFacts
  <2> DEFINE a == Replaced(tree.chapter, above, cs)
  <2>5. chapters = a
    BY DEF above
  <2> HIDE DEF chapters, a
  <2> QED
    BY <2>2, <2>4, <2>5 DEF Replaces, a
<1>11. /\ scenes \in [Scenes -> Rows(Chapters)]
       /\ Made(tree.scene) \subseteq Made(scenes)
       /\ \A k \in Scenes :
            /\ k \in Named(ss) =>
                 /\ scenes[k].state = "active"
                 /\ scenes[k].parent \in Named(cs)
            /\ k \notin Named(ss) =>
                 /\ scenes[k].parent = tree.scene[k].parent
                 /\ scenes[k].state # "none" => tree.scene[k].state # "none"
                 /\ scenes[k].state = "active" => tree.scene[k].parent \notin Named(cs)
  <2>1. /\ tree.scene \in [Scenes -> Rows(Chapters)]
        /\ cs.item \in [1 .. nc -> Chapters \cup {Nowhere}]
    BY <1>4, <1>5, TreeParts
  <2>2. Replaces(Scenes, Chapters, tree.scene, nc, cs.item, ss, scenes)
    BY <1>6, <1>8, <2>1, ReplacedFacts
  <2> HIDE DEF scenes
  <2> QED
    BY <1>9, <2>2 DEF Replaces, Named
<1>12. /\ shots \in [Shots -> ShotRow]
       /\ Made(tree.shot) \subseteq Made(shots)
       /\ \A k \in Shots :
            /\ k \in Named(xs) =>
                 /\ shots[k].state = "active"
                 /\ shots[k].parent \in Named(ss)
                 /\ shots[k].source # NoShot =>
                      \E j \in 1 .. nx : /\ shots[k].source = xs.item[j]
                                         /\ j < ItemOf(xs, k)
            /\ k \notin Named(xs) =>
                 /\ shots[k].parent = tree.shot[k].parent
                 /\ shots[k].source = tree.shot[k].source
                 /\ shots[k].state # "none" => tree.shot[k].state # "none"
                 /\ shots[k].state = "active" => tree.shot[k].parent \notin Named(ss)
  <2>1. tree.shot \in [Shots -> ShotRow]
    BY <1>4, TreeParts
  <2>2. ReplacesShots(tree.shot, ns, ss.item, nx, xs, shots)
    BY <1>6, <1>7, <1>8, <2>1, ReplacedShotFacts
  <2> HIDE DEF shots
  <2> QED
    BY <1>9, <2>2 DEF ReplacesShots, Named
<1>13. tree' = t
  BY <1>2
<1> HIDE DEF chapters, scenes, shots
<1>14. /\ t \in TreeType /\ t.chapter = chapters /\ t.scene = scenes /\ t.shot = shots
  BY <1>10, <1>11, <1>12 DEF TreeType
<1> HIDE DEF t
<1>15. /\ Named(cs) \subseteq Chapters /\ Named(ss) \subseteq Scenes
       /\ Named(xs) \subseteq Shots
  BY <1>5, <1>6, <1>7, <1>9 DEF Named
<1>16. /\ Named(cs) \subseteq Made(t.chapter) /\ Named(ss) \subseteq Made(t.scene)
       /\ Named(xs) \subseteq Made(t.shot)
  BY <1>10, <1>11, <1>12, <1>14, <1>15 DEF Made
<1>17. Grows(tree, t)
  BY <1>10, <1>11, <1>12, <1>14 DEF Grows
<1>18. Rooted(t)
  <2>1. ASSUME NEW s \in Made(t.scene) PROVE t.scene[s].parent \in Made(t.chapter)
    <3>1. s \in Scenes /\ t.scene[s].state # "none"
      BY <1>11, <1>14 DEF Made
    <3>2. CASE s \in Named(ss)
      BY <1>11, <1>14, <1>16, <3>1, <3>2
    <3>3. CASE s \notin Named(ss)
      <4>1. s \in Made(tree.scene) /\ t.scene[s].parent = tree.scene[s].parent
        BY <1>4, <1>11, <1>14, <3>1, <3>3, TreeParts DEF Made
      <4> QED
        BY <1>17, <4>1 DEF Rooted, Grows
    <3> QED
      BY <3>2, <3>3
  <2>2. ASSUME NEW x \in Made(t.shot) PROVE t.shot[x].parent \in Made(t.scene)
    <3>1. x \in Shots /\ t.shot[x].state # "none"
      BY <1>12, <1>14 DEF Made
    <3>2. CASE x \in Named(xs)
      BY <1>12, <1>14, <1>16, <3>1, <3>2
    <3>3. CASE x \notin Named(xs)
      <4>1. x \in Made(tree.shot) /\ t.shot[x].parent = tree.shot[x].parent
        BY <1>4, <1>12, <1>14, <3>1, <3>3, TreeParts DEF Made
      <4> QED
        BY <1>17, <4>1 DEF Rooted, Grows
    <3> QED
      BY <3>2, <3>3
  <2> QED
    BY <2>1, <2>2 DEF Rooted
<1>19. Visible(t) = Named(xs)
  <2>1. ASSUME NEW x \in Named(xs) PROVE x \in Visible(t)
    <3>1. /\ x \in Shots /\ t.shot[x].state = "active" /\ t.shot[x].parent \in Named(ss)
      BY <1>12, <1>14, <1>15
    <3> DEFINE s == t.shot[x].parent
    <3>2. s \in Scenes /\ t.scene[s].state = "active" /\ t.scene[s].parent \in Named(cs)
      BY <1>11, <1>14, <1>15, <3>1
    <3>3. t.scene[s].parent \in Chapters /\ t.chapter[t.scene[s].parent].state = "active"
      BY <1>10, <1>14, <1>15, <3>2
    <3> QED
      BY <1>14, <3>1, <3>2, <3>3, VisibleIs
  <2>2. ASSUME NEW y \in Visible(t), y \notin Named(xs) PROVE FALSE
    <3> DEFINE s == t.shot[y].parent
               c == t.scene[s].parent
    <3>1. /\ y \in Shots /\ t.shot[y].state = "active"
          /\ s \in Scenes /\ t.scene[s].state = "active"
          /\ c \in Chapters /\ t.chapter[c].state = "active"
      BY <1>14, VisibleIs
    <3>2. s \notin Named(ss)
      BY <1>12, <1>14, <2>2, <3>1
    <3>3. c \notin Named(cs)
      BY <1>11, <1>14, <3>1, <3>2
    <3>4. tree.chapter[c].parent # Nowhere
      BY <1>10, <1>14, <3>1, <3>3
    <3>5. tree.chapter[c] \in Rows({})
      BY <1>4, <3>1, TreeParts
    <3>6. tree.chapter[c].parent = Nowhere
      BY <3>5 DEF Rows
    <3> QED
      BY <3>4, <3>6
  <2> QED
    BY <2>1, <2>2
<1>20. SourcesVisible(t)
  <2> SUFFICES ASSUME NEW x \in Named(xs), t.shot[x].source # NoShot
               PROVE  t.shot[x].source \in Named(xs)
    BY <1>19 DEF SourcesVisible
  <2>1. PICK j \in 1 .. nx : t.shot[x].source = xs.item[j]
    BY <1>12, <1>14, <1>15
  <2> QED
    BY <1>9, <2>1 DEF Named
<1>21. repeated' \/ AcyclicIn(t)
  <2>1. ASSUME ~repeated, ~Repeats(xs) PROVE AcyclicIn(t)
    <3>1. AcyclicIn(tree)
      BY <2>1
    <3>2. \A x \in Shots \ Named(xs) : t.shot[x].source = tree.shot[x].source
      BY <1>12, <1>14
    <3>3. \A x \in Named(xs) :
            t.shot[x].source # NoShot =>
              \E j \in 1 .. nx : t.shot[x].source = xs.item[j] /\ j < ItemOf(xs, x)
      BY <1>12, <1>14, <1>15
    <3> QED
      BY <1>7, <1>8, <2>1, <3>1, <3>2, <3>3, EarlierSources
  <2> QED
    BY <1>1, <2>1 DEF Writes
<1>22. LinksSound(t, links', character')
  <2>1. ASSUME NEW p \in links' PROVE p[1] \in Made(t.shot)
    <3>1. CASE p \in links
      BY <1>17, <3>1 DEF LinksSound, Grows
    <3>2. CASE p \in new
      <4>1. p[1] \in Named(xs)
        BY <3>2
      <4> QED
        BY <1>16, <4>1
    <3> QED
      BY <1>3, <3>1, <3>2
  <2>2. ASSUME NEW x \in Named(xs), NEW k \in Characters, <<x, k>> \in links'
        PROVE  character'[k] = "active"
    <3>1. <<x, k>>[1] = x
      OBVIOUS
    <3>2. <<x, k>> \in new
      BY <1>3, <2>2, <3>1 DEF LinksOf
    <3>3. k \in kept
      BY <3>2
    <3> QED
      BY <1>3a, <3>3
  <2> QED
    BY <1>19, <2>1, <2>2 DEF LinksSound
<1>23. req' = [req EXCEPT ![r] = Idle]
  BY DEF ApplyProposal, Close
<1>24. Idle \in RequestState /\ Idle.node = Nobody
  BY Identities DEF Idle, RequestState, NoShotRow, ShotRow, States, Tomb
<1>25. TypeOK'
  <2>1. character' \in [Characters -> States]
    BY <1>3a DEF TypeOK, States
  <2>2. links' \subseteq Shots \X Characters
    BY <1>3, <1>3a, <1>15 DEF TypeOK
  <2>3. repeated' \in BOOLEAN
    BY <1>1 DEF TypeOK, Repeats, Writes
  <2>4. req' \in [Requests -> RequestState]
    BY <1>23, <1>24 DEF TypeOK
  <2> QED
    BY <1>13, <1>14, <2>1, <2>2, <2>3, <2>4 DEF TypeOK
<1>26. ASSUME NEW q \in Requests PROVE Loaded(tree, req[q].node)'
  <2>1. Loaded(t, req[q].node)
    BY <1>17 DEF Loaded, Grows
  <2>2. Loaded(t, Nobody)
    BY Identities DEF Loaded
  <2>3. req'[q].node \in {req[q].node, Nobody}
    BY <1>23, <1>24 DEF TypeOK
  <2> QED
    BY <1>13, <2>1, <2>2, <2>3
<1>27. QED
  BY <1>13, <1>18, <1>20, <1>21, <1>22, <1>25, <1>26

---------------------------------------------------------------------------
(* The theorems *)

LEMMA StepSafe ==
    ASSUME IInv, [Next]_vars
    PROVE  IInv'
<1>1. ASSUME NEW r \in Requests,
             \/ Begin(r) \/ Refuse(r)
             \/ CreateChapter(r) \/ CreateScene(r) \/ CreateShot(r)
             \/ PutShot(r) \/ PatchShot(r)
             \/ ArchiveShot(r) \/ ArchiveScene(r) \/ ArchiveChapter(r)
             \/ Reorder(r)
             \/ CreateCharacter(r) \/ ArchiveCharacter(r)
             \/ LinkCharacter(r) \/ UnlinkCharacter(r) \/ ReplaceCharacters(r)
             \/ ApplyProposal(r)
      PROVE  IInv'
  BY <1>1, BeginSafe, RefuseSafe, CreateChapterSafe, CreateSceneSafe, CreateShotSafe,
     PutShotSafe, PatchShotSafe, ArchiveShotSafe, ArchiveSceneSafe, ArchiveChapterSafe,
     ReorderSafe, CreateCharacterSafe, ArchiveCharacterSafe, LinkCharacterSafe,
     UnlinkCharacterSafe, ReplaceCharactersSafe, ApplyProposalSafe
<1>2. CASE UNCHANGED vars
  BY <1>2 DEF vars, IInv, TypeOK, LinksSound
<1>3. QED
  BY <1>1, <1>2 DEF Next

LEMMA Inductive == Spec => []IInv
<1>1. Init => IInv
  BY InitSafe
<1>2. IInv /\ [Next]_vars => IInv'
  BY StepSafe
<1>3. QED
  BY <1>1, <1>2, PTL DEF Spec

\* The rows, the links and what requests have loaded keep their types: archived and
\* listed rows get positions in their range, written sources are shots.
THEOREM TypeCorrect == Spec => []TypeOK
<1>1. IInv => TypeOK
  BY DEF IInv
<1>2. QED
  BY <1>1, Inductive, PTL

\* However many requests wait for the lock of the story, and whatever positions are
\* patched without a look at the dependents, the continuity sources form no cycle as
\* long as no proposal named a shot twice.
THEOREM SourcesFormNoCycle == Spec => []ContinuityAcyclic
<1>1. IInv => ContinuityAcyclic
  BY DEF IInv, ContinuityAcyclic, Acyclic
<1>2. QED
  BY <1>1, Inductive, PTL

\* What an author sees is complete, although a request counts the nodes it loaded
\* before the lock as active and never looks again.
THEOREM VisibleIsComplete == Spec => []NothingDangles
<1>1. IInv => NothingDangles
  BY DEF IInv, SourcesVisible, LinksSound, NothingDangles
<1>2. QED
  BY <1>1, Inductive, PTL

=============================================================================
