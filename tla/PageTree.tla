------------------------------ MODULE PageTree ------------------------------
(***************************************************************************)
(* The page trees of the workspaces (packages/pages, migration 0112).  A   *)
(* move is one UPDATE: it locks the row of the page, its trigger reads the *)
(* depth of the new parent, and the row is written at the commit, while    *)
(* other pages, the new parent among them, may be moved in between.        *)
(* assertNoCycle and recomputeSubtreeDepth have no caller in the           *)
(* repository: they are operators here, applied to the trees that arise.   *)
(***************************************************************************)
EXTENDS Integers, FiniteSets

CONSTANTS
  Pages,
  PageWorkspaces,
  Moves,       \* the connections that run movePage
  NoParent,    \* NULL
  MaxDepth     \* 50 in the code

ASSUME PageTreeAssumption ==
  /\ IsFiniteSet(Pages)
  /\ NoParent \notin Pages
  /\ MaxDepth \in Nat

VARIABLES
  pages,   \* the table pages, by id
  moves    \* the UPDATEs in progress

pageVars == <<pages, moves>>

Depths == 0..MaxDepth

PageRow == [exists : BOOLEAN, workspace : PageWorkspaces, parent : Pages \cup {NoParent},
            depth : Depths, archived : BOOLEAN]

(* A move whose trigger has run: the parent and the depth it will write.   *)
Move == [pc : {"idle", "moving"}, page : Pages \cup {NoParent}, parent : Pages \cup {NoParent}, depth : Depths]

NoMove == [pc |-> "idle", page |-> NoParent, parent |-> NoParent, depth |-> 0]

PageTypeOK ==
  /\ pages \in [Pages -> PageRow]
  /\ moves \in [Moves -> Move]

PageInit ==
  /\ \E w \in PageWorkspaces :
       pages = [p \in Pages |-> [exists |-> FALSE, workspace |-> w, parent |-> NoParent,
                                depth |-> 0, archived |-> FALSE]]
  /\ moves = [m \in Moves |-> NoMove]

Locked(p) == \E m \in Moves : moves[m].pc = "moving" /\ moves[m].page = p

-----------------------------------------------------------------------------
(* The SELECT of the trigger: the parent in the workspace of the page.     *)
ParentFound(w, parent) == pages[parent].exists /\ pages[parent].workspace = w

(* Mutants: the trigger does not look at the depth, or at the workspace.   *)
TriggerAcceptsAnyDepth(w, parent)     == parent # NoParent => ParentFound(w, parent)
TriggerAcceptsAnyWorkspace(w, parent) ==
  parent # NoParent => pages[parent].exists /\ pages[parent].depth + 1 <= MaxDepth

(* fn_pages_compute_depth; a step that would raise is not taken.           *)
TriggerAccepts(w, parent) ==
  parent # NoParent => /\ ParentFound(w, parent)               \* PAGE_PARENT_NOT_IN_WORKSPACE
                       /\ pages[parent].depth + 1 <= MaxDepth    \* PAGE_DEPTH_EXCEEDED

ComputeDepth(parent) == IF parent = NoParent THEN 0 ELSE pages[parent].depth + 1

(* A page is inserted with its trigger.  createPage omits the columns id   *)
(* and slug, which have no default, so the rows come from seeds and other  *)
(* statements.                                                             *)
InsertPage(p, w, parent) ==
  /\ ~pages[p].exists
  /\ TriggerAccepts(w, parent)
  /\ pages' = [pages EXCEPT ![p] =
       [exists |-> TRUE, workspace |-> w, parent |-> parent, depth |-> ComputeDepth(parent), archived |-> FALSE]]
  /\ UNCHANGED moves

(* movePage: UPDATE ... WHERE id AND workspace_id, up to the end of its    *)
(* trigger, which runs when the parent changes.  Any page is accepted as   *)
(* the parent: the page itself and those below it too.                     *)
MoveBegin(m, w, p, parent) ==
  /\ moves[m].pc = "idle"
  /\ pages[p].exists /\ pages[p].workspace = w
  /\ ~Locked(p)
  /\ parent # pages[p].parent
  /\ TriggerAccepts(w, parent)
  /\ moves' = [moves EXCEPT ![m] = [pc |-> "moving", page |-> p, parent |-> parent, depth |-> ComputeDepth(parent)]]
  /\ UNCHANGED pages

MoveCommit(m) ==
  LET move == moves[m]
  IN  /\ move.pc = "moving"
      /\ pages' = [pages EXCEPT ![move.page] = [@ EXCEPT !.parent = move.parent, !.depth = move.depth]]
      /\ moves' = [moves EXCEPT ![m] = NoMove]

(* The statement fails, or its connection breaks.                          *)
MoveAbort(m) ==
  /\ moves[m].pc = "moving"
  /\ moves' = [moves EXCEPT ![m] = NoMove]
  /\ UNCHANGED pages

(* archive; it waits for the row.  The pages below stay where they are.    *)
Archive(w, p) ==
  /\ pages[p].exists /\ pages[p].workspace = w
  /\ ~Locked(p)
  /\ pages' = [pages EXCEPT ![p].archived = TRUE]
  /\ UNCHANGED moves

PageNext ==
  \/ \E p \in Pages, w \in PageWorkspaces, parent \in Pages \cup {NoParent} :
       InsertPage(p, w, parent) \/ \E m \in Moves : MoveBegin(m, w, p, parent)
  \/ \E m \in Moves : MoveCommit(m) \/ MoveAbort(m)
  \/ \E p \in Pages, w \in PageWorkspaces : Archive(w, p)

PageSpec == PageInit /\ [][PageNext]_pageVars

-----------------------------------------------------------------------------
(* The recursive queries of tree.ts.                                       *)

In(w, p) == pages[p].exists /\ pages[p].workspace = w

Children(w, p) == {q \in Pages : In(w, q) /\ pages[q].parent = p}

(* The rows of the CTE ancestors: the page and, round by round, the        *)
(* parents of the rows found so far.                                       *)
Ancestors(w, p) ==
  LET round[k \in Nat] ==
        IF k = 0 THEN {q \in {p} : In(w, q)}
        ELSE {q \in Pages : In(w, q) /\ \E a \in round[k - 1] : pages[a].parent = q}
  IN  {q \in Pages : \E k \in 0..Cardinality(Pages) : q \in round[k]}

(* assertNoCycle throws unless the page is neither the new parent nor an   *)
(* ancestor of it.                                                         *)
AssertNoCycle(w, p, parent) == p # parent /\ p \notin Ancestors(w, parent)

(* Mutant: depths are counted from the page instead of from the root.      *)
SubtreeFromZero(w, p) ==
  LET level[k \in Nat] ==
        IF k = 0 THEN {q \in {p} : In(w, q)}
        ELSE UNION {Children(w, q) : q \in level[k - 1]}
  IN  UNION {{[page |-> q, depth |-> k] : q \in level[k]} : k \in 0..Cardinality(Pages)}

(* The rows of the CTE subtree, with the depth it gives them.              *)
Subtree(w, p) ==
  LET level[k \in Nat] ==
        IF k = 0 THEN {q \in {p} : In(w, q)}
        ELSE UNION {Children(w, q) : q \in level[k - 1]}
  IN  UNION {{[page |-> q, depth |-> pages[p].depth + k] : q \in level[k]} : k \in 0..Cardinality(Pages)}

(* recomputeSubtreeDepth: the UPDATE joins the rows of the CTE; it fails   *)
(* when one would be deeper than MaxDepth, and does not end on a cycle.    *)
RecomputeSubtreeDepth(w, p) ==
  [q \in Pages |-> IF \E s \in Subtree(w, p) : s.page = q
                   THEN [pages[q] EXCEPT !.depth = (CHOOSE s \in Subtree(w, p) : s.page = q).depth]
                   ELSE pages[q]]

-----------------------------------------------------------------------------
(* A page and its parent are in one workspace, whatever moves at once.     *)
ParentInWorkspace ==
  \A p \in Pages : pages[p].exists /\ pages[p].parent # NoParent =>
    ParentFound(pages[p].workspace, pages[p].parent)

(* A page has depth 0 exactly when it has no parent.                       *)
RootsAtZero ==
  \A p \in Pages : pages[p].exists => (pages[p].depth = 0 <=> pages[p].parent = NoParent)

(* No page is below itself.                                                *)
StrictAncestors(p) ==
  LET w == pages[p].workspace
  IN  IF pages[p].parent = NoParent THEN {} ELSE Ancestors(w, pages[p].parent)

Acyclic == \A p \in Pages : pages[p].exists => p \notin StrictAncestors(p)

(* assertNoCycle, had movePage called it, would refuse exactly the moves   *)
(* that make a cycle of a tree without one.                                *)
MovedTo(p, parent) == [q \in Pages |-> IF q = p THEN parent ELSE pages[q].parent]

CycleIn(parentOf, p) ==
  LET up[k \in Nat] == IF k = 0 THEN p ELSE IF up[k - 1] = NoParent THEN NoParent ELSE parentOf[up[k - 1]]
  IN  \E k \in 1..Cardinality(Pages) : up[k] = p

AssertNoCycleIsExact ==
  Acyclic => \A p, parent \in Pages :
    In(pages[p].workspace, p) /\ ParentFound(pages[p].workspace, parent) =>
      (AssertNoCycle(pages[p].workspace, p, parent) <=> ~CycleIn(MovedTo(p, parent), p))

(* recomputeSubtreeDepth, where it succeeds on a tree without a cycle,     *)
(* repairs what moves leave behind: below the page, every page is one      *)
(* deeper than its parent, and nothing else changes.                       *)
RecomputeRepairs ==
  \A p \in Pages :
    LET w     == pages[p].workspace
        after == RecomputeSubtreeDepth(w, p)
        below == {q \in Pages : pages[q].exists /\ p \in StrictAncestors(q)}
    IN  /\ pages[p].exists /\ Acyclic
        /\ \A s \in Subtree(w, p) : s.depth <= MaxDepth
        => /\ \A q \in below : after[q].depth = after[pages[q].parent].depth + 1
           /\ \A q \in Pages \ below : after[q] = pages[q]

(* The two recursive queries of tree.ts do what their comments promise.    *)
TreeQueriesExact == AssertNoCycleIsExact /\ RecomputeRepairs
=============================================================================
