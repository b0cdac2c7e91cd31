--------------------------- MODULE PageTreeProofs ---------------------------
(***************************************************************************)
(* What the trigger keeps of the page trees, and what the recursive        *)
(* queries of tree.ts compute on them, for any number of pages, workspaces *)
(* and concurrent moves, and any depth.                                    *)
(***************************************************************************)
EXTENDS PageTree, FiniteSetTheorems, TLAPS

(* What the trigger found for a move still holds when the move commits:    *)
(* pages are never removed and stay in their workspace.                    *)
MovesAreValid ==
  \A m \in Moves : moves[m].pc = "moving" =>
    LET move == moves[m]
    IN  /\ move.page \in Pages /\ pages[move.page].exists
        /\ move.parent # NoParent => ParentFound(pages[move.page].workspace, move.parent)
        /\ move.depth = 0 <=> move.parent = NoParent

TreeInv ==
  /\ PageTypeOK
  /\ ParentInWorkspace
  /\ RootsAtZero
  /\ MovesAreValid

USE PageTreeAssumption

LEMMA InitTree == PageInit => TreeInv
  BY DEF PageInit, TreeInv, PageTypeOK, ParentInWorkspace, RootsAtZero, MovesAreValid,
         PageRow, Move, NoMove, Depths

(* The depth the trigger computes.                                         *)
LEMMA ComputedDepth ==
  ASSUME TreeInv, NEW w, NEW parent \in Pages \cup {NoParent}, TriggerAccepts(w, parent)
  PROVE  /\ ComputeDepth(parent) \in Depths
         /\ ComputeDepth(parent) = 0 <=> parent = NoParent
  BY DEF TreeInv, PageTypeOK, PageRow, Depths, TriggerAccepts, ComputeDepth

LEMMA InsertStep ==
  ASSUME TreeInv, NEW p \in Pages, NEW w \in PageWorkspaces, NEW parent \in Pages \cup {NoParent},
         InsertPage(p, w, parent)
  PROVE  TreeInv'
  <1> DEFINE row == [exists |-> TRUE, workspace |-> w, parent |-> parent, depth |-> ComputeDepth(parent),
                     archived |-> FALSE]
  <1>0. /\ pages \in [Pages -> PageRow] /\ moves \in [Moves -> Move]
        /\ ~pages[p].exists /\ TriggerAccepts(w, parent)
        /\ pages' = [pages EXCEPT ![p] = row] /\ UNCHANGED moves
    BY DEF InsertPage, TreeInv, PageTypeOK
  <1>1. row \in PageRow /\ (row.depth = 0 <=> row.parent = NoParent)
    BY <1>0, ComputedDepth DEF PageRow
  <1>2. \A q \in Pages : pages[q].exists => pages'[q] = pages[q]
    BY <1>0
  <1>3. \A v \in PageWorkspaces, q \in Pages : ParentFound(v, q) => ParentFound(v, q)'
    BY <1>2 DEF ParentFound
  <1>4. PageTypeOK'
    BY <1>0, <1>1 DEF PageTypeOK
  <1>5. ParentInWorkspace'
    BY <1>0, <1>2, <1>3 DEF TreeInv, ParentInWorkspace, TriggerAccepts, PageRow
  <1>6. RootsAtZero'
    BY <1>0, <1>1, <1>2 DEF TreeInv, RootsAtZero
  <1>7. MovesAreValid'
    BY <1>0, <1>2, <1>3 DEF TreeInv, MovesAreValid, PageRow, Move
  <1> QED
    BY <1>4, <1>5, <1>6, <1>7 DEF TreeInv

LEMMA BeginStep ==
  ASSUME TreeInv, NEW m \in Moves, NEW p \in Pages, NEW w \in PageWorkspaces,
         NEW parent \in Pages \cup {NoParent}, MoveBegin(m, w, p, parent)
  PROVE  TreeInv'
  <1> DEFINE move == [pc |-> "moving", page |-> p, parent |-> parent, depth |-> ComputeDepth(parent)]
  <1>0. /\ moves \in [Moves -> Move] /\ TriggerAccepts(w, parent)
        /\ pages[p].exists /\ pages[p].workspace = w
        /\ moves' = [moves EXCEPT ![m] = move] /\ UNCHANGED pages
    BY DEF MoveBegin, TreeInv, PageTypeOK
  <1>1. move \in Move /\ (move.depth = 0 <=> move.parent = NoParent)
    BY <1>0, ComputedDepth DEF Move
  <1>2. (PageTypeOK /\ ParentInWorkspace /\ RootsAtZero)'
    BY <1>0, <1>1 DEF TreeInv, PageTypeOK, ParentInWorkspace, RootsAtZero, ParentFound
  <1>3. MovesAreValid'
    BY <1>0, <1>1 DEF TreeInv, MovesAreValid, TriggerAccepts, ParentFound
  <1> QED
    BY <1>2, <1>3 DEF TreeInv

LEMMA CommitStep ==
  ASSUME TreeInv, NEW m \in Moves, MoveCommit(m)
  PROVE  TreeInv'
  <1> DEFINE move == moves[m]
             row  == [pages[move.page] EXCEPT !.parent = move.parent, !.depth = move.depth]
  <1>0. /\ pages \in [Pages -> PageRow] /\ moves \in [Moves -> Move] /\ move \in Move
        /\ move.pc = "moving" /\ move.page \in Pages /\ pages[move.page].exists
        /\ pages' = [pages EXCEPT ![move.page] = row] /\ moves' = [moves EXCEPT ![m] = NoMove]
    BY DEF MoveCommit, TreeInv, PageTypeOK, MovesAreValid
  <1>1. /\ row \in PageRow /\ row.exists /\ row.workspace = pages[move.page].workspace
        /\ row.parent = move.parent /\ (row.depth = 0 <=> row.parent = NoParent)
    BY <1>0 DEF PageRow, Move, TreeInv, MovesAreValid
  <1>2. \A q \in Pages : pages'[q].exists = pages[q].exists /\ pages'[q].workspace = pages[q].workspace
    BY <1>0, <1>1
  <1>3. \A v \in PageWorkspaces, q \in Pages : ParentFound(v, q) => ParentFound(v, q)'
    BY <1>2 DEF ParentFound
  <1>4. PageTypeOK'
    BY <1>0, <1>1 DEF PageTypeOK, NoMove, Move, Depths
  <1>5. ParentInWorkspace'
    <2>1. \A q \in Pages \ {move.page} : pages'[q] = pages[q]
      BY <1>0
    <2>2. row.parent # NoParent => ParentFound(row.workspace, row.parent)
      BY <1>0, <1>1 DEF TreeInv, MovesAreValid
    <2>3. \A q \in Pages : pages[q].workspace \in PageWorkspaces /\ pages[q].parent \in Pages \cup {NoParent}
      BY <1>0 DEF PageRow
    <2>4. row.workspace \in PageWorkspaces /\ row.parent \in Pages \cup {NoParent}
      BY <1>1 DEF PageRow
    <2> QED
      BY <1>0, <1>2, <1>3, <2>1, <2>2, <2>3, <2>4 DEF TreeInv, ParentInWorkspace
  <1>6. RootsAtZero'
    BY <1>0, <1>1, <1>2 DEF TreeInv, RootsAtZero
  <1>7. MovesAreValid'
    <2>1. \A k \in Moves : moves'[k].pc = "moving" => moves'[k] = moves[k]
      BY <1>0 DEF NoMove
    <2>2. \A k \in Moves : moves[k].pc = "moving" =>
            moves[k].page \in Pages /\ moves[k].parent \in Pages \cup {NoParent}
      BY <1>0 DEF TreeInv, MovesAreValid, Move
    <2>3. \A q \in Pages : pages[q].workspace \in PageWorkspaces
      BY <1>0 DEF PageRow
    <2> QED
      BY <1>2, <1>3, <2>1, <2>2, <2>3 DEF TreeInv, MovesAreValid
  <1> QED
    BY <1>4, <1>5, <1>6, <1>7 DEF TreeInv

LEMMA TreeStep == TreeInv /\ [PageNext]_pageVars => TreeInv'
  <1> SUFFICES ASSUME TreeInv, [PageNext]_pageVars PROVE TreeInv'
    OBVIOUS
  <1>1. ASSUME NEW m \in Moves, MoveAbort(m) PROVE TreeInv'
    BY <1>1 DEF MoveAbort, TreeInv, PageTypeOK, ParentInWorkspace, RootsAtZero, MovesAreValid, ParentFound,
                NoMove, Move, Depths
  <1>2. ASSUME NEW p \in Pages, NEW w \in PageWorkspaces, Archive(w, p) PROVE TreeInv'
    <2>1. pages \in [Pages -> PageRow] /\ pages' = [pages EXCEPT ![p].archived = TRUE] /\ UNCHANGED moves
      BY <1>2 DEF Archive, TreeInv, PageTypeOK
    <2>2. /\ pages' \in [Pages -> PageRow]
          /\ \A q \in Pages : /\ pages'[q].exists = pages[q].exists /\ pages'[q].workspace = pages[q].workspace
                              /\ pages'[q].parent = pages[q].parent /\ pages'[q].depth = pages[q].depth
      BY <2>1 DEF PageRow
    <2> QED
      BY <2>1, <2>2 DEF TreeInv, PageTypeOK, ParentInWorkspace, RootsAtZero, MovesAreValid, ParentFound,
                        PageRow, Move
  <1>3. CASE UNCHANGED pageVars
    BY <1>3 DEF pageVars, TreeInv, PageTypeOK, ParentInWorkspace, RootsAtZero, MovesAreValid, ParentFound
  <1> QED
    BY <1>1, <1>2, <1>3, InsertStep, BeginStep, CommitStep DEF PageNext

LEMMA AlwaysTree == PageSpec => []TreeInv
  BY InitTree, TreeStep, PTL DEF PageSpec

(* Types; the depths stay within 0..MaxDepth.                              *)
THEOREM PageTypeCorrect == PageSpec => []PageTypeOK
  <1> TreeInv => PageTypeOK
    BY DEF TreeInv
  <1> QED
    BY AlwaysTree, PTL

(* A page and its parent are in one workspace, whatever is moved at once.  *)
THEOREM ParentsInWorkspace == PageSpec => []ParentInWorkspace
  <1> TreeInv => ParentInWorkspace
    BY DEF TreeInv
  <1> QED
    BY AlwaysTree, PTL

(* A page has depth 0 exactly when it has no parent.                       *)
THEOREM OnlyRootsAtZero == PageSpec => []RootsAtZero
  <1> TreeInv => RootsAtZero
    BY DEF TreeInv
  <1> QED
    BY AlwaysTree, PTL

HIDE PageTreeAssumption

-----------------------------------------------------------------------------
(* Recursion over the naturals, as the queries of tree.ts use it.          *)

(* Induction: a set with 0 that is closed under successor holds Nat.       *)
LEMMA NatInduct ==
  ASSUME NEW S, 0 \in S, \A n \in Nat : n \in S => n + 1 \in S
  PROVE  \A n \in Nat : n \in S
  <1> DEFINE Bad == Nat \ S
  <1> SUFFICES ASSUME Bad # {} PROVE FALSE
    OBVIOUS
  <1>1. PICK n \in Bad : \A m \in Bad : <<m, n>> \notin OpToRel(<, Nat)
    BY NatLessThanWellFounded, WFMin
  <1>2. \A m \in Bad : ~(m < n)
    BY <1>1 DEF OpToRel
  <1>3. n - 1 \in Nat /\ n - 1 < n /\ (n - 1) + 1 = n
    OBVIOUS
  <1> QED
    BY <1>2, <1>3

(* A non-empty set of naturals has a least element.                        *)
LEMMA Least ==
  ASSUME NEW S \in SUBSET Nat, S # {}
  PROVE  \E n \in S : \A m \in S : n <= m
  <1>1. PICK n \in S : \A m \in S : <<m, n>> \notin OpToRel(<, Nat)
    BY NatLessThanWellFounded, WFMin
  <1>2. \A m \in S : ~(m < n)
    BY <1>1 DEF OpToRel
  <1> QED
    BY <1>2

(* f is the sequence that starts at v and goes on with step.               *)
Iterates(f, v, step) == f = [k \in Nat |-> IF k = 0 THEN v ELSE step[f[k - 1]]]

(* The same up to n.                                                       *)
IteratesTo(n, f, V, v, step) ==
  f \in [0..n -> V] /\ f[0] = v /\ \A k \in 1..n : f[k] = step[f[k - 1]]

LEMMA IteratesToUnique ==
  ASSUME NEW V, NEW v \in V, NEW step \in [V -> V], NEW n \in Nat, NEW m \in Nat, NEW f, NEW g,
         IteratesTo(n, f, V, v, step), IteratesTo(m, g, V, v, step), n <= m
  PROVE  \A k \in 0..n : f[k] = g[k]
  <1> DEFINE S == {k \in Nat : k <= n => f[k] = g[k]}
  <1>1. 0 \in S
    BY DEF IteratesTo
  <1>2. ASSUME NEW k \in Nat, k \in S PROVE k + 1 \in S
    BY <1>2 DEF IteratesTo
  <1>3. \A k \in Nat : k \in S
    <2> HIDE DEF S
    <2> QED BY <1>1, <1>2, NatInduct
  <1> QED
    BY <1>3

LEMMA IteratesToExists ==
  ASSUME NEW V, NEW v \in V, NEW step \in [V -> V]
  PROVE  \A n \in Nat : \E f : IteratesTo(n, f, V, v, step)
  <1> DEFINE S == {n \in Nat : \E f : IteratesTo(n, f, V, v, step)}
  <1>1. 0 \in S
    <2>1. IteratesTo(0, [k \in 0..0 |-> v], V, v, step)
      BY DEF IteratesTo
    <2> QED BY <2>1
  <1>2. ASSUME NEW n \in Nat, n \in S PROVE n + 1 \in S
    <2>1. PICK f : IteratesTo(n, f, V, v, step)
      BY <1>2
    <2> DEFINE g == [k \in 0..(n + 1) |-> IF k = n + 1 THEN step[f[n]] ELSE f[k]]
    <2>2. f \in [0..n -> V] /\ f[0] = v /\ \A k \in 1..n : f[k] = step[f[k - 1]]
      BY <2>1 DEF IteratesTo
    <2>3. g \in [0..(n + 1) -> V] /\ g[0] = v
      BY <2>2
    <2>4. ASSUME NEW k \in 1..(n + 1) PROVE g[k] = step[g[k - 1]]
      BY <2>2
    <2>5. IteratesTo(n + 1, g, V, v, step)
      BY <2>3, <2>4 DEF IteratesTo
    <2> QED BY <2>5
  <1>3. \A n \in Nat : n \in S
    <2> HIDE DEF S
    <2> QED BY <1>1, <1>2, NatInduct
  <1> QED
    BY <1>3

(* The sequence exists and stays in V.                                     *)
LEMMA IteratesExists ==
  ASSUME NEW V, NEW v \in V, NEW step \in [V -> V]
  PROVE  \E f \in [Nat -> V] : Iterates(f, v, step)
  <1> DEFINE part(n) == CHOOSE f : IteratesTo(n, f, V, v, step)
             f == [n \in Nat |-> part(n)[n]]
  <1>1. \A n \in Nat : IteratesTo(n, part(n), V, v, step)
    BY IteratesToExists
  <1> HIDE DEF part
  <1>2. \A n \in Nat : f[n] \in V
    BY <1>1 DEF IteratesTo
  <1>3. f[0] = v
    BY <1>1 DEF IteratesTo
  <1>4. ASSUME NEW n \in Nat, n # 0 PROVE f[n] = step[f[n - 1]]
    <2>1. n - 1 \in Nat /\ n - 1 <= n /\ n - 1 \in 0..(n - 1) /\ n \in 1..n
      BY <1>4
    <2>2. part(n - 1)[n - 1] = part(n)[n - 1]
      BY <1>1, <2>1, IteratesToUnique
    <2>3. part(n)[n] = step[part(n)[n - 1]]
      BY <1>1, <2>1 DEF IteratesTo
    <2> QED BY <2>1, <2>2, <2>3
  <1>5. f = [k \in Nat |-> IF k = 0 THEN v ELSE step[f[k - 1]]]
    BY <1>3, <1>4
  <1> HIDE DEF f
  <1>6. f \in [Nat -> V]
    BY <1>2, <1>5
  <1> QED
    BY <1>5, <1>6 DEF Iterates

(* A recursive definition takes the values of any such sequence.           *)
LEMMA IteratesUnique ==
  ASSUME NEW V, NEW v \in V, NEW step \in [V -> V], NEW f, NEW g \in [Nat -> V],
         Iterates(f, v, step), Iterates(g, v, step)
  PROVE  f = g
  <1> DEFINE S == {k \in Nat : f[k] = g[k]}
  <1>0. /\ f = [k \in Nat |-> IF k = 0 THEN v ELSE step[f[k - 1]]]
        /\ g = [k \in Nat |-> IF k = 0 THEN v ELSE step[g[k - 1]]]
    BY DEF Iterates
  <1>1. 0 \in S
    BY <1>0
  <1>2. ASSUME NEW k \in Nat, k \in S PROVE k + 1 \in S
    <2>1. f[k + 1] = step[f[k]] /\ g[k + 1] = step[g[k]]
      BY <1>0
    <2> QED BY <1>2, <2>1
  <1>3. \A k \in Nat : k \in S
    <2> HIDE DEF S
    <2> QED BY <1>1, <1>2, NatInduct
  <1> QED
    BY <1>0, <1>3

(* What a recursive definition of the sequence denotes.                    *)
LEMMA IteratesChosen ==
  ASSUME NEW V, NEW v \in V, NEW step \in [V -> V], NEW f, Iterates(f, v, step)
  PROVE  f \in [Nat -> V] /\ f[0] = v /\ \A k \in Nat : f[k + 1] = step[f[k]]
  <1>1. PICK g \in [Nat -> V] : Iterates(g, v, step)
    BY IteratesExists
  <1>2. f = g
    BY <1>1, IteratesUnique
  <1>3. \A k \in Nat : k + 1 \in Nat /\ k + 1 # 0 /\ (k + 1) - 1 = k
    OBVIOUS
  <1> QED
    BY <1>1, <1>2, <1>3 DEF Iterates

-----------------------------------------------------------------------------
(* The chain of the parents of a page, which goes on with NoParent.        *)
Nodes == Pages \cup {NoParent}

ParentMap == {par \in [Nodes -> Nodes] : par[NoParent] = NoParent}

Climb(par, q) == CHOOSE f : Iterates(f, q, par)

LEMMA Climbing ==
  ASSUME NEW par \in ParentMap, NEW q \in Nodes
  PROVE  /\ Climb(par, q) \in [Nat -> Nodes]
         /\ Climb(par, q)[0] = q
         /\ \A k \in Nat : Climb(par, q)[k + 1] = par[Climb(par, q)[k]]
  <1>1. par \in [Nodes -> Nodes]
    BY DEF ParentMap
  <1>2. \E f : Iterates(f, q, par)
    BY <1>1, IteratesExists
  <1>3. Iterates(Climb(par, q), q, par)
    BY <1>2 DEF Climb
  <1> QED
    BY <1>1, <1>3, IteratesChosen

(* Climbing i steps and then j is climbing i + j.                          *)
LEMMA ClimbAdds ==
  ASSUME NEW par \in ParentMap, NEW q \in Nodes, NEW i \in Nat
  PROVE  \A j \in Nat : Climb(par, q)[i + j] = Climb(par, Climb(par, q)[i])[j]
  <1> DEFINE r == Climb(par, q)[i]
             S == {j \in Nat : Climb(par, q)[i + j] = Climb(par, r)[j]}
  <1>0. r \in Nodes
    BY Climbing
  <1>1. 0 \in S
    <2>1. Climb(par, r)[0] = r
      BY <1>0, Climbing
    <2> QED BY <2>1
  <1>2. ASSUME NEW j \in Nat, j \in S PROVE j + 1 \in S
    <2>1. Climb(par, q)[(i + j) + 1] = par[Climb(par, q)[i + j]]
      BY Climbing
    <2>2. Climb(par, r)[j + 1] = par[Climb(par, r)[j]]
      BY <1>0, Climbing
    <2> QED BY <1>2, <2>1, <2>2
  <1>3. \A j \in Nat : j \in S
    <2> HIDE DEF S
    <2> QED BY <1>1, <1>2, NatInduct
  <1> QED
    BY <1>3

LEMMA ClimbFromParent ==
  ASSUME NEW par \in ParentMap, NEW q \in Nodes, NEW k \in Nat
  PROVE  Climb(par, q)[k + 1] = Climb(par, par[q])[k]
  <1> DEFINE one == 0 + 1
  <1>1. Climb(par, q)[one] = par[q]
    <2>1. Climb(par, q)[0] = q /\ \A j \in Nat : Climb(par, q)[j + 1] = par[Climb(par, q)[j]]
      BY Climbing
    <2>2. 0 \in Nat
      OBVIOUS
    <2> QED BY <2>1, <2>2, Zenon
  <1>2. one \in Nat /\ one + k = k + 1
    OBVIOUS
  <1> HIDE DEF one
  <1>3. Climb(par, q)[one + k] = Climb(par, Climb(par, q)[one])[k]
    BY <1>2, ClimbAdds
  <1> QED
    BY <1>1, <1>2, <1>3

(* Above a root there is nothing.                                          *)
LEMMA ClimbStays ==
  ASSUME NEW par \in ParentMap, NEW q \in Nodes, NEW i \in Nat, Climb(par, q)[i] = NoParent
  PROVE  \A j \in Nat : j >= i => Climb(par, q)[j] = NoParent
  <1> DEFINE S == {j \in Nat : Climb(par, NoParent)[j] = NoParent}
  <1>0. NoParent \in Nodes /\ par[NoParent] = NoParent
    BY DEF Nodes, ParentMap
  <1>1. 0 \in S
    BY <1>0, Climbing
  <1>2. ASSUME NEW j \in Nat, j \in S PROVE j + 1 \in S
    <2>1. Climb(par, NoParent)[j + 1] = par[Climb(par, NoParent)[j]]
      BY <1>0, Climbing
    <2> QED BY <1>0, <1>2, <2>1
  <1>3. \A j \in Nat : j \in S
    <2> HIDE DEF S
    <2> QED BY <1>1, <1>2, NatInduct
  <1>4. ASSUME NEW j \in Nat, j >= i PROVE Climb(par, q)[j] = NoParent
    <2>1. j - i \in Nat /\ i + (j - i) = j
      BY <1>4
    <2>2. Climb(par, q)[i + (j - i)] = Climb(par, NoParent)[j - i]
      BY <2>1, ClimbAdds
    <2> QED BY <1>3, <2>1, <2>2
  <1> QED
    BY <1>4

(* A page above another is found within as many steps as there are other   *)
(* pages: on the way to it no page comes twice.                            *)
LEMMA ClimbIsShort ==
  ASSUME NEW par \in ParentMap, NEW q \in Nodes, NEW r \in Pages, NEW n \in Nat, Climb(par, q)[n] = r
  PROVE  \E k \in Nat : /\ Climb(par, q)[k] = r /\ k <= n /\ k + 1 <= Cardinality(Pages)
                        /\ \A i \in Nat : i < k => Climb(par, q)[i] # r
  <1> USE PageTreeAssumption
  <1> DEFINE c == Climb(par, q)
             S == {k \in Nat : c[k] = r}
  <1>0. c \in [Nat -> Nodes]
    BY Climbing
  <1> HIDE DEF c
  <1>1. PICK k \in S : \A i \in S : k <= i
    <2>1. S \in SUBSET Nat /\ S # {}
      BY DEF c
    <2> HIDE DEF S
    <2> QED BY <2>1, Least
  <1>2. c[k] = r /\ k <= n /\ \A i \in Nat : i < k => c[i] # r
    <2>1. n \in S
      BY DEF c
    <2> QED BY <1>1, <2>1
  <1>3. \A i \in 0..k : c[i] \in Pages
    <2> SUFFICES ASSUME NEW i \in 0..k, c[i] = NoParent PROVE FALSE
      BY <1>0 DEF Nodes
    <2>1. c[k] = NoParent
      BY ClimbStays DEF c
    <2> QED BY <1>2, <2>1
  <1>4. \A i, j \in 0..k : i < j => c[i] # c[j]
    <2> SUFFICES ASSUME NEW i \in 0..k, NEW j \in 0..k, i < j, c[i] = c[j] PROVE FALSE
      OBVIOUS
    <2>1. k - j \in Nat /\ i + (k - j) \in Nat /\ i + (k - j) < k /\ j + (k - j) = k
      OBVIOUS
    <2>2. c[i + (k - j)] = Climb(par, c[i])[k - j] /\ c[j + (k - j)] = Climb(par, c[j])[k - j]
      <3>1. \A a \in 0..k : \A d \in Nat : c[a + d] = Climb(par, c[a])[d]
        BY ClimbAdds DEF c
      <3> QED BY <2>1, <3>1
    <2> QED BY <1>2, <2>1, <2>2
  <1>5. k + 1 <= Cardinality(Pages)
    <2> DEFINE f == [i \in 0..k |-> c[i]]
    <2>1. f \in [0..k -> Pages]
      BY <1>3
    <2>2. \A i, j \in 0..k : f[i] = f[j] => i = j
      BY <1>4
    <2>3. f \in Injection(0..k, Pages)
      BY <2>1, <2>2 DEF Injection, IsInjective
    <2>4. Cardinality(0..k) = k + 1
      BY FS_Interval
    <2> QED BY <2>3, <2>4, FS_Injection
  <1> QED
    BY <1>2, <1>5 DEF c

-----------------------------------------------------------------------------
(* The queries of tree.ts, as climbs.                                      *)
Parents == [q \in Nodes |-> IF q = NoParent THEN NoParent ELSE pages[q].parent]

LEMMA ParentsMap == PageTypeOK => Parents \in ParentMap
  <1> SUFFICES ASSUME PageTypeOK PROVE Parents \in ParentMap
    OBVIOUS
  <1>1. \A q \in Pages : pages[q].parent \in Nodes
    BY DEF PageTypeOK, PageRow, Nodes
  <1>2. Parents \in [Nodes -> Nodes] /\ Parents[NoParent] = NoParent
    BY <1>1 DEF Parents, Nodes
  <1> QED
    BY <1>2 DEF ParentMap

(* The chain of a page stays in its workspace.                             *)
LEMMA ClimbInWorkspace ==
  ASSUME PageTypeOK, ParentInWorkspace, NEW w, NEW p \in Pages, In(w, p)
  PROVE  \A k \in Nat : Climb(Parents, p)[k] \in Pages => In(w, Climb(Parents, p)[k])
  <1> USE PageTreeAssumption
  <1> DEFINE c == Climb(Parents, p)
             S == {k \in Nat : c[k] \in Pages => In(w, c[k])}
  <1>0. Parents \in ParentMap /\ p \in Nodes
    BY ParentsMap DEF Nodes
  <1>1. c \in [Nat -> Nodes] /\ c[0] = p /\ \A k \in Nat : c[k + 1] = Parents[c[k]]
    BY <1>0, Climbing
  <1> HIDE DEF c
  <1>2. 0 \in S
    BY <1>1
  <1>3. ASSUME NEW k \in Nat, k \in S PROVE k + 1 \in S
    <2> SUFFICES ASSUME c[k + 1] \in Pages PROVE In(w, c[k + 1])
      OBVIOUS
    <2>1. c[k + 1] = Parents[c[k]] /\ c[k] \in Nodes
      BY <1>1
    <2>2. c[k] # NoParent
      BY <2>1 DEF Parents, Nodes
    <2>3. c[k] \in Pages /\ c[k + 1] = pages[c[k]].parent
      BY <2>1, <2>2 DEF Parents, Nodes
    <2>4. In(w, c[k])
      BY <1>3, <2>3
    <2> QED
      BY <2>3, <2>4 DEF ParentInWorkspace, ParentFound, In
  <1>4. \A k \in Nat : k \in S
    <2> HIDE DEF S
    <2> QED BY <1>2, <1>3, NatInduct
  <1> QED
    BY <1>4 DEF c

(* The rows that one round of the CTE ancestors adds.                      *)
RoundStep(w) == [A \in SUBSET Pages |-> {q \in Pages : In(w, q) /\ \E a \in A : pages[a].parent = q}]

Round(w, p) ==
  CHOOSE round : round = [k \in Nat |->
    IF k = 0 THEN {q \in {p} : In(w, q)}
    ELSE {q \in Pages : In(w, q) /\ \E a \in round[k - 1] : pages[a].parent = q}]

LEMMA Rounds ==
  ASSUME NEW w, NEW p \in Pages
  PROVE  Iterates(Round(w, p), {q \in {p} : In(w, q)}, RoundStep(w))
  <1> DEFINE v == {q \in {p} : In(w, q)}
             body(f) == [k \in Nat |->
               IF k = 0 THEN {q \in {p} : In(w, q)}
               ELSE {q \in Pages : In(w, q) /\ \E a \in f[k - 1] : pages[a].parent = q}]
  <1>1. v \in SUBSET Pages /\ RoundStep(w) \in [SUBSET Pages -> SUBSET Pages]
    BY DEF RoundStep
  <1>2. ASSUME NEW f \in [Nat -> SUBSET Pages]
        PROVE  f = body(f) <=> Iterates(f, v, RoundStep(w))
    <2>1. \A k \in Nat \ {0} :
            RoundStep(w)[f[k - 1]] = {q \in Pages : In(w, q) /\ \E a \in f[k - 1] : pages[a].parent = q}
      BY DEF RoundStep
    <2>2. body(f) = [k \in Nat |-> IF k = 0 THEN v ELSE RoundStep(w)[f[k - 1]]]
      BY <2>1
    <2> QED BY <2>2 DEF Iterates
  <1>3. \A f : f = body(f) => f \in [Nat -> SUBSET Pages]
    <2>1. \A f : body(f) \in [Nat -> SUBSET Pages]
      OBVIOUS
    <2> QED BY <2>1
  <1>4. \E f : f = body(f)
    <2>1. \E f \in [Nat -> SUBSET Pages] : Iterates(f, v, RoundStep(w))
      BY <1>1, IteratesExists
    <2> QED BY <1>2, <2>1
  <1>5. Round(w, p) = body(Round(w, p))
    BY <1>4, Zenon DEF Round
  <1> QED
    BY <1>2, <1>3, <1>5

(* Round k is the k-th page above.                                         *)
LEMMA RoundIsClimb ==
  ASSUME PageTypeOK, ParentInWorkspace, NEW w, NEW p \in Pages, In(w, p)
  PROVE  \A k \in Nat : Round(w, p)[k] = {q \in Pages : Climb(Parents, p)[k] = q}
  <1> USE PageTreeAssumption
  <1> DEFINE c == Climb(Parents, p)
             R == Round(w, p)
             S == {k \in Nat : R[k] = {q \in Pages : c[k] = q}}
  <1>0. /\ c \in [Nat -> Nodes] /\ c[0] = p /\ \A k \in Nat : c[k + 1] = Parents[c[k]]
        /\ \A k \in Nat : c[k] \in Pages => In(w, c[k])
    <2>1. Parents \in ParentMap /\ p \in Nodes
      BY ParentsMap DEF Nodes
    <2> QED BY <2>1, Climbing, ClimbInWorkspace
  <1>1. R \in [Nat -> SUBSET Pages] /\ R[0] = {p} /\ \A k \in Nat : R[k + 1] = RoundStep(w)[R[k]]
    <2>1. {q \in {p} : In(w, q)} = {p} /\ {p} \in SUBSET Pages /\ RoundStep(w) \in [SUBSET Pages -> SUBSET Pages]
      BY DEF RoundStep
    <2>2. Iterates(R, {p}, RoundStep(w))
      BY <2>1, Rounds
    <2>3. PICK V : V = SUBSET Pages
      OBVIOUS
    <2>4. {p} \in V /\ RoundStep(w) \in [V -> V]
      BY <2>1, <2>3
    <2> HIDE DEF R
    <2>5. R \in [Nat -> V] /\ R[0] = {p} /\ \A k \in Nat : R[k + 1] = RoundStep(w)[R[k]]
      BY <2>2, <2>4, IteratesChosen
    <2> QED BY <2>3, <2>5
  <1> HIDE DEF c, R
  <1>2. 0 \in S
    BY <1>0, <1>1
  <1>3. ASSUME NEW k \in Nat, k \in S PROVE k + 1 \in S
    <2>1. R[k + 1] = {q \in Pages : In(w, q) /\ \E a \in R[k] : pages[a].parent = q}
      BY <1>1 DEF RoundStep
    <2>2. c[k] \in Nodes /\ c[k + 1] = IF c[k] = NoParent THEN NoParent ELSE pages[c[k]].parent
      BY <1>0 DEF Parents
    <2>3. R[k] = {q \in Pages : c[k] = q}
      BY <1>3
    <2>4. ASSUME NEW q \in Pages PROVE q \in R[k + 1] <=> c[k + 1] = q
      <3>1. q \in R[k + 1] <=> In(w, q) /\ c[k] \in Pages /\ pages[c[k]].parent = q
        BY <2>1, <2>3
      <3>2. c[k + 1] = q => c[k] \in Pages /\ pages[c[k]].parent = q /\ In(w, q)
        BY <1>0, <2>2 DEF Nodes
      <3>3. c[k] \in Pages /\ pages[c[k]].parent = q => c[k + 1] = q
        BY <2>2
      <3> QED BY <3>1, <3>2, <3>3
    <2>5. R[k + 1] \subseteq Pages
      BY <2>1
    <2> QED BY <2>4, <2>5
  <1>4. \A k \in Nat : k \in S
    <2> HIDE DEF S
    <2> QED BY <1>2, <1>3, NatInduct
  <1> QED
    BY <1>4 DEF c, R

(* The rounds the CTE runs reach every page above.                         *)
LEMMA AncestorsAreAbove ==
  ASSUME PageTypeOK, ParentInWorkspace, NEW w, NEW p \in Pages, In(w, p)
  PROVE  \A q \in Pages : q \in Ancestors(w, p) <=> \E k \in Nat : Climb(Parents, p)[k] = q
  <1> USE PageTreeAssumption
  <1> SUFFICES ASSUME NEW q \in Pages
               PROVE  q \in Ancestors(w, p) <=> \E k \in Nat : Climb(Parents, p)[k] = q
    OBVIOUS
  <1>0. Parents \in ParentMap /\ p \in Nodes /\ Cardinality(Pages) \in Nat
    BY ParentsMap, FS_CardinalityType DEF Nodes
  <1>1. Ancestors(w, p) = {r \in Pages : \E k \in 0..Cardinality(Pages) : r \in Round(w, p)[k]}
    BY DEF Ancestors, Round
  <1>2. q \in Ancestors(w, p) <=> \E k \in 0..Cardinality(Pages) : Climb(Parents, p)[k] = q
    BY <1>0, <1>1, RoundIsClimb
  <1>3. ASSUME NEW n \in Nat, Climb(Parents, p)[n] = q
        PROVE  \E k \in 0..Cardinality(Pages) : Climb(Parents, p)[k] = q
    <2>1. PICK k \in Nat : Climb(Parents, p)[k] = q /\ k + 1 <= Cardinality(Pages)
      BY <1>0, <1>3, ClimbIsShort
    <2> QED BY <1>0, <2>1
  <1> QED
    BY <1>0, <1>2, <1>3

(* The rows that one round of the CTE subtree adds.                        *)
LevelStep(w) == [A \in SUBSET Pages |-> UNION {Children(w, q) : q \in A}]

Level(w, p) ==
  CHOOSE level : level = [k \in Nat |->
    IF k = 0 THEN {q \in {p} : In(w, q)}
    ELSE UNION {Children(w, q) : q \in level[k - 1]}]

LEMMA Levels ==
  ASSUME NEW w, NEW p \in Pages
  PROVE  Iterates(Level(w, p), {q \in {p} : In(w, q)}, LevelStep(w))
  <1> DEFINE v == {q \in {p} : In(w, q)}
             body(f) == [k \in Nat |->
               IF k = 0 THEN {q \in {p} : In(w, q)} ELSE UNION {Children(w, q) : q \in f[k - 1]}]
  <1>0. \A q : Children(w, q) \in SUBSET Pages
    BY DEF Children
  <1>1. v \in SUBSET Pages /\ LevelStep(w) \in [SUBSET Pages -> SUBSET Pages]
    BY <1>0 DEF LevelStep
  <1>2. ASSUME NEW f \in [Nat -> SUBSET Pages]
        PROVE  f = body(f) <=> Iterates(f, v, LevelStep(w))
    <2>1. \A k \in Nat \ {0} : LevelStep(w)[f[k - 1]] = UNION {Children(w, q) : q \in f[k - 1]}
      BY DEF LevelStep
    <2>2. body(f) = [k \in Nat |-> IF k = 0 THEN v ELSE LevelStep(w)[f[k - 1]]]
      BY <2>1
    <2> QED BY <2>2 DEF Iterates
  <1>3. \A f : f = body(f) => f \in [Nat -> SUBSET Pages]
    <2>1. \A f : body(f) \in [Nat -> SUBSET Pages]
      BY <1>0
    <2> QED BY <2>1
  <1>4. \E f : f = body(f)
    <2>1. \E f \in [Nat -> SUBSET Pages] : Iterates(f, v, LevelStep(w))
      BY <1>1, IteratesExists
    <2> QED BY <1>2, <2>1
  <1>5. Level(w, p) = body(Level(w, p))
    BY <1>4, Zenon DEF Level
  <1> QED
    BY <1>2, <1>3, <1>5

(* Level k holds the pages from which k steps up lead to the page.         *)
LEMMA LevelIsClimb ==
  ASSUME PageTypeOK, ParentInWorkspace, NEW w, NEW p \in Pages, In(w, p)
  PROVE  \A k \in Nat : Level(w, p)[k] = {q \in Pages : In(w, q) /\ Climb(Parents, q)[k] = p}
  <1> USE PageTreeAssumption
  <1> DEFINE L == Level(w, p)
             S == {k \in Nat : L[k] = {q \in Pages : In(w, q) /\ Climb(Parents, q)[k] = p}}
  <1>0. /\ Parents \in ParentMap /\ Pages \subseteq Nodes
        /\ \A q \in Pages : Parents[q] = pages[q].parent /\ Parents[q] \in Nodes
        /\ \A q \in Pages : In(w, q) /\ Parents[q] \in Pages => In(w, Parents[q])
    <2>1. Parents \in ParentMap /\ Pages \subseteq Nodes
      BY ParentsMap DEF Nodes
    <2>2. \A q \in Pages : Parents[q] = pages[q].parent /\ Parents[q] \in Nodes
      BY <2>1 DEF Parents, ParentMap, Nodes
    <2> QED BY <2>1, <2>2 DEF ParentInWorkspace, ParentFound, In
  <1>1. L \in [Nat -> SUBSET Pages] /\ L[0] = {p} /\ \A k \in Nat : L[k + 1] = LevelStep(w)[L[k]]
    <2>1. {q \in {p} : In(w, q)} = {p} /\ {p} \in SUBSET Pages /\ LevelStep(w) \in [SUBSET Pages -> SUBSET Pages]
      BY DEF LevelStep, Children
    <2>2. Iterates(L, {p}, LevelStep(w))
      BY <2>1, Levels
    <2>3. PICK V : V = SUBSET Pages
      OBVIOUS
    <2>4. {p} \in V /\ LevelStep(w) \in [V -> V]
      BY <2>1, <2>3
    <2> HIDE DEF L
    <2>5. L \in [Nat -> V] /\ L[0] = {p} /\ \A k \in Nat : L[k + 1] = LevelStep(w)[L[k]]
      BY <2>2, <2>4, IteratesChosen
    <2> QED BY <2>3, <2>5
  <1> HIDE DEF L
  <1>2. 0 \in S
    <2>1. \A q \in Pages : Climb(Parents, q)[0] = q
      BY <1>0, Climbing
    <2> QED BY <1>1, <2>1
  <1>3. ASSUME NEW k \in Nat, k \in S PROVE k + 1 \in S
    <2>1. L[k + 1] = UNION {Children(w, q) : q \in L[k]}
      BY <1>1 DEF LevelStep
    <2>2. L[k] = {q \in Pages : In(w, q) /\ Climb(Parents, q)[k] = p}
      BY <1>3
    <2>3. ASSUME NEW q \in Pages PROVE q \in L[k + 1] <=> In(w, q) /\ Climb(Parents, q)[k + 1] = p
      <3>1. q \in L[k + 1] <=> In(w, q) /\ pages[q].parent \in L[k]
        BY <2>1, <2>2 DEF Children
      <3>2. Climb(Parents, q)[k + 1] = Climb(Parents, Parents[q])[k]
        BY <1>0, ClimbFromParent
      <3>3. In(w, q) /\ Climb(Parents, Parents[q])[k] = p => Parents[q] \in Pages /\ In(w, Parents[q])
        <4> SUFFICES ASSUME In(w, q), Climb(Parents, Parents[q])[k] = p, Parents[q] \notin Pages PROVE FALSE
          BY <1>0
        <4>1. Parents[q] = NoParent /\ NoParent \in Nodes
          BY <1>0 DEF Nodes
        <4>2. Climb(Parents, NoParent)[0] = NoParent
          BY <1>0, <4>1, Climbing
        <4>3. Climb(Parents, NoParent)[k] = NoParent
          BY <1>0, <4>1, <4>2, ClimbStays
        <4> QED BY <4>1, <4>3
      <3>4. pages[q].parent \in L[k] <=> Parents[q] \in Pages /\ In(w, Parents[q]) /\ Climb(Parents, Parents[q])[k] = p
        BY <1>0, <2>2
      <3> QED BY <3>1, <3>2, <3>3, <3>4
    <2>4. L[k + 1] \subseteq Pages
      BY <1>1
    <2> QED BY <2>3, <2>4
  <1>4. \A k \in Nat : k \in S
    <2> HIDE DEF S
    <2> QED BY <1>2, <1>3, NatInduct
  <1> QED
    BY <1>4 DEF L

-----------------------------------------------------------------------------
(* The chain that CycleIn follows, once the page is moved.                 *)
Up(parentOf, p) ==
  CHOOSE up : up = [k \in Nat |-> IF k = 0 THEN p ELSE IF up[k - 1] = NoParent THEN NoParent ELSE parentOf[up[k - 1]]]

MovedParents(p, parent) == [Parents EXCEPT ![p] = parent]

LEMMA UpIsClimb ==
  ASSUME PageTypeOK, NEW p \in Pages, NEW parent \in Pages
  PROVE  /\ MovedParents(p, parent) \in ParentMap
         /\ \A k \in Nat : Up(MovedTo(p, parent), p)[k] = Climb(MovedParents(p, parent), p)[k]
  <1> USE PageTreeAssumption
  <1> DEFINE par == MovedParents(p, parent)
             parentOf == MovedTo(p, parent)
             body(f) == [k \in Nat |->
               IF k = 0 THEN p ELSE IF f[k - 1] = NoParent THEN NoParent ELSE parentOf[f[k - 1]]]
  <1>0. Parents \in [Nodes -> Nodes] /\ Parents[NoParent] = NoParent /\ p \in Nodes /\ parent \in Nodes
    BY ParentsMap DEF ParentMap, Nodes
  <1>1. par \in [Nodes -> Nodes] /\ par[NoParent] = NoParent
    BY <1>0 DEF MovedParents
  <1>2. \A q \in Nodes : par[q] = IF q = NoParent THEN NoParent ELSE parentOf[q]
    BY <1>0 DEF MovedParents, MovedTo, Parents, Nodes
  <1> HIDE DEF par, parentOf
  <1>3. ASSUME NEW f \in [Nat -> Nodes] PROVE f = body(f) <=> Iterates(f, p, par)
    <2>1. \A k \in Nat \ {0} : par[f[k - 1]] = IF f[k - 1] = NoParent THEN NoParent ELSE parentOf[f[k - 1]]
      BY <1>2
    <2>2. body(f) = [k \in Nat |-> IF k = 0 THEN p ELSE par[f[k - 1]]]
      BY <2>1
    <2> QED BY <2>2 DEF Iterates
  <1>4. PICK g \in [Nat -> Nodes] : Iterates(g, p, par)
    BY <1>0, <1>1, IteratesExists
  <1>5. \E f : f = body(f)
    BY <1>3, <1>4
  <1>6. Up(parentOf, p) = body(Up(parentOf, p))
    BY <1>5, Zenon DEF Up
  <1> DEFINE u == Up(parentOf, p)
             S == {k \in Nat : u[k] = g[k]}
  <1>7. g[0] = p /\ \A k \in Nat : g[k + 1] = par[g[k]]
    BY <1>0, <1>1, <1>4, IteratesChosen
  <1>8. /\ u[0] = p
        /\ \A k \in Nat : u[k + 1] = IF u[k] = NoParent THEN NoParent ELSE parentOf[u[k]]
    <2>1. u = [k \in Nat |-> IF k = 0 THEN p ELSE IF u[k - 1] = NoParent THEN NoParent ELSE parentOf[u[k - 1]]]
      BY <1>6
    <2> HIDE DEF u
    <2>2. \A k \in Nat : k + 1 \in Nat /\ k + 1 # 0 /\ (k + 1) - 1 = k
      OBVIOUS
    <2> QED BY <2>1, <2>2
  <1> HIDE DEF u
  <1>9. \A k \in Nat : u[k] = g[k]
    <2>1. 0 \in S
      BY <1>7, <1>8
    <2>2. ASSUME NEW k \in Nat, k \in S PROVE k + 1 \in S
      <3>1. u[k + 1] = par[g[k]]
        BY <1>2, <1>4, <1>8, <2>2
      <3> QED BY <1>7, <3>1
    <2>3. \A k \in Nat : k \in S
      <3> HIDE DEF S
      <3> QED BY <2>1, <2>2, NatInduct
    <2> QED BY <2>3
  <1>10. g = Climb(par, p)
    <2>1. Iterates(Climb(par, p), p, par)
      BY <1>4, Zenon DEF Climb
    <2> QED BY <1>0, <1>1, <1>4, <2>1, IteratesUnique
  <1> QED
    BY <1>1, <1>9, <1>10 DEF ParentMap, u, par, parentOf

LEMMA CycleIsClimb ==
  ASSUME PageTypeOK, NEW p \in Pages, NEW parent \in Pages
  PROVE  CycleIn(MovedTo(p, parent), p) <=>
           \E k \in 1..Cardinality(Pages) : Climb(MovedParents(p, parent), p)[k] = p
  <1>1. Cardinality(Pages) \in Nat
    BY PageTreeAssumption, FS_CardinalityType
  <1>2. CycleIn(MovedTo(p, parent), p) <=> \E k \in 1..Cardinality(Pages) : Up(MovedTo(p, parent), p)[k] = p
    BY DEF CycleIn, Up
  <1> QED
    BY <1>1, <1>2, UpIsClimb

(* After the move, the chain of the page is the page and then the chain of *)
(* the new parent, as long as that does not meet the page.                 *)
LEMMA MovedChain ==
  ASSUME PageTypeOK, NEW p \in Pages, NEW parent \in Pages, NEW n \in Nat,
         \/ \A i \in Nat : i < n => Climb(Parents, parent)[i] # p
         \/ \A i \in Nat : i < n => Climb(MovedParents(p, parent), p)[i + 1] # p
  PROVE  Climb(MovedParents(p, parent), p)[n + 1] = Climb(Parents, parent)[n]
  <1> USE PageTreeAssumption
  <1> DEFINE par == MovedParents(p, parent)
             c == Climb(Parents, parent)
             d == Climb(par, p)
             S == {k \in Nat : k <= n => d[k + 1] = c[k]}
  <1>0. Parents \in ParentMap /\ par \in ParentMap /\ p \in Nodes /\ parent \in Nodes
    BY ParentsMap, UpIsClimb DEF Nodes
  <1>1. par[p] = parent /\ \A q \in Nodes : q # p => par[q] = Parents[q]
    BY <1>0 DEF MovedParents, ParentMap
  <1> HIDE DEF par
  <1>2. c \in [Nat -> Nodes] /\ c[0] = parent /\ \A k \in Nat : c[k + 1] = Parents[c[k]]
    BY <1>0, Climbing
  <1>3. d \in [Nat -> Nodes] /\ d[0] = p /\ \A k \in Nat : d[k + 1] = par[d[k]]
    BY <1>0, Climbing
  <1>4. \/ \A i \in Nat : i < n => c[i] # p
        \/ \A i \in Nat : i < n => d[i + 1] # p
    BY DEF par
  <1> HIDE DEF c, d
  <1>5. 0 \in S
    <2>1. d[0 + 1] = par[d[0]]
      <3>1. 0 \in Nat
        OBVIOUS
      <3> QED BY <1>3, <3>1, Zenon
    <2> QED BY <1>1, <1>2, <1>3, <2>1
  <1>6. ASSUME NEW k \in Nat, k \in S PROVE k + 1 \in S
    <2> SUFFICES ASSUME k + 1 <= n PROVE d[(k + 1) + 1] = c[k + 1]
      OBVIOUS
    <2>1. k < n /\ k + 1 \in Nat
      OBVIOUS
    <2>2. d[k + 1] = c[k]
      BY <1>6, <2>1
    <2>3. c[k] # p
      BY <1>4, <2>1, <2>2
    <2>4. d[(k + 1) + 1] = par[d[k + 1]] /\ c[k] \in Nodes
      BY <1>2, <1>3, <2>1
    <2> QED BY <1>1, <1>2, <2>2, <2>3, <2>4
  <1>7. \A k \in Nat : k \in S
    <2> HIDE DEF S
    <2> QED BY <1>5, <1>6, NatInduct
  <1> QED
    BY <1>7 DEF c, d, par

LEMMA AssertNoCycleExact == PageTypeOK /\ ParentInWorkspace => AssertNoCycleIsExact
  <1> USE PageTreeAssumption
  <1> SUFFICES ASSUME PageTypeOK, ParentInWorkspace, NEW p \in Pages, NEW parent \in Pages,
                      ParentFound(pages[p].workspace, parent)
               PROVE  AssertNoCycle(pages[p].workspace, p, parent) <=> ~CycleIn(MovedTo(p, parent), p)
    BY DEF AssertNoCycleIsExact
  <1> DEFINE w == pages[p].workspace
             c == Climb(Parents, parent)
             d == Climb(MovedParents(p, parent), p)
             N == Cardinality(Pages)
  <1>0. /\ Parents \in ParentMap /\ MovedParents(p, parent) \in ParentMap /\ p \in Nodes /\ parent \in Nodes
        /\ N \in Nat /\ In(w, parent)
    BY ParentsMap, UpIsClimb, FS_CardinalityType DEF Nodes, ParentFound, In
  <1>1. c[0] = parent /\ c \in [Nat -> Nodes] /\ d \in [Nat -> Nodes]
    BY <1>0, Climbing
  <1>2. AssertNoCycle(w, p, parent) <=> ~ \E k \in Nat : c[k] = p
    <2>1. p \in Ancestors(w, parent) <=> \E k \in Nat : c[k] = p
      BY <1>0, AncestorsAreAbove
    <2> HIDE DEF c
    <2> QED BY <1>1, <2>1 DEF AssertNoCycle
  <1>3. ASSUME NEW n \in Nat, c[n] = p PROVE \E k \in 1..N : d[k] = p
    <2>1. PICK k \in Nat : c[k] = p /\ k + 1 <= N /\ \A i \in Nat : i < k => c[i] # p
      BY <1>0, <1>3, ClimbIsShort
    <2>2. d[k + 1] = c[k]
      BY <2>1, MovedChain
    <2>3. k + 1 \in 1..N
      BY <1>0, <2>1
    <2> QED BY <2>1, <2>2, <2>3
  <1>4. ASSUME NEW n \in 1..N, d[n] = p PROVE \E k \in Nat : c[k] = p
    <2> DEFINE S == {k \in Nat : d[k + 1] = p}
    <2>1. n - 1 \in S /\ S \in SUBSET Nat
      <3>1. n - 1 \in Nat /\ (n - 1) + 1 = n
        BY <1>0
      <3> QED BY <1>4, <3>1
    <2>2. PICK k \in S : \A i \in S : k <= i
      <3> HIDE DEF S
      <3> QED BY <2>1, Least
    <2>3. d[k + 1] = p /\ \A i \in Nat : i < k => d[i + 1] # p
      BY <2>2
    <2>4. d[k + 1] = c[k]
      BY <2>3, MovedChain
    <2> QED BY <2>3, <2>4
  <1>5. CycleIn(MovedTo(p, parent), p) <=> \E k \in 1..N : d[k] = p
    BY CycleIsClimb
  <1> HIDE DEF c, d, N, w
  <1>6. CycleIn(MovedTo(p, parent), p) <=> \E k \in Nat : c[k] = p
    BY <1>0, <1>3, <1>4, <1>5
  <1> QED
    BY <1>2, <1>6 DEF w

-----------------------------------------------------------------------------
(* The pages strictly above a page, and the rows of the CTE subtree.       *)
LEMMA StrictlyAbove ==
  ASSUME PageTypeOK, ParentInWorkspace, NEW q \in Pages, pages[q].exists, NEW p \in Pages
  PROVE  /\ p \in StrictAncestors(q) <=> \E k \in Nat : Climb(Parents, q)[k + 1] = p
         /\ p \in StrictAncestors(q) => In(pages[q].workspace, p)
  <1> USE PageTreeAssumption
  <1> DEFINE w == pages[q].workspace
             r == Parents[q]
  <1>0. /\ Parents \in ParentMap /\ q \in Nodes /\ r = pages[q].parent /\ r \in Nodes
        /\ \A k \in Nat : Climb(Parents, q)[k + 1] = Climb(Parents, r)[k]
    <2>1. Parents \in ParentMap /\ q \in Nodes
      BY ParentsMap DEF Nodes
    <2>2. r = pages[q].parent /\ r \in Nodes
      BY <2>1 DEF Parents, ParentMap, Nodes
    <2> QED BY <2>1, <2>2, ClimbFromParent
  <1> HIDE DEF r
  <1>1. CASE r = NoParent
    <2>1. Climb(Parents, r)[0] = NoParent
      BY <1>0, <1>1, Climbing
    <2>2. \A k \in Nat : Climb(Parents, r)[k] = NoParent
      BY <1>0, <2>1, ClimbStays
    <2> QED
      BY <1>0, <1>1, <2>2 DEF StrictAncestors
  <1>2. CASE r # NoParent
    <2>1. r \in Pages /\ In(w, r)
      BY <1>0, <1>2 DEF ParentInWorkspace, ParentFound, In, Nodes
    <2>2. StrictAncestors(q) = Ancestors(w, r)
      BY <1>0, <1>2 DEF StrictAncestors
    <2>3. p \in Ancestors(w, r) <=> \E k \in Nat : Climb(Parents, r)[k] = p
      BY <2>1, AncestorsAreAbove
    <2>4. p \in Ancestors(w, r) => In(w, p)
      BY <2>1, <2>3, ClimbInWorkspace
    <2> QED
      BY <1>0, <2>2, <2>3, <2>4
  <1> QED
    BY <1>1, <1>2

(* Without a cycle there is one way up, so a row per page.                 *)
LEMMA OneWayUp ==
  ASSUME PageTypeOK, ParentInWorkspace, Acyclic, NEW p \in Pages, pages[p].exists,
         NEW q \in Pages, NEW i \in Nat, NEW j \in Nat,
         Climb(Parents, q)[i] = p, Climb(Parents, q)[j] = p
  PROVE  i = j
  <1> USE PageTreeAssumption
  <1>0. Parents \in ParentMap /\ Pages \subseteq Nodes
    BY ParentsMap DEF Nodes
  <1>1. ASSUME NEW a \in Nat, NEW b \in Nat, a < b, Climb(Parents, q)[a] = p, Climb(Parents, q)[b] = p
        PROVE  FALSE
    <2>1. PICK k \in Nat : b = a + (k + 1)
      <3>1. (b - a) - 1 \in Nat /\ b = a + (((b - a) - 1) + 1)
        BY <1>1
      <3> QED BY <3>1
    <2>2. Climb(Parents, q)[a + (k + 1)] = Climb(Parents, p)[k + 1]
      <3>1. \A d \in Nat : Climb(Parents, q)[a + d] = Climb(Parents, Climb(Parents, q)[a])[d]
        BY <1>0, ClimbAdds
      <3>2. k + 1 \in Nat
        OBVIOUS
      <3> QED BY <1>1, <3>1, <3>2, Zenon
    <2>3. p \in StrictAncestors(p)
      BY <1>1, <2>1, <2>2, StrictlyAbove
    <2> QED BY <2>3 DEF Acyclic
  <1> QED
    BY <1>1

LEMMA SubtreeRows ==
  ASSUME PageTypeOK, ParentInWorkspace, NEW w, NEW p \in Pages, In(w, p)
  PROVE  /\ \A s \in Subtree(w, p) : \E k \in Nat :
              /\ s.page \in Pages /\ In(w, s.page) /\ Climb(Parents, s.page)[k] = p
              /\ s = [page |-> s.page, depth |-> pages[p].depth + k]
         /\ \A q \in Pages, n \in Nat : In(w, q) /\ Climb(Parents, q)[n] = p =>
              \E s \in Subtree(w, p) : s.page = q
  <1> USE PageTreeAssumption
  <1> DEFINE N == Cardinality(Pages)
             Row(q, k) == [page |-> q, depth |-> pages[p].depth + k]
  <1>0. Parents \in ParentMap /\ Pages \subseteq Nodes /\ N \in Nat
    BY ParentsMap, FS_CardinalityType DEF Nodes
  <1>1. Subtree(w, p) = UNION {{Row(q, k) : q \in Level(w, p)[k]} : k \in 0..N}
    BY DEF Subtree, Level
  <1>2. \A k \in 0..N : Level(w, p)[k] = {q \in Pages : In(w, q) /\ Climb(Parents, q)[k] = p}
    BY <1>0, LevelIsClimb
  <1>3. ASSUME NEW s \in Subtree(w, p)
        PROVE  \E k \in Nat : /\ s.page \in Pages /\ In(w, s.page) /\ Climb(Parents, s.page)[k] = p
                              /\ s = [page |-> s.page, depth |-> pages[p].depth + k]
    <2>1. PICK k \in 0..N : s \in {Row(q, k) : q \in Level(w, p)[k]}
      BY <1>1
    <2>2. PICK q \in Level(w, p)[k] : s = Row(q, k)
      BY <2>1
    <2>3. q \in Pages /\ In(w, q) /\ Climb(Parents, q)[k] = p
      BY <1>2, <2>2
    <2> QED BY <1>0, <2>2, <2>3
  <1>4. ASSUME NEW q \in Pages, NEW n \in Nat, In(w, q), Climb(Parents, q)[n] = p
        PROVE  \E s \in Subtree(w, p) : s.page = q
    <2>1. PICK k \in Nat : Climb(Parents, q)[k] = p /\ k + 1 <= N
      BY <1>0, <1>4, ClimbIsShort
    <2>2. k \in 0..N
      BY <1>0, <2>1
    <2>3. q \in Level(w, p)[k]
      BY <1>2, <1>4, <2>1, <2>2
    <2>4. Row(q, k) \in Subtree(w, p)
      BY <1>1, <2>2, <2>3
    <2> QED BY <2>4
  <1> QED
    BY <1>3, <1>4

(* The depth a page below gets: one for each step down from the page.      *)
LEMMA RecomputedDepth ==
  ASSUME PageTypeOK, ParentInWorkspace, Acyclic, NEW p \in Pages, pages[p].exists,
         NEW q \in Pages, NEW k \in Nat,
         In(pages[p].workspace, q), Climb(Parents, q)[k] = p
  PROVE  RecomputeSubtreeDepth(pages[p].workspace, p)[q] = [pages[q] EXCEPT !.depth = pages[p].depth + k]
  <1> DEFINE w == pages[p].workspace
             s == CHOOSE row \in Subtree(w, p) : row.page = q
  <1>0. In(w, p)
    BY DEF In
  <1>1. \E row \in Subtree(w, p) : row.page = q
    BY <1>0, SubtreeRows
  <1>2. s \in Subtree(w, p) /\ s.page = q
    BY <1>1
  <1>3. RecomputeSubtreeDepth(w, p)[q] = [pages[q] EXCEPT !.depth = s.depth]
    BY <1>1 DEF RecomputeSubtreeDepth
  <1> HIDE DEF s
  <1>4. PICK n \in Nat : Climb(Parents, q)[n] = p /\ s = [page |-> q, depth |-> pages[p].depth + n]
    BY <1>0, <1>2, SubtreeRows
  <1>5. n = k
    BY <1>4, OneWayUp
  <1> QED
    BY <1>3, <1>4, <1>5

LEMMA RecomputeExact == PageTypeOK /\ ParentInWorkspace => RecomputeRepairs
  <1> USE PageTreeAssumption
  <1> SUFFICES ASSUME PageTypeOK, ParentInWorkspace, Acyclic, NEW p \in Pages, pages[p].exists
               PROVE  LET w     == pages[p].workspace
                          after == RecomputeSubtreeDepth(w, p)
                          below == {q \in Pages : pages[q].exists /\ p \in StrictAncestors(q)}
                      IN  /\ \A q \in below : after[q].depth = after[pages[q].parent].depth + 1
                          /\ \A q \in Pages \ below : after[q] = pages[q]
    BY DEF RecomputeRepairs
  <1> DEFINE w     == pages[p].workspace
             after == RecomputeSubtreeDepth(w, p)
             below == {q \in Pages : pages[q].exists /\ p \in StrictAncestors(q)}
  <1>0. /\ Parents \in ParentMap /\ Pages \subseteq Nodes /\ In(w, p) /\ pages[p].depth \in Nat
        /\ \A q \in Pages : pages[q] \in PageRow
    BY ParentsMap DEF Nodes, In, PageTypeOK, PageRow, Depths
  <1>1. \A q \in Pages, d \in Nat : [pages[q] EXCEPT !.depth = d].depth = d
    BY <1>0 DEF PageRow
  <1>2. ASSUME NEW q \in below PROVE after[q].depth = after[pages[q].parent].depth + 1
    <2> DEFINE r == pages[q].parent
    <2>1. PICK k \in Nat : Climb(Parents, q)[k + 1] = p
      BY StrictlyAbove
    <2>2. In(w, q)
      BY <1>0, StrictlyAbove DEF In
    <2>3. Parents[q] = r /\ r \in Nodes
      BY <1>0 DEF Parents, ParentMap
    <2>4. Climb(Parents, r)[k] = p
      BY <1>0, <2>1, <2>3, ClimbFromParent
    <2>5. r \in Pages
      <3> SUFFICES ASSUME r = NoParent PROVE FALSE
        BY <2>3 DEF Nodes
      <3>1. Climb(Parents, NoParent)[0] = NoParent /\ NoParent \in Nodes
        BY <1>0, Climbing DEF Nodes
      <3>2. Climb(Parents, NoParent)[k] = NoParent
        BY <1>0, <3>1, ClimbStays
      <3> QED BY <2>4, <3>2
    <2>6. In(w, r)
      BY <2>2, <2>5 DEF ParentInWorkspace, ParentFound, In
    <2>7. after[q] = [pages[q] EXCEPT !.depth = pages[p].depth + (k + 1)]
      BY <2>1, <2>2, RecomputedDepth
    <2>8. after[r] = [pages[r] EXCEPT !.depth = pages[p].depth + k]
      BY <2>4, <2>5, <2>6, RecomputedDepth
    <2>9. after[q].depth = pages[p].depth + (k + 1)
      BY <1>0, <1>1, <2>7
    <2>10. after[r].depth = pages[p].depth + k
      BY <1>0, <1>1, <2>5, <2>8
    <2> HIDE DEF after, r
    <2>11. after[q].depth = after[r].depth + 1
      BY <1>0, <2>9, <2>10
    <2> QED BY <2>11 DEF r
  <1>3. ASSUME NEW q \in Pages \ below PROVE after[q] = pages[q]
    <2>1. CASE \E s \in Subtree(w, p) : s.page = q
      <3>1. PICK k \in Nat : In(w, q) /\ Climb(Parents, q)[k] = p
        BY <1>0, <2>1, SubtreeRows
      <3>2. k = 0
        <4> SUFFICES ASSUME k # 0 PROVE FALSE
          OBVIOUS
        <4>1. k - 1 \in Nat /\ (k - 1) + 1 = k
          OBVIOUS
        <4>2. \E n \in Nat : Climb(Parents, q)[n + 1] = p
          BY <3>1, <4>1
        <4> QED BY <3>1, <4>2, StrictlyAbove DEF In
      <3>3. q = p
        BY <1>0, <3>1, <3>2, Climbing
      <3>4. after[p] = [pages[p] EXCEPT !.depth = pages[p].depth + 0]
        BY <1>0, <3>1, <3>2, <3>3, RecomputedDepth
      <3>5. pages[p].depth + 0 = pages[p].depth
        BY <1>0
      <3> HIDE DEF after
      <3>6. after[p] = pages[p]
        BY <1>0, <3>4, <3>5 DEF PageRow
      <3> QED BY <3>3, <3>6
    <2>2. CASE ~ \E s \in Subtree(w, p) : s.page = q
      BY <2>2 DEF RecomputeSubtreeDepth
    <2> QED BY <2>1, <2>2
  <1> QED
    BY <1>2, <1>3

(* The two recursive queries of tree.ts are exact on every tree without a  *)
(* cycle that the moves leave: assertNoCycle refuses the moves that make a *)
(* cycle and no other, and recomputeSubtreeDepth repairs the depths below  *)
(* the page and nothing else.                                              *)
THEOREM QueriesAreExact == PageSpec => []TreeQueriesExact
  <1> TreeInv => TreeQueriesExact
    BY AssertNoCycleExact, RecomputeExact DEF TreeInv, TreeQueriesExact
  <1> QED
    BY AlwaysTree, PTL
=============================================================================
