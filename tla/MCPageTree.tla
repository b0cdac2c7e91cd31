----------------------------- MODULE MCPageTree -----------------------------
EXTENDS PageTree, TLC

(* Pages, workspaces and connections are interchangeable.                  *)
Sym == Permutations(Pages) \cup Permutations(PageWorkspaces) \cup Permutations(Moves)
=============================================================================
