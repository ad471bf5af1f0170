--------------------------- MODULE GuardedTreeProps ---------------------------
(* What GuardedTree promises, whatever other programs do to the path meanwhile. *)
EXTENDS GuardedTree

Ours == meddling' = meddling
HeldFromRoot == held[1] = Root /\ \A i \in 1..Len(held) : held[i] # Outside

(* Nothing beyond a link is ever opened, read, created, replaced or removed: what an         *)
(* operation holds was reached from the root by folders alone, and `..` in a gitdir: file    *)
(* never leads above the root (worktree_guard's first rule, walk_from, HeldFolder::resolve). *)
StaysBeneath ==
  [][Ours => /\ tree'[Outside] = tree[Outside]
             /\ HeldFromRoot'
             /\ got' # File("elsewhere")]_guardVars

Permitted(d, n, before, after) ==
  \/ n = Temp
  \/ before = Nothing /\ Is(after, "folder") /\ op \in Writers        \* a missing folder
  \/ /\ after = Nothing /\ before = Link
     /\ op \in {"replace", "clear"} \/ (d = Parent /\ n = Leaf)       \* a link in the way
  \/ /\ after = Nothing /\ Is(before, "folder") /\ tree[before[2]] = Bare
     /\ op \in {"replace", "prune"}                                   \* an empty folder
  \/ /\ d = Parent /\ n = Leaf
     /\ \/ op \in Writers /\ after = File("new") /\ ~Is(before, "folder")
        \/ op \in {"remove", "prune"} /\ after = Nothing
     /\ ~(op = "write" /\ before = File("frozen"))

\* An operation changes its leaf in its own way only, besides links and empty folders in
\* its way and the folders it makes.  Unix acts on a name after it has looked at it, so
\* there what another program put under that very name in between is the exception; on
\* Windows there is none.
TakesNothingElse ==
  [][Ours => \A d \in Folders, n \in PathNames :
       \/ tree'[d][n] = tree[d][n]
       \/ Permitted(d, n, tree[d][n], tree'[d][n])
       \/ Unix /\ swapped /\ d = Parent /\ n = Here /\ ~Is(tree[d][n], "folder")]_guardVars

\* A file that is replaced is the old one or all of the new one at every moment, also when
\* the write fails or the process dies, and no temporary file stays unless it was killed or
\* could not remove it.
ReplacedWhole ==
  /\ [](place = "done" /\ outcome \notin {"killed", "untidy"} =>
           \A d \in Folders : tree[d][Temp] = Nothing)
  /\ [][Ours /\ op \in Writers /\ Walked /\ Is(tree[Parent][Leaf], "file") =>
           tree'[Parent][Leaf] \in {tree[Parent][Leaf], File("new")}]_guardVars

(* An operation leaves the rest alone: no folder with something in it goes, a write spares a *)
(* read-only file, clearing a hazard takes links only, and a file that is replaced is the    *)
(* old one or all of the new one at every moment (write_with, replace_with, swap_in,         *)
(* delete_by_handle, reopen_same).                                                           *)
LeavesTheRest == TakesNothingElse /\ ReplacedWhole
=============================================================================
