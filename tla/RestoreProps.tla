------------------------------ MODULE RestoreProps ------------------------------
(* What Restore promises. *)
EXTENDS Restore

Tried == tries' = tries + 1

\* A new file where the target has a folder is compared by nobody, and libgit2's forced
\* checkout removes it: left out here.
InFolderPlace(p) == p \notin ChangedPaths /\ WantedBelow(p)

\* What a try replaces or deletes is what one of the snapshots has there, as the program made
\* it or as git would check it out.
IsKnown(p) ==
  \/ p \notin touched \/ InFolderPlace(p)
  \/ present.disk[p] \in {"none", From.tree[p], To.tree[p]}
  \/ Clean(p, present.disk[p]) \in {From.tree[p], To.tree[p]}

NothingUnseenIsLost ==
  /\ \A p \in Files : present'.disk[p] # present.disk[p] => IsKnown(p)
  /\ present' # present => underway # "operation"
  /\ present'.idx # present.idx => underway # "conflicts" /\ present.idx \in {From.idx, To.idx}
  /\ \A r \in DOMAIN present.refs :
       present'.refs[r] # present.refs[r] => r \notin elsewhere /\ present.refs[r] = From.refs[r]
  /\ present'.at # present.at => present.at = From.at /\ present'.at \notin elsewhere

\* An ignored file in the place of which the operation itself put a tracked one: no snapshot
\* has it, and Undo takes the tracked one away.
TakenOver(w, p) ==
  /\ w.disk[p] # "none" /\ Recorded(w, p) = "none"
  /\ \E side \in {"before", "after"} : entry[side].world.idx[p] # "none"

SameFiles(w) ==
  \A p \in Files : Clean(p, present'.disk[p]) = Clean(p, w.disk[p]) \/ TakenOver(w, p)

\* The index, the refs and HEAD are as they were when the snapshot was taken.
IndexAndRefsAreBack ==
  LET w == entry[onto].world
  IN  present'.idx = w.idx /\ present'.refs = w.refs /\ present'.at = w.at

\* A file that a filter smudges, left as it was by a checkout that stopped once the index was
\* written: as nothing in the new index reads like it, it counts as changed since.
LeftSmudged ==
  \E p \in ChangedPaths :
    /\ present.disk[p] # From.tree[p] /\ Clean(p, present.disk[p]) = From.tree[p]
    /\ present.idx = To.idx /\ To.idx[p] # From.tree[p]

\* Refused, nothing is written; done, and nothing touched, the index, the refs and HEAD are back.
WritesOnlyItsOwn ==
  Tried =>
    /\ NothingUnseenIsLost
    /\ tried' = "refused" => present' = present
    /\ tried' = "done" /\ touched = {} => IndexAndRefsAreBack

(* Undo and Redo overwrite nothing the user changed since, conflicts in the index among it,  *)
(* nor move a branch another worktree is on, nor write during an operation of git; refused,  *)
(* they write nothing; done, and nothing touched, everything is as it was when the snapshot  *)
(* was taken; and one that stopped before the refs can be tried again (restore,              *)
(* WorktreeChange::verify, apply, checkout_from_index).                                      *)
RestoreKeepsItsWord ==
  [][/\ WritesOnlyItsOwn
     /\ Tried =>
          /\ tried' = "done" /\ touched = {} => SameFiles(entry[onto].world)
          /\ tried' = "stopped" /\ touched = {} => ~Refused' \/ LeftSmudged']_restoreVars
=============================================================================
