-------------------------------- MODULE WorkTree --------------------------------
(***************************************************************************)
(* What Browsitory itself does below the root of a work tree: its reads and  *)
(* writes, and the links that libgit2's checkouts must not follow; and the   *)
(* work trees of one repository beside each other.  The parts share no state *)
(* within one operation, so a behaviour follows one of them (`focus`) and    *)
(* leaves the others at rest.                                                *)
(***************************************************************************)
EXTENDS GuardedTreeProps, Checkouts, Worktrees

VARIABLE focus

workVars == <<guardVars, coVars, treeVars, focus>>

Some(S) == CHOOSE x \in S : TRUE

GuardAtRest ==
  platform = "unix" /\ op = "read" /\ tree = Some(TreesAtStart) /\ GuardInit
CheckoutsAtRest ==
  /\ caseRule = "exact" /\ head = Some(Trees) /\ index = head
  /\ disk = [n \in Names |-> "none"] /\ merging = FALSE /\ CoInit

TreesAtRest ==
  /\ branches = {} /\ admin = [n \in Linked |-> NoEntry] /\ lockedTrees = {}
  /\ headOf = [x \in Worktree |-> Detached] /\ paused = [x \in Worktree |-> NotPaused]
  /\ folder = [p \in Places |-> Vacant] /\ adding = NotAdding /\ lastMove = Unmoved
  /\ overtaken = FALSE /\ renamed = {} /\ outside = 0

WorkInit ==
  \/ focus = "guarded" /\ GuardInit /\ CheckoutsAtRest /\ TreesAtRest
  \/ focus = "checkouts" /\ CoInit /\ GuardAtRest /\ TreesAtRest
  \/ focus = "worktrees" /\ WorktreesInit /\ GuardAtRest /\ CheckoutsAtRest

WorkNext ==
  \/ focus = "guarded" /\ GuardNext /\ UNCHANGED <<coVars, treeVars, focus>>
  \/ focus = "checkouts" /\ CoNext /\ UNCHANGED <<guardVars, treeVars, focus>>
  \/ focus = "worktrees" /\ WorktreesNext /\ UNCHANGED <<guardVars, coVars, focus>>

WorkSpec == WorkInit /\ [][WorkNext]_workVars
=============================================================================
