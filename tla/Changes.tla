-------------------------------- MODULE Changes --------------------------------
(***************************************************************************)
(* What becomes of the user's changes: staged by path or by line, put into a *)
(* stash and taken back, undone and redone, merged and resolved.  The parts  *)
(* share no state within one operation, so a behaviour follows one of them   *)
(* (`about`) and leaves the others at rest.                                  *)
(***************************************************************************)
EXTENDS Staging, LinePatch, StashProps, RestoreProps, Conflicts

VARIABLE about

changeVars == <<stagingVars, lineVars, stashVars, restoreVars, conflictVars, about>>

Some(S) == CHOOSE x \in S : TRUE

StagingAtRest ==
  base = Some(Commits) /\ entries = base /\ worktree = [p \in Paths |-> "none"] /\ StagingInit
LinesAtRest ==
  text = [side \in {"head", "index", "work"} |-> Some(Texts)] /\ LineInit
StashAtRest ==
  top = Some(Heads) /\ idx = top /\ wt = top /\ rules = Some(IgnoreRules) /\ StashInit

RestoreAtRest == present = Some(Worlds) /\ RestoreInit

ConflictsAtRest ==
  /\ stages = [p \in Contested |-> Unmerged(Some(Clashes[p]))] /\ pane = NoPane /\ ConflictsInit

ChangesInit ==
  \/ /\ about = "staging"
     /\ StagingInit /\ LinesAtRest /\ StashAtRest /\ RestoreAtRest /\ ConflictsAtRest
  \/ /\ about = "lines"
     /\ LineInit /\ StagingAtRest /\ StashAtRest /\ RestoreAtRest /\ ConflictsAtRest
  \/ /\ about = "stash"
     /\ StashInit /\ StagingAtRest /\ LinesAtRest /\ RestoreAtRest /\ ConflictsAtRest
  \/ /\ about = "undo"
     /\ RestoreInit /\ StagingAtRest /\ LinesAtRest /\ StashAtRest /\ ConflictsAtRest
  \/ /\ about \in {"conflicts", "tools"}
     /\ ConflictsInit /\ StagingAtRest /\ LinesAtRest /\ StashAtRest /\ RestoreAtRest

ChangesNext ==
  /\ UNCHANGED about
  /\ \/ /\ about = "staging" /\ StagingNext
        /\ UNCHANGED <<lineVars, stashVars, restoreVars, conflictVars>>
     \/ /\ about = "lines" /\ LineNext
        /\ UNCHANGED <<stagingVars, stashVars, restoreVars, conflictVars>>
     \/ /\ about = "stash" /\ StashNext
        /\ UNCHANGED <<stagingVars, lineVars, restoreVars, conflictVars>>
     \/ /\ about = "undo" /\ RestoreNext
        /\ UNCHANGED <<stagingVars, lineVars, stashVars, conflictVars>>
     \/ /\ about = "conflicts" /\ ConflictsNext
        /\ UNCHANGED <<stagingVars, lineVars, stashVars, restoreVars>>
     \/ /\ about = "tools" /\ ToolsNext
        /\ UNCHANGED <<stagingVars, lineVars, stashVars, restoreVars>>

ChangesSpec == ChangesInit /\ [][ChangesNext]_changeVars
=============================================================================
