---------------------------- MODULE CommitHistory ----------------------------
(***************************************************************************)
(* The commands that add commits to a branch: sequences of picks (module     *)
(* PickSequence) and commits, merges and single picks (module CommitMerge).  *)
(* The two look at the same files of git at different depths, so a behaviour *)
(* follows one of them (`focus`) and leaves the other idle.                  *)
(***************************************************************************)
EXTENDS PickSequenceProps

CONSTANTS Branches, Signs, MaxActs, MaxCommits

VARIABLES
  focus,
  top, merge, pick, staged, conflict, clean, command, failures, acts, spoilt   \* CommitMerge

mergeVars == <<top, merge, pick, staged, conflict, clean, command, failures, acts, spoilt>>

Merging == INSTANCE CommitMerge WITH
  head <- top, index <- staged, job <- command, faults <- failures, user <- acts,
  MaxUser <- MaxActs

ASSUME BranchesAssumption == Branches \cap {Merging!Nothing, Merging!Mine, Merging!Picked} = {}

HistoryInit == Init /\ Merging!Init /\ focus \in {"picks", "merges"}

HistoryNext ==
  /\ UNCHANGED focus
  /\ \/ focus = "picks" /\ Next /\ UNCHANGED mergeVars
     \/ focus = "merges" /\ Merging!Next /\ UNCHANGED vars

HistorySpec == HistoryInit /\ [][HistoryNext]_<<vars, mergeVars, focus>> /\ Fairness

(* What stands in a branch is what was merged, picked and committed: no branch is merged     *)
(* twice, a merge commit has the parents of the merge it holds, a picked change keeps its    *)
(* author, and a merge is concluded by its own commit alone, whatever hooks, failures and    *)
(* leftovers come in between (commit_with, amend_head, merge_changed, clear_leftover).       *)
CommitsAreRight ==
  /\ [](Merging!MergedOnce /\ Merging!ParentsMatchTree /\ Merging!AuthorsAreRight)
  /\ [][Merging!ConcludesItsOwn]_mergeVars
=============================================================================
