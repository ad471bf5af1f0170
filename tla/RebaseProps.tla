----------------------------- MODULE RebaseProps -----------------------------
(* What the interactive rebase promises, over the state of module Rebase. *)
EXTENDS Rebase

(* The rebased branch is never moved to anything but the whole plan: it is where the      *)
(* rebase found it, gone, ends in a commit of the user's own, or is exactly what the plan *)
(* asks for, each entry once and every group in one commit (advance, land_current_step,   *)
(* after_landed, finish), as long as a landed step's files could be cleared.               *)
BranchIsWhole ==
  \/ uncleared
  \/ branch \in {OldTip, NoCommit, Complete}
  \/ branch[Len(branch)] = {}

(* A rebase is never out of reach. While nothing runs and the branch is where it was, a HEAD *)
(* that is detached belongs to a rebase some window can continue or abort: no failed save,   *)
(* failed delete or lost race makes the program forget a rebase it has stopped in. And a     *)
(* rebase reported as paused is refused by neither Continue nor Abort (RebaseSlot::persist,  *)
(* forget, rebase_health, resume_kind, abort_rebase).                                        *)
NotStranded ==
  /\ Idle /\ head = "detached" /\ branch = OldTip /\ ~excused /\ ~uncleared =>
       \E w \in Workers : Stored(w) # NoRebase
  /\ \A w \in Workers :
       Stored(w) # NoRebase /\ Health(Stored(w)) = "paused" =>
         Resume(Stored(w)) # "refuse" /\ Owned(Stored(w))

(* As long as nobody in a terminal moves HEAD and nothing dies, a window keeps only a copy of the *)
(* rebase that agrees with HEAD, though steps and saves may fail and two windows may      *)
(* continue one rebase: the loser of HEAD never replaces what the winner has written, and  *)
(* an edit or a conflict is kept as one (continue_rebase, lost_head, RebaseSlot::persist).  *)
StoredIsCurrent ==
  [][\A w \in Workers :
       /\ job[w].pc = "keep" /\ job'[w].pc = "idle" /\ ~excused' /\ ~uncleared'
       /\ file' # file \/ fallback'[w] # fallback[w]
       => LET st == Stored(w)'
          IN st # NoRebase /\ (st.expected = HeadCommit \/ ByHand(st))]_vars

(* An Abort that succeeds leaves HEAD on the branch and nothing paused, whatever failed   *)
(* on the way and however often it had to be tried, unless the rebase had already reached  *)
(* the branch or another window is in the middle of a step (abort_rebase,                  *)
(* restore_original_branch, worker abort).                                                  *)
AbortReturns ==
  [][\A w \in Workers :
       /\ job[w].pc = "forget" /\ job[w].mode = "abort" /\ Idle'
       /\ ~excused' /\ ~uncleared' /\ branch = OldTip
       => head = "branch" /\ pick = NoPick]_vars
=============================================================================
