-------------------------- MODULE PickSequenceProps --------------------------
(* What a sequence of picks promises, over the state of module PickSequence. *)
EXTENDS PickSequence

(* Whatever fails, is cancelled or is done by hand, and however often the sequence is      *)
(* continued, no step lands twice and none out of its order (run, continue_sequence,       *)
(* is_leftover_of_committed_step, is_step_committed_by_hand).                              *)
StepsOnceInOrder ==
  \A i, j \in DOMAIN head : i < j /\ head[i] > 0 /\ head[j] > 0 => head[i] < head[j]

(* The user is never stuck: a stopped sequence nobody has disturbed can be continued once  *)
(* its conflicts are resolved, and where git shows a paused pick or conflicts there is an  *)
(* Abort that ends them, after a crash or a failed save too (persist, continue_sequence,   *)
(* abort_sequence, abort_merge_refusal).                                                    *)
NeverStuck ==
  At("idle") =>
    /\ file # NoSequence /\ ~disturbed /\ index # "conflict" =>
         Resume(file) # "refuse" \/ head = file.original
    /\ op # NoOp => \/ file # NoSequence \/ list = NoList \/ op = ListOp

(* Abort takes back the program's own commits, and all of them. A commit of the user's, or  *)
(* one of a list started in a terminal, leaves HEAD only by the Abort of such a list, with   *)
(* what the dialog has shown, and no branch but the sequence's is moved; a list loses only   *)
(* what is done. An Abort reported as done of a sequence nobody disturbed leaves nothing      *)
(* behind, however often it had to be tried (abort_sequence, abort_terminal_sequence,         *)
(* rewind_to, apply_operation_reset, clear_commit_state).                                     *)
AbortTakesBackItsOwn ==
  [][/\ At("rewind") /\ head' # head =>
          /\ away' = away
          /\ job.mode = "abort" => (ref = "other" <=> job.st.ref = "other")
          /\ IF job.mode = "abort list"
             THEN confirmed.head = head /\ confirmed.start = head' /\ confirmed.rewinds
             ELSE \A i \in (Len(head') + 1)..Len(head) : head[i] \in 1..Steps
     /\ list # NoList /\ list' = NoList => list.left = 1 \/ job.mode = "abort list"
     /\ (At("forget") /\ job.mode = "abort" /\ file' = NoSequence
           /\ ~disturbed /\ ~ByHand(job.st)) =>
          head = job.st.original /\ op = NoOp /\ index = "clean"]_vars

(* The worker goes on with a command it has begun; the user resolves conflicts, presses     *)
(* Continue while it is offered, and repeats an Abort whose last part failed.                *)
AbortAgain == head = file.original /\ Resume(file) = "refuse" /\ AbortSequence
Fairness == WF_vars(Step) /\ WF_vars(Resolve) /\ SF_vars(Continue) /\ SF_vars(AbortAgain)
FairSpec == Spec /\ Fairness

(* A sequence the user keeps continuing comes to its end, unless it is disturbed: no error, *)
(* cancel, leftover or failed save makes Continue refuse or repeat itself for ever (run,     *)
(* continue_sequence, abort_stored).                                                         *)
Completes == []<>(file = NoSequence \/ disturbed)
=============================================================================
