----------------------------- MODULE TransferProps -----------------------------
(* What a transfer promises the user who starts and cancels it. *)
EXTENDS Transfers

(* Every operation of the registry is one a queued or running command carries, and the      *)
(* other way round: late clicks and dead workers leave nothing behind (CancelRegistry).      *)
RegistryIsItsOperations ==
  \A id \in Ids : reg[id] # "unknown" <=> op[id].pc \notin {"new", "done"}

(* What is reported as cancelled or refused has changed neither the remote nor the branch    *)
(* (push_refs, cancellation_or, pull).                                                      *)
UntouchedWhenSaid ==
  \A id \in Ids :
    op[id].landed => op[id].result \in {"none", "ok", "failed", "died"}

(* A push takes no commit away from the remote; a force push only those the user's own       *)
(* remote-tracking branch held when it started (push_negotiation's lease).                   *)
NothingUnseenOverwritten ==
  [][\A id \in Ids :
       LET o == op[id] IN
       (op'[id].landed /\ ~o.landed /\ o.kind \in {"push", "force"}) =>
         server[Origin] \subseteq
           server'[Origin] \cup (IF o.kind = "force" THEN o.expected ELSE {})]_tvars

(* Once run_captured is back from a hook the user cancelled or the limit ended, no process   *)
(* of the hook's group is left (kill_tree, kill_and_reap).                                   *)
NoHookSurvives ==
  (hook.phase \in {"back", "drain"} /\ hook.why \in {"cancel", "limit"}) =>
    hook.child \notin {"alive", "forking"}

(* A Cancel pressed before a push sends anything stops it, and the hook after a pull is      *)
(* stopped only by a Cancel pressed while it runs (push_refs, TransferOp.clear). The registry  *)
(* knows the running operations and no other; a hook that is stopped is stopped as a whole.   *)
CancelCountsWhenPressed ==
  /\ \A id \in Ids : (op[id].landed /\ op[id].kind \in Pushes) =>
                       op[id].pressed \cap {"connect", "negotiate"} = {}
  /\ (cur # 0 /\ hook.why = "cancel" /\ op[cur].kind = "pull") =>
       "post hook" \in op[cur].pressed
  /\ RegistryIsItsOperations /\ NoHookSurvives

(* What the user is told of a cancelled or refused transfer is true, and Cancel does what    *)
(* the moment it is pressed in allows (push_refs, cancellation_or, CancelRegistry).          *)
CancelIsHonest == UntouchedWhenSaid /\ CancelCountsWhenPressed

(* A pull that does not end well leaves branch and files as the merge found them, unless     *)
(* rolling back failed too (pull_after_fetch, partial_checkout).                             *)
PullIsWhole ==
  [][\A id \in Ids :
       (op[id].pc \in {"merge", "move"} /\ op'[id].pc = "completed" /\ ~op'[id].spoilt) =>
         <<repo'.tip, repo'.tree>> = op[id].before]_tvars

(* Neither end of a transfer loses what nobody agreed to lose: a push takes no unseen        *)
(* commits from the remote, a pull that fails leaves branch and files as they were           *)
(* (push_negotiation's lease, partial_checkout).                                             *)
BothEndsAreKept == NothingUnseenOverwritten /\ PullIsWhole
=============================================================================
