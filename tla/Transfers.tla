------------------------------- MODULE Transfers -------------------------------
(***************************************************************************)
(* The cancellable transfers of one repository's worker: fetch, Fetch all,  *)
(* pull, the four pushes (worker/remote.rs, git-core remote.rs), the         *)
(* registry their Cancel goes through (worker/cancel.rs) and the hooks they  *)
(* run (module HookProcess).                                                *)
(*                                                                         *)
(* A branch tip is the set of the commits it contains, so one tip is an      *)
(* ancestor of another when it is a subset; {} is a branch that is not       *)
(* there. Other people push to the same branch at any time. The user commits *)
(* and edits at any time but while a pull checks out.                        *)
(***************************************************************************)
EXTENDS Integers, Sequences, FiniteSets, HookProcess

CONSTANTS
  Remotes,      \* sequence: the remotes in Fetch all's order; the other kinds use the first
  Kinds,        \* the commands the user gives
  MaxOps,       \* bound: commands given
  MaxOutside,   \* bound: commits and pushes of others, commits of the user
  MaxFaults     \* bound: calls that fail, worker threads that die

RemoteNames == {Remotes[i] : i \in DOMAIN Remotes}

ASSUME TransfersAssumption ==
  /\ Remotes \in Seq(RemoteNames) /\ Len(Remotes) > 0
  /\ Kinds \subseteq {"fetch", "fetchAll", "pull", "push", "force", "delete"}
  /\ MaxOps \in Nat /\ MaxOutside \in Nat /\ MaxFaults \in Nat

Ids == 1..MaxOps
Pushes == {"push", "force", "delete"}
Untidy == {-1}                  \* a work tree and index that match no commit

VARIABLES
  op,        \* the operations: what each was asked for, where it is, its result
  queue, cur, alive,   \* the worker: its channel, the operation it runs, its thread
  reg,       \* CancelRegistry: unknown, live or cancelled
  repo,      \* the current branch, the work tree, the remote-tracking refs
  server,    \* the branch on each remote
  fresh,     \* how many commits others and the user made
  faults

tvars == <<op, queue, cur, alive, reg, repo, server, fresh, faults, hook>>

Origin == Remotes[1]
NoOp == [kind |-> "none", pc |-> "new", hooked |-> FALSE,
         adv |-> {}, new |-> {}, expected |-> {}, todo |-> << >>, got |-> {}, failed |-> {},
         result |-> "none",
         landed |-> FALSE, pressed |-> {}, before |-> << >>, spoilt |-> FALSE]   \* ghosts

TInit ==
  /\ op = [id \in Ids |-> NoOp] /\ queue = << >> /\ cur = 0 /\ alive = TRUE
  /\ reg = [id \in Ids |-> "unknown"]
  /\ repo = [tip |-> {0}, tree |-> {0}, tracking |-> [r \in RemoteNames |-> {0}]]
  /\ server = [r \in RemoteNames |-> {0}]
  /\ fresh = 0 /\ faults = 0 /\ hook = NoHook

TFails == faults < MaxFaults /\ faults' = faults + 1
TWorks == UNCHANGED faults

-----------------------------------------------------------------------------
(* The user, the registry and the other people *)

(* WorkerHandle: an ID is allocated before the command is queued. *)
Give(id, kind, hooked) ==
  /\ alive /\ op[id].kind = "none" /\ \A j \in 1..(id - 1) : op[j].kind # "none"
  /\ op' = [op EXCEPT ![id] = [NoOp EXCEPT !.kind = kind, !.pc = "queued", !.hooked = hooked]]
  /\ reg' = [reg EXCEPT ![id] = "live"] /\ queue' = Append(queue, id)
  /\ UNCHANGED <<cur, alive, repo, server, fresh, faults, hook>>

(* A deviation: a late Cancel is kept for an operation that is over. *)
Heard_Always(id) == "cancelled"

Heard(id) == IF reg[id] = "unknown" THEN "unknown" ELSE "cancelled"

(* cancel_transfer. The UI learns an ID once the operation has started. *)
Cancel(id) ==
  /\ op[id].pc \notin {"new", "queued"} /\ op[id].pc \notin op[id].pressed
  /\ reg' = [reg EXCEPT ![id] = Heard(id)]
  /\ op' = IF op[id].pc = "done" THEN op ELSE [op EXCEPT ![id].pressed = @ \cup {op[id].pc}]
  /\ UNCHANGED <<queue, cur, alive, repo, server, fresh, faults, hook>>

Settled == \A id \in Ids : op[id].pc \notin {"merge", "move"}

Outside ==
  /\ fresh < MaxOutside /\ fresh' = fresh + 1
  /\ \/ /\ Settled
        /\ \E tip \in {repo.tip \cup {fresh'}, {0, fresh'}} :            \* commit, amend
             repo' = [repo EXCEPT !.tip = tip, !.tree = IF @ = repo.tip THEN tip ELSE @]
        /\ UNCHANGED server
     \/ \E r \in RemoteNames : \E tip \in {server[r] \cup {fresh'}, {0, fresh'}} :
          server' = [server EXCEPT ![r] = tip] /\ UNCHANGED repo
  /\ UNCHANGED <<op, queue, cur, alive, reg, faults, hook>>

(* The user edits, or puts the work tree back to the branch. *)
Edit ==
  /\ Settled
  /\ \/ repo.tree = repo.tip /\ repo' = [repo EXCEPT !.tree = Untidy]
     \/ repo.tree # repo.tip /\ repo' = [repo EXCEPT !.tree = repo.tip]
  /\ UNCHANGED <<op, queue, cur, alive, reg, server, fresh, faults, hook>>

-----------------------------------------------------------------------------
(* The worker *)

Now == op[cur]
At(pc) == alive /\ cur # 0 /\ Now.pc = pc
Cancelled == reg[cur] = "cancelled"
Remember(o) == op' = [op EXCEPT ![cur] = o]
To(pc) == Remember([Now EXCEPT !.pc = pc])
Worker == UNCHANGED <<queue, cur, alive, fresh>>
HookOff == UNCHANGED hook

(* complete: a cancel asked for so far is forgotten, Completed is sent. *)
Ends(result) ==
  /\ Remember([Now EXCEPT !.pc = "completed", !.result = result])
  /\ reg' = [reg EXCEPT ![cur] = "live"]

FirstOf(kind) == CASE kind \in {"fetch", "fetchAll", "pull"} -> "fetch" [] OTHER -> "connect"

(* The next command. A current-branch push without a settled target is refused at once. The  *)
(* lease of a force push is the remote-tracking ref of this moment.                          *)
Take ==
  /\ alive /\ cur = 0 /\ queue # << >> /\ queue' = Tail(queue)
  /\ LET id == Head(queue) o == op[id] IN
       \/ /\ cur' = id /\ UNCHANGED reg
          /\ op' = [op EXCEPT ![id] = [o EXCEPT
               !.pc = FirstOf(o.kind), !.expected = repo.tracking[Origin],
               !.todo = IF o.kind = "fetchAll" THEN Remotes ELSE <<Origin>>]]
       \/ /\ o.kind \in {"push", "force"} /\ UNCHANGED cur
          /\ op' = [op EXCEPT ![id] = [NoOp EXCEPT !.kind = o.kind, !.pc = "done",
                                             !.result = "refused"]]
          /\ reg' = [reg EXCEPT ![id] = "unknown"]
  /\ UNCHANGED <<alive, repo, server, fresh, faults, hook>>

(* The operation's ID is dropped with the command's other parts. *)
DropId ==
  /\ At("completed") /\ cur' = 0
  /\ Remember([NoOp EXCEPT !.kind = Now.kind, !.pc = "done", !.result = Now.result,
                           !.landed = Now.landed])
  /\ reg' = [reg EXCEPT ![cur] = "unknown"]
  /\ UNCHANGED <<queue, alive, repo, server, fresh, faults, hook>>

(* The worker's thread dies: every ID it was to run is dropped with its command. *)
Dies ==
  /\ alive /\ TFails /\ alive' = FALSE /\ cur' = 0 /\ queue' = << >>
  /\ op' = [id \in Ids |-> IF op[id].kind # "none" /\ op[id].pc # "done"
                           THEN [NoOp EXCEPT !.kind = op[id].kind, !.pc = "done", !.result = "died"]
                           ELSE op[id]]
  /\ reg' = [id \in Ids |-> "unknown"] /\ hook' = NoHook
  /\ UNCHANGED <<repo, server, fresh>>

-----------------------------------------------------------------------------
(* fetch_with, fetch_all, pull_after_fetch *)

AfterFetch(o) ==
  IF o.todo # << >> THEN Remember(o) /\ UNCHANGED reg
  ELSE CASE o.kind = "pull" ->
              Remember([o EXCEPT !.pc = "merge", !.before = <<repo.tip, repo.tree>>]) /\ UNCHANGED reg
         [] o.kind = "fetchAll" ->
              /\ Remember([o EXCEPT !.pc = "completed",
                             !.result = IF o.got = {} THEN "failed" ELSE "ok"])
              /\ reg' = [reg EXCEPT ![cur] = "live"]
         [] OTHER -> Ends("ok")

Fetch ==
  /\ At("fetch") /\ Now.todo # << >> /\ Worker /\ HookOff /\ UNCHANGED server
  /\ LET r == Head(Now.todo) rest == [Now EXCEPT !.todo = Tail(@)] IN
       \/ /\ TWorks /\ ~(Now.kind = "fetchAll" /\ Cancelled)    \* polled between two remotes
          /\ repo' = [repo EXCEPT !.tracking[r] = server[r]]
          /\ AfterFetch([rest EXCEPT !.got = @ \cup {r}])
       \/ /\ TWorks /\ Cancelled /\ Ends("cancelled")            \* before or after the refs
          /\ \E seen \in {repo.tracking[r], server[r]} : repo' = [repo EXCEPT !.tracking[r] = seen]
       \/ /\ TFails /\ UNCHANGED repo                           \* cancellation_or
          /\ IF Cancelled THEN Ends("cancelled")
             ELSE IF Now.kind = "fetchAll" THEN AfterFetch([rest EXCEPT !.failed = @ \cup {r}])
             ELSE Ends("failed")

(* What keeps a pull from fast-forwarding. *)
Standing(upstream) ==
  IF repo.tree # repo.tip THEN "dirty"
  ELSE IF upstream = {} THEN "failed"
  ELSE IF upstream \subseteq repo.tip THEN "up to date"
  ELSE IF repo.tip \subseteq upstream THEN "behind" ELSE "diverged"

(* A deviation: a checkout that stopped is left as it is. *)
RollsBack_Never(tree) == Untidy

RollsBack(tree) == tree

(* The checkout of the upstream; one that stops part-way is rolled back (partial_checkout). *)
Merge ==
  /\ At("merge") /\ Worker /\ HookOff /\ UNCHANGED server
  /\ LET upstream == repo.tracking[Origin] standing == Standing(upstream) IN
       \/ /\ standing # "behind" /\ TWorks /\ UNCHANGED repo /\ Ends(standing)
       \/ /\ standing = "behind" /\ TWorks
          /\ repo' = [repo EXCEPT !.tree = upstream] /\ To("move") /\ UNCHANGED reg
       \/ /\ standing = "behind" /\ TFails /\ Ends("failed")
          /\ repo' = [repo EXCEPT !.tree = RollsBack(@)]
       \/ /\ standing = "behind" /\ TFails                     \* and cannot be rolled back
          /\ repo' = [repo EXCEPT !.tree = Untidy]
          /\ Remember([Now EXCEPT !.pc = "completed", !.result = "failed", !.spoilt = TRUE])
          /\ reg' = [reg EXCEPT ![cur] = "live"]

BeforeHook == reg' = [reg EXCEPT ![cur] = "live"]

(* The branch follows; then post-merge, on the pull's own operation. *)
Move ==
  /\ At("move") /\ Worker /\ UNCHANGED server
  /\ \/ /\ TWorks /\ repo' = [repo EXCEPT !.tip = repo.tracking[Origin]] /\ BeforeHook
        /\ \/ Now.hooked /\ hook' = Spawned
              /\ Remember([Now EXCEPT !.pc = "post hook", !.landed = TRUE])
           \/ HookOff /\ Remember([Now EXCEPT !.pc = "reply", !.landed = TRUE])
     \/ /\ TFails /\ UNCHANGED repo /\ HookOff
        /\ Remember([Now EXCEPT !.pc = "completed", !.result = "failed", !.spoilt = TRUE])
        /\ reg' = [reg EXCEPT ![cur] = "live"]

Reply == At("reply") /\ Ends("ok") /\ Worker /\ HookOff /\ TWorks /\ UNCHANGED <<repo, server>>

-----------------------------------------------------------------------------
(* push_refs *)

Forced == Now.kind \in {"force", "delete"}

(* The remote's refs are advertised; libgit2 refuses what is no fast-forward. *)
Connect ==
  /\ At("connect") /\ Worker /\ HookOff /\ UNCHANGED <<repo, server>>
  /\ LET adv == server[Origin]
         new == IF Now.kind = "delete" THEN {} ELSE repo.tip
     IN \/ /\ TWorks /\ (Forced \/ adv \subseteq new) /\ UNCHANGED reg
           /\ Remember([Now EXCEPT !.pc = "negotiate", !.adv = adv, !.new = new])
        \/ /\ TWorks /\ ~Forced /\ ~(adv \subseteq new) /\ Ends("non-fast-forward")
        \/ TFails /\ Ends("failed")

(* A deviation: the lease is what the remote has now. *)
LeaseHolds_Now == TRUE

LeaseHolds == Now.kind = "force" => Now.adv = Now.expected

(* A deviation: a Cancel before the push got here is no longer looked at. *)
StopsHere_Hook == Cancelled /\ Now.hooked

StopsHere == Cancelled

(* push_negotiation: the only point where a push is cancelled, then the lease, then pre-push. *)
Negotiate ==
  /\ At("negotiate") /\ Worker /\ UNCHANGED <<repo, server>>
  /\ CASE StopsHere -> TWorks /\ Ends("cancelled") /\ HookOff
       [] ~StopsHere /\ ~LeaseHolds -> TWorks /\ Ends("stale lease") /\ HookOff
       [] OTHER ->
            IF ~Now.hooked THEN TWorks /\ To("send") /\ HookOff /\ UNCHANGED reg
            ELSE \/ TWorks /\ To("pre hook") /\ hook' = Spawned /\ UNCHANGED reg
                 \/ TFails /\ Ends("hook failed") /\ HookOff    \* it could not be started

(* The hook's program is over: what the push, or the pull, does next. *)
HookBack ==
  /\ alive /\ cur # 0 /\ hook.phase = "back" /\ hook' = NoHook
  /\ Worker /\ TWorks /\ UNCHANGED <<repo, server>>
  /\ \/ Now.pc = "post hook" /\ To("reply") /\ UNCHANGED reg
     \/ /\ Now.pc = "pre hook"
        /\ CASE Outcome = "ran" -> To("send") /\ UNCHANGED reg
             [] Outcome = "cancelled" -> Ends("cancelled")
             [] Outcome = "failed" -> Ends("hook failed")

(* A deviation: a failed push is one the user cancelled if Cancel was pressed meanwhile. *)
Broken_Cancelled == IF Cancelled THEN "cancelled" ELSE "failed"

Broken == "failed"

(* The remote takes the update if its branch is still what it advertised; the answer may be   *)
(* lost. What landed is never called cancelled.                                              *)
Send ==
  /\ At("send") /\ Worker /\ HookOff /\ UNCHANGED repo
  /\ LET r == Origin
         land == server' = [server EXCEPT ![r] = Now.new]
     IN \/ /\ TWorks /\ server[r] = Now.adv /\ land /\ UNCHANGED reg
           /\ Remember([Now EXCEPT !.pc = "landed", !.landed = server[r] # Now.new])
        \/ /\ TWorks /\ server[r] # Now.adv /\ Ends("rejected") /\ UNCHANGED server
        \/ /\ TFails /\ Ends("rejected") /\ UNCHANGED server
        \/ /\ TFails /\ server[r] = Now.adv /\ land
           /\ Remember([Now EXCEPT !.pc = "completed", !.result = Broken,
                                   !.landed = server[r] # Now.new])
           /\ reg' = [reg EXCEPT ![cur] = "live"]

(* The remote-tracking ref follows; then the upstream setting, or the ref deleted. *)
Landed ==
  /\ At("landed") /\ Worker /\ HookOff /\ UNCHANGED server
  /\ repo' = [repo EXCEPT !.tracking[Origin] = Now.new]
  /\ \/ TWorks /\ Ends("ok")
     \/ TFails /\ Ends("failed")

-----------------------------------------------------------------------------

WaitForHook ==
  /\ alive /\ cur # 0 /\ WaiterStep(Cancelled)
  /\ UNCHANGED <<op, queue, cur, alive, reg, repo, server, fresh, faults>>

OutsideHook == OutsideStep /\ UNCHANGED <<op, queue, cur, alive, reg, repo, server, fresh, faults>>

WorkerRuns ==
  \/ Take \/ DropId
  \/ Fetch \/ Merge \/ Move \/ Reply
  \/ Connect \/ Negotiate \/ HookBack \/ Send \/ Landed
  \/ WaitForHook

TNext ==
  \/ WorkerRuns \/ Dies \/ OutsideHook \/ Outside \/ Edit
  \/ \E id \in Ids : Cancel(id)
  \/ \E id \in Ids, kind \in Kinds, hooked \in BOOLEAN :
       /\ kind \in {"fetch", "fetchAll"} => ~hooked
       /\ Give(id, kind, hooked)

TFair == WF_tvars(WorkerRuns) /\ WF_tvars(OutsideHook /\ TimePasses)
=============================================================================
