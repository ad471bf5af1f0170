----------------------------- MODULE CommitMerge -----------------------------
(***************************************************************************)
(* Commits, merges and single picks: git-core/commit.rs, merge.rs and      *)
(* pick.rs (one commit), worker/merge.rs and worker/status.rs.             *)
(*                                                                         *)
(* A commit is what it carries and how: the branch it merges as a parent,  *)
(* the change its tree brings, its author, and how often it was amended.   *)
(* One command runs at a time, one step per hook, signer and write; a      *)
(* terminal acts between commands, while a hook runs and, where Signs says *)
(* that commits are signed, while the signer waits for the user.           *)
(***************************************************************************)
EXTENDS Integers, Sequences, FiniteSets

CONSTANTS
  Branches,     \* the branches that may be merged
  Signs,        \* commits are signed
  MaxFaults,    \* bound: calls and hooks that fail
  MaxUser,      \* bound: actions in a terminal
  MaxCommits    \* bound: commits

Nothing == "nothing"
Mine == "mine"          \* changes and authorship of the user's own
Picked == "picked"      \* those of the commit that may be cherry-picked

VARIABLES
  head,         \* what was committed since the repository was opened
  merge, pick,  \* MERGE_HEAD; CHERRY_PICK_HEAD or REVERT_HEAD is there
  index,        \* the change that is staged
  conflict,     \* unresolved paths in the index
  clean,        \* the merge the worker started and that stopped without conflicts
  job,          \* what the worker is doing
  faults, user,
  spoilt        \* ghost: an operation's files outlived its index or HEAD, or the other way

git == <<head, merge, pick, index, conflict>>
vars == <<git, clean, job, faults, user, spoilt>>

NoMerge == [head |-> << >>, of |-> Nothing]
NoJob == [pc |-> "idle", kind |-> "none", of |-> Nothing, before |-> << >>,
          author |-> Mine, hooks |-> "commit", tree |-> Nothing]

NewCommit(of, tree, author) == [merges |-> of, tree |-> tree, author |-> author, amended |-> 0]
Reaches(c, b) == \E i \in DOMAIN c : c[i].merges = b
LastOf(c) == c[Len(c)]

Init ==
  /\ head = << >> /\ merge = Nothing /\ pick = FALSE
  /\ index = Nothing /\ conflict = FALSE
  /\ clean = NoMerge /\ job = NoJob
  /\ faults = 0 /\ user = 0 /\ spoilt = FALSE

-----------------------------------------------------------------------------
(* Operations whose commit has landed and whose files were left behind *)

NoOperation == merge = Nothing /\ ~pick

(* A deviation: a merge is not looked for in HEAD's history. *)
MergeLeftover_Never == FALSE

MergeLeftover == merge # Nothing /\ ~conflict /\ Reaches(head, merge)

(* A deviation: a pick is never taken for one that has landed. *)
PickLeftover_Never == FALSE

(* HEAD is the pick's own commit, or already carries its change. A merge hides the pick. *)
PickLeftover ==
  /\ pick /\ merge = Nothing /\ ~conflict /\ head # << >>
  /\ LastOf(head).tree = Picked /\ LastOf(head).author = Picked /\ LastOf(head).merges = Nothing

Leftover == MergeLeftover \/ PickLeftover

At(pc) == job.pc = pc
Goto(pc) == job' = [job EXCEPT !.pc = pc]
Works == UNCHANGED faults
Fails == faults < MaxFaults /\ faults' = faults + 1
Errs == job' = NoJob

ClearState == merge' = Nothing /\ pick' = FALSE
StateStays == UNCHANGED <<merge, pick>>

-----------------------------------------------------------------------------
(* Commit *)

(* A deviation: the merge the worker remembers is not compared with HEAD. *)
HookSet_AnyHead(of) == IF of # Nothing /\ clean.of = of THEN "merge" ELSE "commit"

(* git merge's hooks only for the very merge that was remembered as clean. *)
HookSet(of) ==
  IF of # Nothing /\ clean = [head |-> head, of |-> of] THEN "merge" ELSE "commit"

Begin(kind, of, author) ==
  job' = [NoJob EXCEPT !.pc = "pre hook", !.kind = kind, !.of = of, !.before = head,
                       !.author = author, !.hooks = HookSet(of)]

(* commit_with up to its first hook: what is left over is cleared, the parents are read. *)
CommitBegin ==
  /\ At("idle")
  /\ Len(head) < MaxCommits /\ index # Nothing        \* bound: something is staged
  /\ UNCHANGED <<head, index, conflict, clean, user, spoilt>>
  /\ \/ /\ Leftover /\ Fails /\ StateStays /\ Errs
     \/ /\ Leftover /\ Works /\ ClearState
        /\ Begin("commit", Nothing, Mine)
     \/ /\ ~Leftover /\ Works /\ StateStays
        /\ Begin("commit", merge, IF pick /\ merge = Nothing THEN Picked ELSE Mine)

(* amend_head: refused while an operation that is no leftover is paused. *)
AmendBegin ==
  /\ At("idle") /\ head # << >> /\ LastOf(head).amended = 0      \* bound
  /\ UNCHANGED <<head, index, conflict, clean, user, spoilt>>
  /\ \/ /\ Leftover /\ Fails /\ StateStays /\ Errs
     \/ /\ Leftover /\ Works /\ ClearState
        /\ Begin("amend", Nothing, Mine)
     \/ NoOperation /\ Works /\ StateStays /\ Begin("amend", Nothing, Mine)

(* A deviation: only that a merge is paused is looked at again, not which. *)
MergeChanged_Presence == job.of # Nothing /\ merge = Nothing

MergeChanged == job.of # Nothing /\ (merge # job.of \/ head # job.before)

(* pre-commit or pre-merge-commit, then the message hooks; after each the merge is checked. *)
Hook(pc, next) ==
  /\ At(pc)
  /\ \/ ~MergeChanged /\ Works /\ Goto(next)
     \/ MergeChanged /\ Works /\ Errs
     \/ Fails /\ Errs
  /\ UNCHANGED <<git, clean, user, spoilt>>

(* A deviation: an index with conflicts is written as a tree all the same. *)
WritesTree_Always == TRUE

WritesTree == ~conflict

(* The index becomes a tree and HEAD the first parent. *)
Write ==
  /\ At("write") /\ Works
  /\ IF ~WritesTree THEN Errs
     ELSE job' = [job EXCEPT !.pc = "sign", !.tree = index,
                    !.before = IF job.kind = "commit" THEN head ELSE @]
  /\ UNCHANGED <<git, clean, user, spoilt>>

Swaps == head = job.before

Amended(c) == [c EXCEPT ![Len(c)].amended = @ + 1]

(* create_commit_with: the signer first, then HEAD by compare and swap. The hooks after a *)
(* pick run while its files are there, those after a commit when they are cleared.        *)
Swap ==
  /\ At("sign")
  /\ \/ /\ Swaps /\ Works
        /\ head' = IF job.kind = "amend" THEN Amended(head)
                   ELSE Append(job.before, NewCommit(job.of, job.tree, job.author))
        /\ index' = IF index = job.tree THEN Nothing ELSE index
        /\ Goto(IF job.kind = "commit" THEN "clear" ELSE "post hook")
     \/ ~Swaps /\ Works /\ Errs /\ UNCHANGED <<head, index>>
  /\ UNCHANGED <<merge, pick, conflict, clean, user, spoilt>>

(* The signing program fails, or is cancelled, or takes too long. *)
SignerFails ==
  /\ At("sign") /\ Fails /\ Errs
  /\ UNCHANGED <<git, clean, user, spoilt>>

(* A deviation: whatever is paused is cleared after any commit. *)
Concludes_Always == TRUE

Concludes == job.kind = "pick" \/ job.of # Nothing \/ (pick /\ merge = Nothing)

(* The commit stands: what cannot be cleared now is a leftover. *)
Clear ==
  /\ At("clear")
  /\ IF job.kind = "pick" THEN job' = NoJob ELSE Goto("post hook")
  /\ \/ Concludes /\ Works /\ ClearState
     \/ Concludes /\ Fails /\ StateStays
     \/ ~Concludes /\ Works /\ StateStays
  /\ UNCHANGED <<head, index, conflict, clean, user, spoilt>>

(* post-commit, or post-merge: whether it works changes nothing. The worker forgets its *)
(* merge once a commit has landed.                                                     *)
PostHook ==
  /\ At("post hook") /\ Works
  /\ IF job.kind = "pick" THEN Goto("clear") ELSE job' = NoJob
  /\ clean' = IF job.kind = "commit" THEN NoMerge ELSE clean
  /\ UNCHANGED <<git, user, spoilt>>

-----------------------------------------------------------------------------
(* Merge, a single pick, and Abort *)

MayMerge ==
  /\ At("idle") /\ merge = Nothing /\ ~conflict
  /\ index = Nothing        \* bound: nothing of the user's is staged

(* start_merge: the worker remembers a merge without conflicts, and no other. *)
StartMerge(b) ==
  /\ MayMerge /\ ~Reaches(head, b) /\ Works
  /\ merge' = b /\ index' = b /\ conflict' \in BOOLEAN
  /\ clean' = IF conflict' THEN NoMerge ELSE [head |-> head, of |-> b]
  /\ UNCHANGED <<head, pick, job, user, spoilt>>

UpToDate(b) ==
  /\ MayMerge /\ Reaches(head, b) /\ clean' = NoMerge
  /\ UNCHANGED <<git, job, faults, user, spoilt>>

(* The work tree first, then the branch. *)
FastForward(b) ==
  /\ MayMerge /\ ~Reaches(head, b) /\ Len(head) < MaxCommits
  /\ \/ /\ Works /\ head' = Append(head, NewCommit(b, b, Mine)) /\ clean' = NoMerge
        /\ spoilt' = (spoilt \/ pick) /\ UNCHANGED index
     \/ Fails /\ index' = b /\ UNCHANGED <<head, clean, spoilt>>
  /\ UNCHANGED <<merge, pick, conflict, job, user>>

(* squash_merge: merged as ever, then the files of the merge go, those of a pick too. *)
SquashMerge(b) ==
  /\ MayMerge /\ ~Reaches(head, b)
  /\ index' = b /\ conflict' \in BOOLEAN
  /\ \/ Works /\ ClearState /\ clean' = NoMerge
     \/ Fails /\ merge' = b /\ UNCHANGED <<pick, clean>>
  /\ UNCHANGED <<head, job, user, spoilt>>

ReadyToPick == At("idle") /\ NoOperation /\ ~conflict /\ index = Nothing

(* step, of one pick, up to its hook: the tree is written before that. *)
PickOne ==
  /\ ReadyToPick /\ Len(head) < MaxCommits
  /\ \A i \in DOMAIN head : head[i].tree # Picked
  /\ Works /\ pick' = TRUE /\ index' = Picked
  /\ \/ conflict' = TRUE /\ UNCHANGED job
     \/ /\ UNCHANGED conflict
        /\ job' = [NoJob EXCEPT !.pc = "pick hook", !.kind = "pick", !.before = head,
                                !.tree = Picked, !.author = Picked]
  /\ UNCHANGED <<head, merge, clean, user, spoilt>>

(* Picked once more it changes nothing, and its files may be left over. *)
PickNothing ==
  /\ ReadyToPick
  /\ \E i \in DOMAIN head : head[i].tree = Picked
  /\ Fails /\ pick' = TRUE
  /\ UNCHANGED <<head, merge, index, conflict, clean, job, user>>
  /\ spoilt' = (spoilt \/ ~PickLeftover')

MayAbort == At("idle") /\ (~NoOperation \/ conflict)

(* abort_merge: the touched paths first, the operation's files after them. *)
AbortMerge ==
  /\ MayAbort
  /\ index' = Nothing /\ conflict' = FALSE /\ clean' = NoMerge
  /\ \/ Works /\ ClearState /\ UNCHANGED spoilt
     \/ Fails /\ StateStays /\ spoilt' = (spoilt \/ ~Leftover)
  /\ UNCHANGED <<head, job, user>>

(* The reset stopped part-way: the operation stays, to be aborted again. *)
AbortFails ==
  /\ MayAbort /\ Fails /\ clean' = NoMerge
  /\ UNCHANGED <<git, job, user, spoilt>>

-----------------------------------------------------------------------------
(* The user, in an editor or a terminal *)

Waiting ==
  \/ At("pre hook") \/ At("message hook") \/ At("pick hook") \/ At("post hook")
  \/ Signs /\ At("sign")
Acts == user < MaxUser /\ user' = user + 1

(* Changes of the user's own are staged beside nothing, or beside what is left over. *)
Stage ==
  /\ At("idle") /\ index = Nothing /\ ~conflict /\ index' = Mine
  /\ merge = Nothing \/ Reaches(head, merge)
  /\ UNCHANGED <<head, merge, pick, conflict, clean, job, faults, user, spoilt>>

Resolve ==
  /\ At("idle") /\ conflict /\ conflict' = FALSE
  /\ UNCHANGED <<head, merge, pick, index, clean, job, faults, user, spoilt>>

(* git merge --abort *)
MergeAbort ==
  /\ At("idle") \/ Waiting
  /\ Acts /\ merge # Nothing /\ ~Reaches(head, merge)
  /\ merge' = Nothing /\ index' = Nothing /\ conflict' = FALSE
  /\ UNCHANGED <<head, pick, clean, job, faults, spoilt>>

(* git merge --no-commit *)
MergeStart(b) ==
  /\ At("idle") \/ Waiting
  /\ Acts /\ NoOperation /\ ~Reaches(head, b) /\ index = Nothing
  /\ merge' = b /\ index' = b /\ conflict' \in BOOLEAN
  /\ UNCHANGED <<head, pick, clean, job, faults, spoilt>>

(* git commit, of whatever is staged and paused. *)
CommitByHand ==
  /\ At("idle") \/ Waiting
  /\ Acts /\ index # Nothing /\ ~conflict /\ Len(head) < MaxCommits
  /\ merge = Nothing \/ ~Reaches(head, merge)
  /\ ~PickLeftover
  /\ head' = Append(head, NewCommit(merge, index, IF pick /\ merge = Nothing THEN Picked ELSE Mine))
  /\ ClearState /\ index' = Nothing
  /\ spoilt' = (spoilt \/ (pick /\ ~At("idle")))
  /\ UNCHANGED <<conflict, clean, job, faults>>

(* The repository is closed and opened again: the worker has seen no merge. *)
Reopen ==
  /\ At("idle") /\ clean' = NoMerge
  /\ UNCHANGED <<git, job, faults, user, spoilt>>

Command ==
  \/ CommitBegin \/ AmendBegin \/ PickOne \/ PickNothing \/ AbortMerge \/ AbortFails \/ Reopen
  \/ \E b \in Branches : StartMerge(b) \/ UpToDate(b) \/ FastForward(b) \/ SquashMerge(b)

Step ==
  \/ Hook("pre hook", "message hook") \/ Hook("message hook", "write")
  \/ Hook("pick hook", "sign") \/ Write \/ SignerFails \/ Swap \/ Clear \/ PostHook

Terminal ==
  \/ Stage \/ Resolve \/ MergeAbort \/ CommitByHand \/ \E b \in Branches : MergeStart(b)

Next == Command \/ Step \/ Terminal

Spec == Init /\ [][Next]_vars

-----------------------------------------------------------------------------
(* What a commit and a merge promise *)

\* No branch is merged twice, though the files of a merge that has landed may be left over
\* and the user goes on committing, amending and merging (commit_with, amend_head,
\* clear_leftover, start_merge).
MergedOnce ==
  \A i, j \in DOMAIN head : i # j /\ head[i].merges # Nothing => head[i].merges # head[j].merges

\* A merge commit holds the merge it names as a parent: one that was aborted or started
\* again in a terminal while the hooks ran is not committed with the parents of before; and
\* nothing with conflicts is committed (commit_with, merge_changed).
ParentsMatchTree ==
  /\ ~spoilt => \A i \in DOMAIN head : head[i].merges # Nothing => head[i].tree = head[i].merges
  /\ At("clear") => ~conflict

\* A picked change keeps its author and no other change gets that author, though the files
\* of a pick that has landed may be left over (pick_already_committed, commit_with,
\* amend_head).
AuthorsAreRight ==
  ~spoilt => \A i \in DOMAIN head : head[i].author = Picked <=> head[i].tree = Picked

\* A merge is concluded by its own commit alone: git merge's hooks run for the merge that
\* was remembered, on the HEAD it was remembered on, and a merge started in a terminal while
\* the hooks of another commit run keeps its MERGE_HEAD (CleanMerge, commit_with,
\* cleanup_after_commit, clear_leftover).
ConcludesItsOwn ==
  /\ At("sign") /\ job.hooks = "merge" /\ head' # head =>
       head = clean.head /\ LastOf(head').merges = clean.of
  /\ job' # job /\ merge # Nothing /\ merge' = Nothing => Reaches(head', merge)
=============================================================================
