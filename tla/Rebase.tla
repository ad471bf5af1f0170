------------------------------- MODULE Rebase -------------------------------
(***************************************************************************)
(* The interactive rebase of the program: git-core/rebase.rs (apply, pause, *)
(* land, collapse, finish, abort) and worker/rebase.rs (rebase.json and    *)
(* what a worker remembers when the file cannot be written).               *)
(*                                                                         *)
(* A commit is the sequence of what was committed since the commit the     *)
(* plan is rebased onto; each element is the set of plan entries it        *)
(* carries, {} for a commit of the user's own.  One job runs per worker,   *)
(* one step per call that can fail or be interleaved.  Where Contended     *)
(* says that waits for the state lock run out, a second job runs while the *)
(* first one's signer waits for the user.                                  *)
(***************************************************************************)
EXTENDS Integers, Sequences, FiniteSets

CONSTANTS
  Workers,      \* the windows that have the repository open
  Plans,        \* bound: the plans the user may draw up
  Contended,    \* waits for the state lock may run out while a signer waits
  Failing,      \* the kinds of calls that may fail: "write" to git or the work tree,
                \* "sign", "clear" a landed step's files, "store" or delete rebase.json
  MaxFaults,    \* bound: calls that fail
  MaxUser,      \* bound: actions in a terminal that the program does not expect
  MaxCrashes    \* bound: workers that die

VARIABLES
  plan,                         \* the plan the user draws up, entry by entry
  head, at, branch, other,      \* HEAD, its commit when detached, two branches
  pick, conflict,               \* the paused pick; unresolved paths in the index
  file,                         \* rebase.json
  fallback, forgotten,          \* RebaseMemory of each worker
  job,                          \* what each worker is doing
  faults, user, crashes,        \* what has gone wrong so far
  excused,      \* ghost: a terminal moved HEAD or the branch, a worker died at work, a roll
                \* back failed, or a copy that only another window has was passed over
  uncleared     \* ghost: the files of a step that had landed could not be cleared

gitVars == <<head, at, branch, other, pick, conflict>>
storeVars == <<file, fallback, forgotten>>
outside == <<user, crashes, excused, uncleared>>
vars == <<plan, gitVars, storeVars, job, faults, outside>>

Actions == {"pick", "edit", "squash", "drop"}  \* reword is a pick, fixup a squash

ASSUME PlansAssumption == Plans \subseteq Seq(Actions) \ {<< >>}
ASSUME FaultsAssumption == MaxFaults \in Nat

Onto == << >>
OldTip == << {0} >>
Elsewhere == << {-1} >>
NoCommit == << {-2} >>

NoPick == 0
Foreign == -1       \* an operation that is not this rebase's pick

NoRebase == [cursor |-> 0, group |-> NoCommit, expected |-> NoCommit, stop |-> "error"]
NoJob == [pc |-> "idle", mode |-> "none", st |-> NoRebase, loaded |-> NoRebase,
          parent |-> NoCommit, ok |-> FALSE]

Kept(p) == {i \in DOMAIN p : p[i] # "drop"}

(* validate_plan: the first entry that is not dropped leads a group. *)
ValidPlan(p) == \A i \in Kept(p) : p[i] = "squash" => \E j \in Kept(p) : j < i

HeadCommit == CASE head = "branch" -> branch [] head = "other" -> other [] OTHER -> at

(* What entry n of plan p makes of commit c. *)
WithEntry(p, c, n) ==
  CASE p[n] = "drop" -> c
    [] p[n] = "squash" -> [c EXCEPT ![Len(c)] = @ \cup {n}]
    [] OTHER -> Append(c, {n})

(* What the finished plan looks like: the reference the steps are held to. *)
Upto(p) ==
  LET c[n \in 0..Len(p)] == IF n = 0 THEN Onto ELSE WithEntry(p, c[n - 1], n)
  IN c
Complete == Upto(plan)[Len(plan)]

Init ==
  /\ plan \in {p \in Plans : ValidPlan(p)}
  /\ head = "branch" /\ at = Onto /\ branch = OldTip /\ other = Elsewhere
  /\ pick = NoPick /\ conflict = FALSE
  /\ file = NoRebase
  /\ fallback = [w \in Workers |-> NoRebase]
  /\ forgotten = [w \in Workers |-> NoRebase]
  /\ job = [w \in Workers |-> NoJob]
  /\ faults = 0 /\ user = 0 /\ crashes = 0
  /\ excused = FALSE /\ uncleared = FALSE

-----------------------------------------------------------------------------
(* What the program reads *)

(* A deviation: the session's own copy, kept when a save failed, is not read. *)
Stored_FileOnly(w) == IF file = forgotten[w] THEN NoRebase ELSE file

Stored(w) ==
  IF fallback[w] # NoRebase THEN fallback[w]
  ELSE IF file = forgotten[w] THEN NoRebase ELSE file

NextKept(i) == {j \in Kept(plan) : j > i /\ \A k \in Kept(plan) : k > i => j <= k}
StartsGroup(i) == \E j \in NextKept(i) : plan[j] = "squash"

EndsGroup(i) == plan[i] = "squash" /\ ~StartsGroup(i)

AtExpected(st) == head = "detached" /\ at = st.expected
OwnPick(st) == pick # NoPick /\ pick = st.cursor

ByHand(st) ==
  /\ st.cursor \in DOMAIN plan /\ plan[st.cursor] # "drop"
  /\ st.stop # "error"
  /\ pick = NoPick /\ head = "detached"
  /\ at = Append(st.expected, {st.cursor})

Resume(st) ==
  IF st.cursor > Len(plan) THEN IF pick = NoPick /\ AtExpected(st) THEN "finish" ELSE "refuse"
  ELSE IF pick # NoPick THEN IF OwnPick(st) /\ AtExpected(st) THEN "land" ELSE "refuse"
  ELSE IF AtExpected(st) THEN "next" ELSE IF ByHand(st) THEN "adopt" ELSE "refuse"

(* A deviation: the branch's own tip is not looked at. *)
Health_BranchUnseen(st) ==
  IF pick # NoPick /\ ~OwnPick(st) THEN "other operation"
  ELSE IF AtExpected(st) \/ ByHand(st) THEN "paused" ELSE "head moved"

Health(st) ==
  IF branch = NoCommit THEN "branch missing"
  ELSE IF branch # OldTip THEN "branch moved"
  ELSE IF pick # NoPick /\ ~OwnPick(st) THEN "other operation"
  ELSE IF AtExpected(st) \/ ByHand(st) THEN "paused" ELSE "head moved"

-----------------------------------------------------------------------------
(* Jobs *)

At(w, pc) == job[w].pc = pc
Others(w) == Workers \ {w}

(* The state lock, and where a wait for it runs out. *)
MayWork(w) ==
  \A v \in Others(w) :
    job[v].pc = "idle" \/ (Contended /\ job[v].pc = "commit")

PassesOver(w) == excused' = (excused \/ \E v \in Others(w) : fallback[v] # NoRebase)
Goto(w, pc) == job' = [job EXCEPT ![w].pc = pc]
GotoWith(w, pc, st) == job' = [job EXCEPT ![w].pc = pc, ![w].st = st]
Stop(w) == job' = [job EXCEPT ![w] = NoJob]
Works == UNCHANGED faults
Fails(call) == call \in Failing /\ faults < MaxFaults /\ faults' = faults + 1

(* An error: Start rolls back, Continue keeps what it got to, Abort ends. *)
Failed(w, st) ==
  job' = CASE job[w].mode = "start" ->
                [job EXCEPT ![w].pc = "restore", ![w].mode = "roll back", ![w].st = st]
           [] job[w].mode = "continue" -> [job EXCEPT ![w].pc = "failed", ![w].st = st]
           [] OTHER -> [job EXCEPT ![w] = NoJob]

MoveHead(c) ==
  /\ at' = IF head = "detached" THEN c ELSE at
  /\ branch' = IF head = "branch" THEN c ELSE branch
  /\ other' = IF head = "other" THEN c ELSE other
  /\ UNCHANGED head

Start(w) ==
  /\ At(w, "idle") /\ Stored(w) = NoRebase
  /\ pick = NoPick /\ ~conflict /\ head = "branch" /\ branch = OldTip
  /\ job' = [job EXCEPT ![w].pc = "detach", ![w].mode = "start"]
  /\ excused' = ((excused /\ (file # NoRebase \/ \E v \in Others(w) : job[v] # NoJob))
                   \/ \E v \in Others(w) : fallback[v] # NoRebase)
  /\ UNCHANGED <<plan, gitVars, storeVars, faults, user, crashes, uncleared>>

Continue(w) ==
  /\ At(w, "idle") /\ Stored(w) # NoRebase /\ Resume(Stored(w)) # "refuse"
  /\ uncleared => Len(HeadCommit) < Len(plan)     \* bound: no step lands again and again
  /\ job' = [job EXCEPT ![w] = [NoJob EXCEPT
       !.pc = Resume(Stored(w)), !.mode = "continue", !.st = Stored(w), !.loaded = Stored(w)]]
  /\ PassesOver(w)
  /\ UNCHANGED <<plan, gitVars, storeVars, faults, user, crashes, uncleared>>

Abort(w) ==
  /\ At(w, "idle") /\ Stored(w) # NoRebase
  /\ job' = [job EXCEPT ![w].pc = "abort", ![w].mode = "abort", ![w].st = Stored(w)]
  /\ PassesOver(w)
  /\ UNCHANGED <<plan, gitVars, storeVars, faults, user, crashes, uncleared>>

(* The tree of Onto is checked out first; a refused checkout is rolled back. *)
Detach(w) ==
  /\ At(w, "detach")
  /\ \/ /\ Works /\ head' = "detached" /\ at' = Onto
        /\ GotoWith(w, "next", [cursor |-> 1, group |-> NoCommit, expected |-> Onto,
                                stop |-> "error"])
     \/ Fails("write") /\ Stop(w) /\ UNCHANGED <<head, at>>
  /\ UNCHANGED <<plan, branch, other, pick, conflict, storeVars, outside>>

Paused(w, st) == job' = [job EXCEPT ![w].pc = "keep", ![w].st = st, ![w].ok = TRUE]

GroupOf(st) ==
  IF st.group = NoCommit /\ StartsGroup(st.cursor) THEN HeadCommit ELSE st.group

Advance(w) ==
  LET st == job[w].st
      grouped == [st EXCEPT !.group = GroupOf(st)]
  IN /\ At(w, "next")
     /\ \/ /\ st.cursor > Len(plan) /\ Goto(w, "finish") /\ Works
           /\ UNCHANGED <<pick, conflict>>
        \/ /\ st.cursor <= Len(plan) /\ plan[st.cursor] = "drop" /\ Works
           /\ GotoWith(w, "next", [st EXCEPT !.cursor = @ + 1])
           /\ UNCHANGED <<pick, conflict>>
        \/ /\ st.cursor <= Len(plan) /\ plan[st.cursor] # "drop"
           /\ \/ /\ Fails("write") /\ Failed(w, grouped) /\ UNCHANGED <<pick, conflict>>
              \/ /\ Works /\ pick' = st.cursor /\ conflict' = TRUE
                 /\ Paused(w, [grouped EXCEPT !.stop = "conflict"])
              \/ /\ Works /\ pick' = st.cursor /\ conflict' = FALSE
                 /\ IF plan[st.cursor] = "edit"
                    THEN Paused(w, [grouped EXCEPT !.stop = "edit"])
                    ELSE GotoWith(w, "land", grouped)
     /\ UNCHANGED <<plan, head, at, branch, other, storeVars, outside>>

(* land_current_step up to the signer: the index becomes a tree, HEAD the parent. *)
Land(w) ==
  /\ At(w, "land") /\ Works
  /\ IF conflict THEN Failed(w, job[w].st)
     ELSE job' = [job EXCEPT ![w].pc = "commit", ![w].parent = HeadCommit]
  /\ UNCHANGED <<plan, gitVars, storeVars, outside>>

(* A deviation: HEAD is moved without being compared. *)
Swaps_Blindly(w) == TRUE

Swaps(w) == HeadCommit = job[w].parent

Commit(w) ==
  LET st == job[w].st
      new == Append(job[w].parent, {st.cursor})
  IN /\ At(w, "commit")
     /\ \/ /\ Works /\ Swaps(w) /\ MoveHead(new)
           /\ GotoWith(w, "landed", [st EXCEPT !.expected = new])
        \/ /\ Works /\ ~Swaps(w) /\ Failed(w, st) /\ UNCHANGED <<head, at, branch, other>>
        \/ /\ Fails("sign") /\ Failed(w, st) /\ UNCHANGED <<head, at, branch, other>>
     /\ UNCHANGED <<plan, pick, conflict, storeVars, outside>>

(* A step committed by hand; one that is to be reworded is committed anew. *)
Adopt(w) ==
  LET st == job[w].st
  IN /\ At(w, "adopt")
     /\ \/ Works /\ GotoWith(w, "landed", [st EXCEPT !.expected = HeadCommit])
        \/ Fails("sign") /\ Failed(w, st)
     /\ UNCHANGED <<plan, gitVars, storeVars, outside>>

(* The group's commits since group_start_parent become one. *)
Collapsed(st) ==
  Append(st.group, UNION {HeadCommit[i] : i \in (Len(st.group) + 1)..Len(HeadCommit)})

AfterLanded(w) ==
  LET st == job[w].st
  IN /\ At(w, "landed")
     /\ \/ /\ ~EndsGroup(st.cursor) /\ Works
           /\ GotoWith(w, "clear", [st EXCEPT !.expected = HeadCommit])
           /\ UNCHANGED <<head, at>>
        \/ /\ EndsGroup(st.cursor) /\ st.group # NoCommit /\ Works
           /\ head' = "detached" /\ at' = Collapsed(st)
           /\ GotoWith(w, "clear", [st EXCEPT !.expected = Collapsed(st), !.group = NoCommit])
        \/ /\ EndsGroup(st.cursor) /\ st.group = NoCommit /\ Works /\ Failed(w, st)
           /\ UNCHANGED <<head, at>>
        \/ /\ EndsGroup(st.cursor) /\ Fails("sign") /\ Failed(w, st) /\ UNCHANGED <<head, at>>
     /\ UNCHANGED <<plan, branch, other, pick, conflict, storeVars, outside>>

ClearStep(w) ==
  LET st == job[w].st
  IN /\ At(w, "clear")
     /\ \/ Works /\ pick' = NoPick /\ GotoWith(w, "next", [st EXCEPT !.cursor = @ + 1])
        \/ /\ "clear" \in Failing /\ faults = 0 /\ 0 < MaxFaults
           /\ faults' = MaxFaults                      \* bound: it fails alone
           /\ pick' \in {pick, NoPick} /\ Failed(w, st)
     /\ uncleared' = (uncleared \/ faults' # faults)
     /\ UNCHANGED <<plan, head, at, branch, other, conflict, storeVars, user, crashes, excused>>

Finish(w) ==
  /\ At(w, "finish")
  /\ \/ branch = OldTip /\ Works /\ branch' = HeadCommit /\ Goto(w, "attach")
     \/ branch # OldTip /\ Works /\ Failed(w, job[w].st) /\ UNCHANGED branch
     \/ branch = OldTip /\ Fails("write") /\ Failed(w, job[w].st) /\ UNCHANGED branch
  /\ UNCHANGED <<plan, head, at, other, pick, conflict, storeVars, outside>>

(* A roll back is done at best: its own failure is not reported. *)
RollBackMayFail(w) ==
  excused' = (excused \/ /\ job[w].mode = "roll back" /\ job'[w].pc = "idle"
                         /\ job[w].pc # "clean" \/ faults' # faults)

(* HEAD back on the branch: the end of a rebase, of its abort and of a roll back. *)
Attach(w) ==
  /\ At(w, "attach")
  /\ \/ branch # NoCommit /\ Works /\ head' = "branch" /\ Goto(w, "clean")
     \/ branch # NoCommit /\ Fails("write") /\ Failed(w, job[w].st) /\ UNCHANGED head
     \/ branch = NoCommit /\ Works /\ Failed(w, job[w].st) /\ UNCHANGED head
  /\ RollBackMayFail(w)
  /\ UNCHANGED <<plan, at, branch, other, pick, conflict, storeVars, user, crashes, uncleared>>

Clean(w) ==
  /\ At(w, "clean")
  /\ \/ /\ Works /\ pick' = NoPick
        /\ IF job[w].mode = "roll back" THEN Stop(w) ELSE Goto(w, "forget")
     \/ Fails("write") /\ pick' \in {pick, NoPick} /\ Failed(w, job[w].st)
  /\ RollBackMayFail(w)
  /\ UNCHANGED <<plan, head, at, branch, other, conflict, storeVars, user, crashes, uncleared>>

(* restore_original_branch: the work tree and the index first, HEAD after them. *)
Restore(w) ==
  /\ At(w, "restore")
  /\ \/ branch # NoCommit /\ Works /\ conflict' = FALSE /\ Goto(w, "attach")
     \/ branch # NoCommit /\ Fails("write") /\ Failed(w, job[w].st) /\ UNCHANGED conflict
     \/ branch = NoCommit /\ Works /\ Failed(w, job[w].st) /\ UNCHANGED conflict
  /\ RollBackMayFail(w)
  /\ UNCHANGED <<plan, head, at, branch, other, pick, storeVars, user, crashes, uncleared>>

(* The rebase still owns HEAD: Abort goes back to the branch. *)
Owned(st) ==
  /\ AtExpected(st) \/ ByHand(st)
  /\ branch = OldTip
  /\ pick = NoPick \/ OwnPick(st)

AbortRebase(w) ==
  LET st == job[w].st
      undone == AtExpected(st) /\ (OwnPick(st) \/ (pick = NoPick /\ conflict))
      unmarked == ~AtExpected(st) /\ OwnPick(st)
  IN /\ At(w, "abort")
     /\ \/ Owned(st) /\ Works /\ Goto(w, "restore") /\ UNCHANGED <<pick, conflict>>
        \/ /\ ~Owned(st) /\ Works /\ Goto(w, "forget")
           /\ pick' = IF undone \/ unmarked THEN NoPick ELSE pick
           /\ conflict' = IF undone THEN FALSE ELSE conflict
        \/ /\ ~Owned(st) /\ (undone \/ unmarked)
           /\ Fails("write") /\ Stop(w) /\ UNCHANGED <<pick, conflict>>
     /\ UNCHANGED <<plan, head, at, branch, other, storeVars, outside>>

-----------------------------------------------------------------------------
(* What is kept *)

(* A deviation: every error stop forgets that the step is applied. *)
StopOf_AlwaysError(st) == "error"

(* The stop after a failed Continue. *)
StopOf(st) ==
  IF OwnPick(st) THEN IF st.stop = "error" THEN "conflict" ELSE st.stop
  ELSE IF ByHand(st) THEN st.stop ELSE "error"

ContinueFailed(w) ==
  /\ At(w, "failed") /\ Works
  /\ GotoWith(w, "keep", [job[w].st EXCEPT !.stop = StopOf(job[w].st)])
  /\ UNCHANGED <<plan, gitVars, storeVars, outside>>

(* A deviation: a Continue that lost HEAD to another writer saves its copy. *)
LeavesFile_UnlessSame(w) ==
  job[w].mode = "continue" /\ job[w].st = job[w].loaded

(* A refusal, or an error after which HEAD is not where this copy expects it. *)
LeavesFile(w) ==
  /\ job[w].mode = "continue"
  /\ \/ job[w].st = job[w].loaded
     \/ ~job[w].ok /\ HeadCommit # job[w].st.expected

Leave(w) ==
  /\ At(w, "keep") /\ LeavesFile(w) /\ Works /\ Stop(w)
  /\ UNCHANGED <<plan, gitVars, storeVars, outside>>

Save(w) ==
  /\ At(w, "keep") /\ ~LeavesFile(w)
  /\ Stop(w)
  /\ \/ /\ Works /\ file' = job[w].st
        /\ fallback' = [fallback EXCEPT ![w] = NoRebase]
        /\ forgotten' = [forgotten EXCEPT ![w] = NoRebase]
        /\ UNCHANGED excused
     \/ /\ Fails("store") /\ fallback' = [fallback EXCEPT ![w] = job[w].st]
        /\ excused' = (excused \/ \E v \in Others(w) : job[v] # NoJob)
        /\ UNCHANGED <<file, forgotten>>
  /\ UNCHANGED <<plan, gitVars, user, crashes, uncleared>>

Forget(w) ==
  /\ At(w, "forget")
  /\ Stop(w)
  /\ fallback' = [fallback EXCEPT ![w] = NoRebase]
  /\ \/ /\ Works /\ file' = NoRebase
        /\ forgotten' = [forgotten EXCEPT ![w] = NoRebase]
     \/ /\ Fails("store") /\ UNCHANGED file
        /\ forgotten' = [forgotten EXCEPT ![w] = file]
  /\ UNCHANGED <<plan, gitVars, outside>>

(* The worker dies, or the window is closed and opened again. *)
Crash(w) ==
  /\ crashes < MaxCrashes /\ crashes' = crashes + 1
  /\ job' = [job EXCEPT ![w] = NoJob]
  /\ fallback' = [fallback EXCEPT ![w] = NoRebase]
  /\ forgotten' = [forgotten EXCEPT ![w] = NoRebase]
  /\ excused' = (excused \/ job[w].pc # "idle" \/ fallback[w] # NoRebase)
  /\ UNCHANGED <<plan, gitVars, file, faults, user, uncleared>>

-----------------------------------------------------------------------------
(* The user, in an editor or a terminal: between jobs, or while a signer waits for them *)

Idle == \A w \in Workers : job[w].pc = "idle"
Quiet == \A w \in Workers : job[w].pc \in {"idle", "commit"}

Resolve ==
  /\ Quiet /\ conflict /\ conflict' = FALSE
  /\ UNCHANGED <<plan, head, at, branch, other, pick, storeVars, job, faults, outside>>

(* git cherry-pick --continue, or git commit. *)
CommitByHand ==
  /\ Quiet /\ pick > 0 /\ ~conflict
  /\ user < MaxUser /\ user' = user + 1
  /\ MoveHead(Append(HeadCommit, IF head = "detached" THEN {pick} ELSE {}))
  /\ pick' = NoPick
  /\ excused' = (excused \/ head # "detached" \/ ~Idle)
  /\ UNCHANGED <<plan, conflict, storeVars, job, faults, crashes, uncleared>>

(* git cherry-pick --abort. *)
SkipByHand ==
  /\ Quiet /\ pick # NoPick /\ user < MaxUser /\ user' = user + 1
  /\ pick' = NoPick /\ conflict' = FALSE
  /\ excused' = (excused \/ ~Idle)
  /\ UNCHANGED <<plan, head, at, branch, other, storeVars, job, faults, crashes, uncleared>>

(* What the program does not expect: HEAD or the branch moves, another operation starts. *)
Diverge ==
  /\ Quiet /\ user < MaxUser /\ user' = user + 1 /\ excused' = TRUE
  /\ \/ /\ ~conflict /\ head' \in {"other", "branch"} /\ head' # head
        /\ head' = "branch" => branch # NoCommit
        /\ pick' \in {pick, NoPick}
        /\ UNCHANGED <<at, branch, other, conflict>>
     \/ /\ pick = NoPick /\ ~conflict /\ MoveHead(Append(HeadCommit, {}))
        /\ UNCHANGED <<pick, conflict>>
     \/ /\ pick = NoPick /\ ~conflict /\ pick' = Foreign
        /\ UNCHANGED <<head, at, branch, other, conflict>>
     \/ /\ head # "branch" /\ branch # NoCommit
        /\ branch' \in {Append(branch, {}), NoCommit}
        /\ UNCHANGED <<head, at, other, pick, conflict>>
  /\ UNCHANGED <<plan, storeVars, job, faults, crashes, uncleared>>

Step(w) ==
  \/ Detach(w) \/ Advance(w) \/ Land(w) \/ Commit(w) \/ Adopt(w) \/ AfterLanded(w)
  \/ ClearStep(w) \/ Finish(w) \/ Attach(w) \/ Clean(w) \/ Restore(w)
  \/ AbortRebase(w) \/ ContinueFailed(w) \/ Leave(w) \/ Save(w) \/ Forget(w)

Terminal == Resolve \/ CommitByHand \/ SkipByHand \/ Diverge

Next ==
  \/ \E w \in Workers : MayWork(w) /\ (Start(w) \/ Continue(w) \/ Abort(w) \/ Step(w))
  \/ \E w \in Workers : Crash(w)
  \/ Terminal

Spec == Init /\ [][Next]_vars
=============================================================================
