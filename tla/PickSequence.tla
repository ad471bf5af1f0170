----------------------------- MODULE PickSequence -----------------------------
(***************************************************************************)
(* A sequence of cherry-picks or reverts: git-core/pick.rs and             *)
(* worker/history.rs, with sequence.json, the files in which git keeps a   *)
(* paused pick, and the list a `git cherry-pick A B` in a terminal leaves  *)
(* in .git/sequencer.                                                      *)
(*                                                                         *)
(* HEAD is the sequence of what was committed since the repository was     *)
(* opened: i for step i of the sequence, Own for a commit of the user's,   *)
(* Listed for a pick of a terminal list.  One worker runs one command at a *)
(* time, one step per call that may fail, be cancelled or be overtaken by  *)
(* a terminal, which acts between commands and while a hook runs.          *)
(***************************************************************************)
EXTENDS Integers, Sequences

CONSTANTS
  Steps,        \* how many commits the user selected
  MaxFaults,    \* bound: calls that fail
  MaxUser,      \* bound: actions in a terminal
  MaxStops,     \* bound: hooks that fail, and cancels
  MaxCrashes    \* bound: workers that die

ASSUME StepsAssumption == Steps \in Nat \ {0}

VARIABLES
  head, ref, away,      \* HEAD's commit, the branch it is on, the tip of the other one
  op,                   \* the paused pick (CHERRY_PICK_HEAD, REVERT_HEAD), if any
  list,                 \* .git/sequencer
  index,                \* "clean" as HEAD, "staged", "conflict"
  file,                 \* sequence.json
  confirmed,            \* what the Abort dialog of a terminal list has shown
  job,                  \* what the worker is doing
  faults, user, stops, crashes,
  disturbed     \* ghost: HEAD or the paused operation is not as the sequence left it

git == <<head, ref, away, op, list, index>>
bounds == <<user, crashes>>
vars == <<git, file, confirmed, job, faults, bounds, stops, disturbed>>

Own == 0
Listed == -1
NoOp == 0                \* no operation is paused
ListOp == -1             \* the paused pick of a terminal list

NoList == [left |-> 0, start |-> << >>, safety |-> << >>]
NoSequence == [next |-> 0, expected |-> << >>, original |-> << >>, ref |-> "own",
               conflict |-> FALSE]
NotConfirmed == [head |-> << >>, start |-> <<Listed>>, rewinds |-> FALSE, paused |-> FALSE]
NoJob == [pc |-> "idle", mode |-> "none", st |-> NoSequence, parent |-> << >>,
          resumed |-> FALSE, cancelled |-> FALSE]

Init ==
  /\ head = << >> /\ ref = "own" /\ away = << >>
  /\ op = NoOp /\ list = NoList /\ index = "clean"
  /\ file = NoSequence /\ confirmed = NotConfirmed /\ job = NoJob
  /\ faults = 0 /\ user = 0 /\ stops = 0 /\ crashes = 0
  /\ disturbed = FALSE

-----------------------------------------------------------------------------
(* What the program reads *)

(* A deviation: only a conflict is looked at, not the step the paused pick names. *)
Leftover_AnyPick(st) == ~st.conflict /\ op > 0 /\ head = st.expected

(* The commit of the step before landed, and only its files are left. *)
Leftover(st) == ~st.conflict /\ op # NoOp /\ op = st.next - 1 /\ head = st.expected

OwnPaused(st) == op # NoOp /\ op = st.next

ByHand(st) == st.conflict /\ head = Append(st.expected, st.next)

Ready == op = NoOp /\ list = NoList /\ index = "clean"

(* A deviation: a step that stopped is retried wherever HEAD is. *)
Resume_Anywhere(st) ==
  CASE list = NoList /\ Leftover(st) -> "clear leftover"
    [] list = NoList /\ OwnPaused(st) /\ index # "conflict" -> "finish"
    [] Ready -> "retry"
    [] OTHER -> "refuse"

Resume(st) ==
  CASE list = NoList /\ Leftover(st) -> "clear leftover"
    [] list = NoList /\ OwnPaused(st) /\ index # "conflict" /\ head = st.expected -> "finish"
    [] Ready /\ head = st.expected -> "retry"
    [] Ready /\ head # st.expected /\ ByHand(st) -> "adopt"
    [] OTHER -> "refuse"

Rewinds == list.safety = head /\ list.start # head
Shown == [head |-> head, start |-> list.start, rewinds |-> Rewinds, paused |-> op = ListOp]

SameRef(st) == ref = st.ref \/ (head = st.expected /\ st.ref = "own" /\ ref = "renamed")

-----------------------------------------------------------------------------
(* The files of a paused operation *)

At(pc) == job.pc = pc
Goto(pc) == job' = [job EXCEPT !.pc = pc]
GotoWith(pc, st) == job' = [job EXCEPT !.pc = pc, !.st = st]
Works == UNCHANGED faults
Fails == faults < MaxFaults /\ faults' = faults + 1
Stops == stops < MaxStops /\ stops' = stops + 1

(* A deviation: git's list goes with every pick. *)
ClearState_DropsList == op' = NoOp /\ list' = NoList

(* clear_commit_state: a terminal's list ends with its last pick only. *)
ClearState ==
  /\ op' = NoOp
  /\ list' = IF op # NoOp /\ list.left = 1 THEN NoList ELSE list

StateStays == UNCHANGED <<op, list>>

-----------------------------------------------------------------------------
(* Running the steps *)

(* run: an error that changed nothing leaves no sequence. *)
Untouched(st) == st.next = 1 /\ st.expected = st.original /\ op' = NoOp

(* A step failed: the sequence stops before it. *)
Stopped(st) ==
  job' = [job EXCEPT !.pc = "keep",
            !.st = IF Untouched(st) THEN NoSequence ELSE [st EXCEPT !.conflict = FALSE]]

Paused(st) == job' = [job EXCEPT !.pc = "keep", !.st = [st EXCEPT !.conflict = TRUE]]

(* A paused step that Continue was to commit stays as it was. *)
StepFailed(st) == IF job.resumed THEN GotoWith("keep", st) ELSE Stopped(st)

Skip(st) == GotoWith("step", [st EXCEPT !.next = @ + 1])

Start ==
  /\ At("idle") /\ file = NoSequence /\ Ready
  /\ \A i \in 1..Len(head) : head[i] \notin 1..Steps      \* bound: these are new commits
  /\ job' = [NoJob EXCEPT !.pc = "step", !.mode = "run",
               !.st = [next |-> 1, expected |-> head, original |-> head, ref |-> ref,
                       conflict |-> FALSE]]
  /\ disturbed' = FALSE
  /\ UNCHANGED <<git, file, confirmed, faults, bounds, stops>>

Continue ==
  /\ At("idle") /\ file # NoSequence /\ Resume(file) # "refuse"
  /\ job' = [NoJob EXCEPT !.pc = Resume(file), !.mode = "run", !.st = file]
  /\ UNCHANGED <<git, file, confirmed, faults, bounds, stops, disturbed>>

ClearLeftover ==
  /\ At("clear leftover")
  /\ \/ Works /\ ClearState /\ Goto("retry")
     \/ Fails /\ StateStays /\ GotoWith("keep", job.st)
  /\ UNCHANGED <<head, ref, away, index, file, confirmed, bounds, stops, disturbed>>

(* resume_clean: check_ready is done anew after a leftover was cleared. *)
ResumeClean ==
  /\ At("retry") \/ At("adopt")
  /\ IF ~Ready THEN GotoWith("keep", job.st)
     ELSE IF At("retry") THEN Goto("step") ELSE Skip(job.st)
  /\ UNCHANGED <<git, file, confirmed, faults, bounds, stops, disturbed>>

(* finish_paused up to its first hook: a resolution that leaves nothing is skipped. *)
FinishPaused ==
  /\ At("finish")
  /\ \/ /\ index = "staged" /\ Works /\ StateStays
        /\ job' = [job EXCEPT !.pc = "hook", !.parent = head, !.resumed = TRUE]
     \/ index = "clean" /\ Works /\ ClearState /\ Skip(job.st)
     \/ index = "clean" /\ Fails /\ StateStays /\ GotoWith("keep", job.st)
  /\ UNCHANGED <<head, ref, away, index, file, confirmed, bounds, stops, disturbed>>

(* A deviation: the sequence keeps the HEAD it was continued at. *)
AtHead_Stale(st) == st

(* run: each step, and a cancel before it, remembers the HEAD it starts from. *)
AtHead(st) == [st EXCEPT !.expected = head]

(* run: the next step is applied to the work tree and the index. *)
Apply ==
  LET st == AtHead(job.st)
  IN /\ At("step") /\ st.next <= Steps /\ ~job.cancelled
     /\ UNCHANGED <<head, ref, away, file, confirmed, bounds, stops, disturbed>>
     /\ \/ /\ Fails /\ UNCHANGED index        \* the checkout stopped and was rolled back
           /\ ClearState \/ (op' = st.next /\ UNCHANGED list)
           /\ Stopped(st)
        \/ /\ Works /\ op' = st.next /\ index' = "conflict" /\ UNCHANGED list
           /\ Paused(st)
        \/ /\ Works /\ op' = st.next /\ index' = "staged" /\ UNCHANGED list
           /\ job' = [job EXCEPT !.pc = "hook", !.st = st, !.parent = head, !.resumed = FALSE]
        \/ /\ Works /\ UNCHANGED index        \* it changes nothing
           /\ ClearState
           /\ Skip(st)
        \/ /\ Fails /\ UNCHANGED <<index, list>> /\ op' = st.next
           /\ Stopped(st)

Cancelled == job.st.next <= Steps /\ job.cancelled

(* The end of the steps, and a cancel during a step's post-commit. *)
EndOfSteps ==
  /\ At("step")
  /\ \/ job.st.next > Steps /\ GotoWith("keep", NoSequence)
     \/ Cancelled /\ GotoWith("keep", [AtHead(job.st) EXCEPT !.conflict = FALSE])
  /\ UNCHANGED <<git, file, confirmed, faults, bounds, stops, disturbed>>

(* prepare-commit-msg, and before a resumed step's commit pre-commit and commit-msg. *)
Hook ==
  LET st == job.st
  IN /\ At("hook") /\ Works
     /\ UNCHANGED <<head, ref, away, file, confirmed, bounds, disturbed>>
     /\ \/ Goto("commit") /\ StateStays /\ UNCHANGED <<index, stops>>
        \/ /\ Stops /\ StateStays /\ UNCHANGED index              \* it fails
           /\ IF job.resumed THEN GotoWith("keep", st) ELSE Paused(st)
        \/ /\ Stops /\ StateStays /\ UNCHANGED index              \* it is cancelled
           /\ IF job.resumed \/ op = NoOp THEN StepFailed(st) ELSE Paused(st)
        \/ /\ Stops /\ job.resumed /\ head = job.parent           \* it empties the step
           /\ index' = "clean" /\ ClearState /\ Skip(st)

Swaps == head = job.parent

Commit ==
  /\ At("commit")
  /\ UNCHANGED <<ref, away, op, list, file, confirmed, bounds, stops, disturbed>>
  /\ \/ /\ Works /\ Swaps
        /\ head' = Append(job.parent, job.st.next) /\ index' = "clean" /\ Goto("landed")
     \/ Works /\ ~Swaps /\ UNCHANGED <<head, index>> /\ StepFailed(job.st)
     \/ Fails /\ UNCHANGED <<head, index>> /\ StepFailed(job.st)        \* the signer

(* post-commit, where a cancel stops the sequence behind this step, and the clean-up. *)
Landed ==
  /\ At("landed")
  /\ (Works /\ ClearState) \/ (Fails /\ StateStays)
  /\ UNCHANGED stops \/ Stops
  /\ job' = [job EXCEPT !.pc = "step", !.st.next = @ + 1,
                        !.cancelled = job.cancelled \/ stops' # stops]
  /\ UNCHANGED <<head, ref, away, index, file, confirmed, bounds, disturbed>>

(* persist: a sequence that is over needs no file, one that could not be saved is lost. *)
Keep ==
  /\ At("keep") /\ job' = NoJob
  /\ (Works /\ file' = job.st) \/ (Fails /\ UNCHANGED file)
  /\ disturbed' = (disturbed \/ file' # job.st)
  /\ UNCHANGED <<git, confirmed, bounds, stops>>

-----------------------------------------------------------------------------
(* Aborting *)

(* A deviation: a leftover is not told from an operation of someone else's. *)
FirstOfAbort_OwnOnly(st) == IF OwnPaused(st) THEN "reset" ELSE "rewind"

(* What Abort of a stored sequence has to take back before it may move HEAD. *)
FirstOfAbort(st) ==
  CASE OwnPaused(st) \/ (op = NoOp /\ head = st.expected /\ index = "conflict") -> "reset"
    [] Leftover(st) -> "unmark"
    [] OTHER -> "rewind"

AbortSequence ==
  /\ At("idle") /\ file # NoSequence
  /\ job' = [NoJob EXCEPT !.pc = FirstOfAbort(file), !.mode = "abort", !.st = file]
  /\ UNCHANGED <<git, file, confirmed, faults, bounds, stops, disturbed>>

(* Abort without a stored sequence; a terminal's list is left to AbortTerminal. *)
AbortMerge ==
  /\ At("idle") /\ file = NoSequence /\ list = NoList
  /\ op # NoOp \/ index = "conflict"
  /\ job' = [NoJob EXCEPT !.pc = "reset", !.mode = "abort step"]
  /\ UNCHANGED <<git, file, confirmed, faults, bounds, stops, disturbed>>

Show ==
  /\ At("idle") /\ list # NoList /\ confirmed' = Shown
  /\ UNCHANGED <<git, file, job, faults, bounds, stops, disturbed>>

StillConfirmed == confirmed = Shown

AbortTerminal ==
  /\ At("idle") /\ file = NoSequence /\ list # NoList /\ op \in {NoOp, ListOp}
  /\ StillConfirmed
  /\ job' = [NoJob EXCEPT !.mode = "abort list",
               !.pc = IF op # NoOp \/ index = "conflict" THEN "reset" ELSE "rewind"]
  /\ UNCHANGED <<git, file, confirmed, faults, bounds, stops, disturbed>>

(* The paths the step touched go back to HEAD; an incomplete reset is tried again. *)
Reset ==
  /\ At("reset")
  /\ \/ Works /\ index' = "clean" /\ Goto("unmark")
     \/ Fails /\ UNCHANGED index /\ job' = NoJob
  /\ UNCHANGED <<head, ref, away, op, list, file, confirmed, bounds, stops, disturbed>>

Unmark ==
  /\ At("unmark")
  /\ \/ /\ Works
        /\ IF job.mode = "abort list" \/ (job.mode = "abort" /\ Leftover(job.st)) THEN op' = NoOp /\ UNCHANGED list
           ELSE ClearState
        /\ IF job.mode = "abort step" THEN job' = NoJob ELSE Goto("rewind")
     \/ Fails /\ StateStays /\ job' = NoJob
  /\ UNCHANGED <<head, ref, away, index, file, confirmed, bounds, stops, disturbed>>

(* A deviation: a sequence goes back to its start whatever HEAD is on. *)
Target_AnyRef ==
  IF job.mode = "abort list" THEN IF Rewinds THEN list.start ELSE head
  ELSE IF op = NoOp /\ head = job.st.expected THEN job.st.original ELSE head

(* Where HEAD goes: back to the start, unless someone else has moved it. *)
Target ==
  IF job.mode = "abort list" THEN IF Rewinds THEN list.start ELSE head
  ELSE IF op = NoOp /\ SameRef(job.st) /\ head = job.st.expected THEN job.st.original ELSE head

Rewind ==
  /\ At("rewind")
  /\ \/ Works /\ head' = Target /\ Goto("forget")
     \/ Target # head /\ Fails /\ UNCHANGED head /\ job' = NoJob
  /\ UNCHANGED <<ref, away, op, list, index, file, confirmed, bounds, stops, disturbed>>

Forget ==
  /\ At("forget") /\ job' = NoJob
  /\ \/ /\ Works
        /\ IF job.mode = "abort list" THEN list' = NoList /\ UNCHANGED file
           ELSE file' = NoSequence /\ UNCHANGED list
     \/ Fails /\ UNCHANGED <<list, file>>
  /\ UNCHANGED <<head, ref, away, op, index, confirmed, bounds, stops, disturbed>>

Crash ==
  /\ crashes < MaxCrashes /\ crashes' = crashes + 1
  /\ ~At("idle") /\ job' = NoJob /\ disturbed' = TRUE
  /\ UNCHANGED <<git, file, confirmed, faults, user, stops>>

-----------------------------------------------------------------------------
(* The user, in a terminal *)

Acts == user < MaxUser /\ user' = user + 1

Resolve ==
  /\ At("idle") /\ index = "conflict" /\ index' \in {"staged", "clean"}
  /\ UNCHANGED <<head, ref, away, op, list, file, confirmed, job, faults, bounds, stops,
                 disturbed>>

(* git commit, or git cherry-pick --continue of a single pick. *)
CommitByHand ==
  /\ At("idle") \/ At("hook")
  /\ Acts
  /\ index = "staged" /\ op # NoOp
  /\ head' = Append(head, IF op = ListOp THEN Listed ELSE op)
  /\ index' = "clean" /\ ClearState
  /\ disturbed' = (disturbed \/ ~At("idle") \/ ~OwnPaused(file) \/ ~file.conflict
                   \/ ref # file.ref)
  /\ UNCHANGED <<ref, away, file, confirmed, job, faults, stops, crashes>>

(* git cherry-pick --abort or --skip of a paused pick. *)
SkipByHand ==
  /\ At("idle") /\ Acts /\ op # NoOp /\ list = NoList
  /\ op' = NoOp /\ index' = "clean"
  /\ UNCHANGED <<head, ref, away, list, file, confirmed, job, faults, stops, crashes, disturbed>>

(* git commit of something else; a pick whose files are left over is not concluded so. *)
CommitOwn ==
  /\ At("idle") \/ At("hook")
  /\ op = NoOp \/ At("hook")
  /\ Acts /\ index # "conflict" /\ Len(head) < 5     \* bound
  /\ head' = Append(head, Own) /\ disturbed' = TRUE
  /\ UNCHANGED <<ref, away, op, list, index, file, confirmed, job, faults, stops, crashes>>

(* git switch, to a branch at HEAD too (-c). *)
Switch ==
  /\ At("idle") /\ Acts /\ op = NoOp /\ index = "clean" /\ disturbed' = TRUE
  /\ away' = head
  /\ \/ ref = "own" /\ ref' = "other" /\ head' \in {away, head}
     \/ ref = "other" /\ ref' = "own" /\ head' = away
  /\ UNCHANGED <<op, list, index, file, confirmed, job, faults, stops, crashes>>

(* git branch -m *)
Rename ==
  /\ At("idle") /\ Acts /\ ref = "own" /\ ref' = "renamed"
  /\ UNCHANGED <<head, away, op, list, index, file, confirmed, job, faults, stops, crashes,
                 disturbed>>

(* git cherry-pick A B: the first stops on a conflict. *)
ListStart ==
  /\ At("idle") /\ Acts /\ Ready
  /\ list' = [left |-> 2, start |-> head, safety |-> head]
  /\ op' = ListOp /\ index' = "conflict"
  /\ disturbed' = TRUE
  /\ UNCHANGED <<head, ref, away, file, confirmed, job, faults, stops, crashes>>

(* git cherry-pick --continue: the first is committed, the second stops on a conflict. *)
ListContinue ==
  /\ At("idle") /\ Acts /\ op = ListOp /\ index = "staged" /\ list.left = 2
  /\ head' = Append(head, Listed)
  /\ list' = [list EXCEPT !.left = 1, !.safety = Append(head, Listed)]
  /\ index' = "conflict"
  /\ UNCHANGED <<ref, away, op, file, confirmed, job, faults, stops, crashes, disturbed>>

Terminal ==
  \/ Resolve \/ CommitByHand \/ SkipByHand \/ CommitOwn \/ Switch \/ Rename
  \/ ListStart \/ ListContinue

Step ==
  \/ ClearLeftover \/ ResumeClean \/ FinishPaused \/ Apply \/ EndOfSteps \/ Hook \/ Commit
  \/ Landed \/ Keep \/ Reset \/ Unmark \/ Rewind \/ Forget

Command == Start \/ Continue \/ AbortSequence \/ AbortMerge \/ Show \/ AbortTerminal

Next == Command \/ Step \/ Crash \/ Terminal

Spec == Init /\ [][Next]_vars
=============================================================================
