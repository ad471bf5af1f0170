---------------------------- MODULE UndoRecorder ----------------------------
(***************************************************************************)
(* The command loop of one repository's workers and the undo recorder      *)
(* around it.  Each worker is the thread of one process (the desktop app,  *)
(* the editor's sidecar) that has the repository open; the workers share   *)
(* the repository, the operation git or Browsitory has paused in it,       *)
(* undo.json and the advisory lock state.lock.                             *)
(*                                                                         *)
(* One command goes through the loop of worker/mod.rs:                     *)
(*   lock - settle - begin - gate - run - finish - drop the guard - reply  *)
(* and every step that another process can see is an action of its own.    *)
(* A worker can die between any two of them.                               *)
(*                                                                         *)
(* The repository is a function from Parts (HEAD, a branch, the index, the *)
(* work tree...) to values: undo checks and writes only the parts in which *)
(* the two snapshots of an entry differ.  Operation k is the k-th one that *)
(* was left paused; undo.json names it by its marker, MarkerOf[k].         *)
(***************************************************************************)
EXTENDS Naturals, Sequences

CONSTANTS
  Workers,      \* the processes that have the repository open
  NoHolder,     \* the lock is free
  Parts, Vals,  \* the repository's contents
  RetryParts,   \* the index and the work tree: restored first, and again
  Kinds,        \* the kinds of command the windows issue (a subset of AllKinds)
  MaxCmds,      \* bound: commands issued altogether
  MaxOps,       \* bound: operations left paused altogether
  StoredOps,    \* the operations kept in rebase.json / sequence.json
  Markers, MarkerOf,  \* the marker an operation has in undo.json
  UndoLimit,    \* UNDO_LIMIT
  LocksWork,    \* FALSE: the file system has no locks (Acquire::Unavailable)
  Env           \* what else can happen (a subset of AllEnv)

AllKinds == {"stage", "move", "discard", "reset", "hardReset", "start", "commit",
             "continue", "abort", "undo", "redo", "stash", "pop", "plain"}

AllEnv == {"timeout",      \* a holder outlasts another command's wait
           "crash",        \* a worker dies (a panic, the process is killed)
           "saveFails",    \* undo.json cannot be written
           "captureFails", \* a snapshot cannot be taken (a conflicted index)
           "restoreFails", \* restore stops with an error
           "sameTick",     \* two writes of undo.json carry the same mtime
           "newerBuild",   \* a newer build writes undo.json
           "edit",         \* the user edits once every window has replied
           "terminal"}     \* git in a terminal starts and ends operations

Ops == 1..MaxOps

ASSUME WorkersAssumption == NoHolder \notin Workers
ASSUME KindsAssumption == Kinds \subseteq AllKinds /\ Env \subseteq AllEnv
ASSUME BoundsAssumption ==
  MaxCmds \in Nat /\ MaxOps \in Nat /\ UndoLimit \in Nat \ {0}
ASSUME OpsAssumption == StoredOps \subseteq Ops /\ MarkerOf \in [Ops -> Markers]
ASSUME LocksAssumption == LocksWork \in BOOLEAN
ASSUME PartsAssumption == RetryParts \subseteq Parts

-----------------------------------------------------------------------------
(* The commands, by what the loop does with them.                          *)

(* plan_for: an entry is recorded for the command. *)
Recorded == {"stage", "move", "discard", "reset", "hardReset", "start", "commit"}

(* A deviation: a command that starts an operation forgets the lock. *)
Locking_StartUnlocked == {"stage", "move", "discard", "reset", "hardReset", "commit",
                          "continue", "abort", "undo", "redo", "stash"}

(* locks_state: the command runs under the state lock. *)
Locking == Recorded \cup {"continue", "abort", "undo", "redo", "stash"}

(* busy_refusal: refused, not run unrecorded, while the lock stays busy. *)
Refusing == {"discard", "hardReset", "undo", "redo"}

(* gate_during_operation: refused while a rebase or a sequence is stored. *)
Gated == {"move", "reset", "hardReset", "start", "commit", "stash", "pop"}

(* git-core itself refuses these while git shows an operation. *)
NeedsNoOperation == {"reset", "hardReset", "start"}

(* A deviation: only the commands that end an operation are held. *)
HeldReply_EndingOnly == {"continue", "abort"}

(* hold_reply: the reply waits for finish. *)
HeldReply == Recorded \cup {"continue", "abort"}

-----------------------------------------------------------------------------
VARIABLES
  repo,     \* [Parts -> Vals]
  op,       \* the operation in progress, 0: none
  opCount,  \* operations paused so far
  outcome,  \* how each operation ended
  starter,  \* the command that left it paused, 0: a terminal
  issued,   \* commands issued so far
  lock,     \* the holder of state.lock
  file,     \* undo.json: [newer, stacks]
  pc, job,  \* where each worker is, and its command
  guard,    \* the worker took the lock before settle (the loop's guard)
  cache,    \* UndoRecorder.stacks
  fresh,    \* undo.json has the mtime the worker remembers
  blocked,  \* UndoStore.blocked
  active,   \* UndoRecorder.active: {} or {the "before" snapshot}
  staleOp   \* UndoRecorder.stale_unsettled: {} or {a marker}

vars == <<repo, op, opCount, outcome, starter, issued, lock, file, pc, job,
          guard, cache, fresh, blocked, active, staleOp>>

repoVars == <<repo, op, opCount, outcome, starter>>
recorderVars == <<cache, fresh, blocked, active, staleOp>>

Snapshots == [Parts -> Vals]
Partial == UNION {[S -> Vals] : S \in SUBSET Parts}
Entries == [cmd : 1..MaxCmds, op : 0..MaxOps, before : Partial, after : Partial]
PendingEntries == [cmd : 1..MaxCmds, op : Ops, before : Snapshots]
Stacks == [undo : Seq(Entries), redo : Seq(Entries), pending : SUBSET PendingEntries]

NoEntries == [undo |-> <<>>, redo |-> <<>>, pending |-> {}]

(* A command just received; ghosts: outside, the operations a terminal had *)
(* ended by then; result, what the repository was before and after it ran. *)
NewJob(k, n, ended) ==
  [kind |-> k, id |-> n, unrecorded |-> FALSE, track |-> FALSE, gated |-> FALSE,
   replied |-> FALSE, outside |-> ended, result |-> {}]

NoJob == NewJob("none", 0, {})

Jobs == [kind : AllKinds \cup {"none"}, id : 0..MaxCmds, unrecorded : BOOLEAN,
         track : BOOLEAN, gated : BOOLEAN, replied : BOOLEAN,
         outside : SUBSET Ops, result : SUBSET [from : Snapshots, to : Snapshots]]

PCs == {"down", "idle", "acquire", "settle", "settleLock", "settleDrop", "begin",
        "gate", "run", "step", "stepSave", "finish", "finishLock",
        "finishWrite", "release"}

RepoTypeOK ==
  /\ repo \in Snapshots
  /\ op \in 0..MaxOps /\ opCount \in 0..MaxOps /\ op <= opCount
  /\ outcome \in [Ops -> {"unused", "paused", "finished", "aborted", "outside"}]
  /\ starter \in [Ops -> 0..MaxCmds]

LoopTypeOK ==
  /\ issued \in 0..MaxCmds
  /\ lock \in Workers \cup {NoHolder}
  /\ pc \in [Workers -> PCs]
  /\ job \in [Workers -> Jobs]
  /\ guard \in [Workers -> BOOLEAN]

HistoryTypeOK ==
  /\ file \in [newer : BOOLEAN, stacks : Stacks]
  /\ cache \in [Workers -> Stacks]
  /\ fresh \in [Workers -> BOOLEAN]
  /\ blocked \in [Workers -> BOOLEAN]
  /\ active \in [Workers -> SUBSET Snapshots]
  /\ staleOp \in [Workers -> SUBSET Markers]

TypeOK == RepoTypeOK /\ LoopTypeOK /\ HistoryTypeOK

Init ==
  /\ repo \in Snapshots
  /\ op = 0
  /\ opCount = 0
  /\ outcome = [k \in Ops |-> "unused"]
  /\ starter = [k \in Ops |-> 0]
  /\ issued = 0
  /\ lock = NoHolder
  /\ file = [newer |-> FALSE, stacks |-> NoEntries]
  /\ pc = [w \in Workers |-> "down"]
  /\ job = [w \in Workers |-> NoJob]
  /\ guard = [w \in Workers |-> FALSE]
  /\ cache = [w \in Workers |-> NoEntries]
  /\ fresh = [w \in Workers |-> FALSE]
  /\ blocked = [w \in Workers |-> FALSE]
  /\ active = [w \in Workers |-> {}]
  /\ staleOp = [w \in Workers |-> {}]

Goto(w, label) == pc' = [pc EXCEPT ![w] = label]

-----------------------------------------------------------------------------
(* UndoStore: reading and writing undo.json.                               *)

Load(w) ==
  /\ cache' = [cache EXCEPT ![w] = file.stacks]
  /\ fresh' = [fresh EXCEPT ![w] = TRUE]
  /\ blocked' = [blocked EXCEPT ![w] = file.newer]

Keep == UNCHANGED <<cache, fresh, blocked>>

ReloadIfChanged(w) == IF fresh[w] THEN Keep ELSE Load(w)

(* A deviation: under the lock, too, the mtime decides. *)
Reload_IfChanged(w) == IF blocked[w] THEN Keep ELSE ReloadIfChanged(w)

(* UndoRecorder::reload: forced, except while a newer build's file blocks. *)
Reload(w) == IF blocked[w] THEN Keep ELSE Load(w)

(* UndoStore::save of s, which the worker keeps in memory either way.  Its *)
(* own write is the only mtime the worker knows; another worker's cache    *)
(* looks unchanged when both writes fall into one tick.                    *)
Persist(w, s) ==
  /\ cache' = [cache EXCEPT ![w] = s]
  /\ UNCHANGED blocked
  /\ \/ /\ ~blocked[w]
        /\ file' = [newer |-> FALSE, stacks |-> s]
        /\ \/ fresh' = [v \in Workers |-> v = w]
           \/ "sameTick" \in Env /\ fresh' = [fresh EXCEPT ![w] = TRUE]
     \/ /\ blocked[w] \/ "saveFails" \in Env
        /\ UNCHANGED <<file, fresh>>

-----------------------------------------------------------------------------
(* The recorder's view of the repository.                                  *)

(* OperationProbe::marker names the operation in progress. *)
Stale(pending) ==
  \E p \in pending : op = 0 \/ MarkerOf[p.op] # MarkerOf[op]

(* A deviation: the stacks are not read again under the lock. *)
TakeExclusive_NoReload(w) ==
  /\ \/ (guard[w] \/ ~LocksWork) /\ UNCHANGED lock
     \/ ~guard[w] /\ LocksWork /\ lock = NoHolder /\ lock' = w
  /\ Keep

(* UndoRecorder::exclusive: the caller's guard, or the lock taken now; both *)
(* reload.  Without working locks it goes on unlocked.                      *)
TakeExclusive(w) ==
  /\ \/ (guard[w] \/ ~LocksWork) /\ UNCHANGED lock
     \/ ~guard[w] /\ LocksWork /\ lock = NoHolder /\ lock' = w
  /\ Reload(w)

ExclusiveBusy(w) == ~guard[w] /\ LocksWork /\ lock # NoHolder

(* The lock exclusive took itself is dropped at the end of the method. *)
DropExclusive(w) == lock' = IF lock = w /\ ~guard[w] THEN NoHolder ELSE lock

(* A deviation: the oldest entries are never drained. *)
Newest_All(s) == s

Newest(s) ==
  IF Len(s) > UndoLimit THEN SubSeq(s, Len(s) - UndoLimit + 1, Len(s)) ELSE s

Differing(a, b) == {p \in Parts : a[p] # b[p]}

Entry(c, k, before) ==
  LET D == Differing(before, repo)
  IN  [cmd |-> c, op |-> k, before |-> [p \in D |-> before[p]],
       after |-> [p \in D |-> repo[p]]]

(* A deviation: a new entry leaves the redo stack as it was. *)
Record_KeepsRedo(w, c, k, before, ends) ==
  LET kept == [cache[w] EXCEPT !.pending = IF ends THEN {} ELSE @]
  IN  \/ /\ repo # before
         /\ Persist(w, [kept EXCEPT !.undo = Newest(Append(@, Entry(c, k, before)))])
      \/ /\ repo = before \/ "captureFails" \in Env
         /\ IF ends THEN Persist(w, kept) ELSE Keep /\ UNCHANGED file

(* UndoRecorder::record: before -> now, unless nothing changed or the      *)
(* snapshot cannot be taken.  ends: it is the paused operation's entry,    *)
(* gone from undo.json in every case.                                      *)
Record(w, c, k, before, ends) ==
  LET kept == [cache[w] EXCEPT !.pending = IF ends THEN {} ELSE @]
  IN  \/ /\ repo # before
         /\ Persist(w, [kept EXCEPT !.undo = Newest(Append(@, Entry(c, k, before))),
                                    !.redo = <<>>])
      \/ /\ repo = before \/ "captureFails" \in Env
         /\ IF ends THEN Persist(w, kept) ELSE Keep /\ UNCHANGED file

-----------------------------------------------------------------------------
(* The loop: a command arrives, takes the lock and is settled.             *)

(* WorkerRegistry: a worker that is not there is spawned; the recorder     *)
(* opens undo.json.                                                        *)
Spawn(w) ==
  /\ pc[w] = "down"
  /\ Goto(w, "idle")
  /\ Load(w)
  /\ UNCHANGED <<repoVars, issued, lock, file, job, guard, active, staleOp>>

Receive(w, k) ==
  /\ pc[w] = "idle"
  /\ issued < MaxCmds
  /\ issued' = issued + 1
  /\ job' = [job EXCEPT ![w] =
                        NewJob(k, issued + 1, {o \in Ops : outcome[o] = "outside"})]
  /\ Goto(w, IF k \in Locking THEN "acquire" ELSE "settle")
  /\ UNCHANGED <<repoVars, lock, file, guard, recorderVars>>

Acquire(w) ==
  /\ pc[w] = "acquire"
  /\ LocksWork /\ lock = NoHolder
  /\ lock' = w
  /\ guard' = [guard EXCEPT ![w] = TRUE]
  /\ Goto(w, "settle")
  /\ UNCHANGED <<repoVars, issued, file, job, recorderVars>>

(* Another holder kept the lock for the whole wait: a command that would   *)
(* destroy what cannot be brought back is refused...                       *)
RefuseBusy(w) ==
  /\ pc[w] = "acquire"
  /\ LocksWork /\ lock # NoHolder /\ "timeout" \in Env
  /\ job[w].kind \in Refusing
  /\ job' = [job EXCEPT ![w] = NoJob]
  /\ Goto(w, "idle")
  /\ UNCHANGED <<repoVars, issued, lock, file, guard, recorderVars>>

(* ...every other one runs unrecorded and without the lock. *)
RunUnrecorded(w) ==
  /\ pc[w] = "acquire"
  /\ LocksWork /\ lock # NoHolder /\ "timeout" \in Env
  /\ job[w].kind \notin Refusing
  /\ job' = [job EXCEPT ![w].unrecorded = TRUE]
  /\ Goto(w, "settle")
  /\ UNCHANGED <<repoVars, issued, lock, file, guard, recorderVars>>

AcquireUnavailable(w) ==
  /\ pc[w] = "acquire"
  /\ ~LocksWork
  /\ Goto(w, "settle")
  /\ UNCHANGED <<repoVars, issued, lock, file, job, guard, recorderVars>>

(* UndoRecorder::settle, up to the first look at the marker. *)
Settle(w) ==
  /\ pc[w] = "settle"
  /\ IF guard[w] THEN Reload(w) ELSE ReloadIfChanged(w)
  /\ staleOp' = [staleOp EXCEPT ![w] = {}]
  /\ Goto(w, IF Stale(cache'[w].pending) THEN "settleLock" ELSE "begin")
  /\ UNCHANGED <<repoVars, issued, lock, file, job, guard, active>>

SettleExclusive(w) ==
  /\ pc[w] = "settleLock"
  /\ TakeExclusive(w)
  /\ Goto(w, "settleDrop")
  /\ UNCHANGED <<repoVars, issued, file, job, guard, active, staleOp>>

(* A deviation: the entry found stale is forgotten. *)
SettleBusy_Forgets(w) ==
  /\ pc[w] = "settleLock"
  /\ ExclusiveBusy(w)
  /\ Goto(w, "begin")
  /\ UNCHANGED <<repoVars, issued, lock, file, job, guard, cache, fresh, blocked, active,
                 staleOp>>

(* The holder may be about to record the entry: it is left alone, and      *)
(* remembered for finish.                                                  *)
SettleBusy(w) ==
  /\ pc[w] = "settleLock"
  /\ ExclusiveBusy(w)
  /\ staleOp' = [staleOp EXCEPT ![w] = {MarkerOf[p.op] : p \in cache[w].pending}]
  /\ Goto(w, "begin")
  /\ UNCHANGED <<repoVars, issued, lock, file, job, guard, cache, fresh, blocked, active>>

SettleDrop(w) ==
  /\ pc[w] = "settleDrop"
  /\ IF Stale(cache[w].pending)
     THEN Persist(w, [cache[w] EXCEPT !.pending = {}])
     ELSE Keep /\ UNCHANGED file
  /\ DropExclusive(w)
  /\ Goto(w, "begin")
  /\ UNCHANGED <<repoVars, issued, job, guard, active, staleOp>>

-----------------------------------------------------------------------------
(* The loop: the snapshot, the gate and the command itself.                *)

(* plan_for, filtered by "not unrecorded". *)
Planned(w) == job[w].kind \in Recorded /\ ~job[w].unrecorded

(* UndoRecorder::begin, and whether finish will run. *)
Begin(w) ==
  /\ pc[w] = "begin"
  /\ job' = [job EXCEPT ![w].track = Planned(w) \/ cache[w].pending # {}]
  /\ \/ /\ Planned(w) /\ cache[w].pending = {} /\ op = 0
        /\ active' = [active EXCEPT ![w] = {repo}]
     \/ /\ ~Planned(w) \/ cache[w].pending # {} \/ op # 0 \/ "captureFails" \in Env
        /\ UNCHANGED active
  /\ Goto(w, "gate")
  /\ UNCHANGED <<repoVars, issued, lock, file, guard, cache, fresh, blocked, staleOp>>

Gate(w) ==
  /\ pc[w] = "gate"
  /\ job' = [job EXCEPT ![w].gated = job[w].kind \in Gated /\ op \in StoredOps]
  /\ Goto(w, "run")
  /\ UNCHANGED <<repoVars, issued, lock, file, guard, recorderVars>>

(* What the command does to the repository when it runs.                   *)
NoEffect == UNCHANGED repoVars

Change ==
  /\ repo' \in Snapshots
  /\ UNCHANGED <<op, opCount, outcome, starter>>

(* A start that stops on a conflict, or on a step of its plan. *)
PauseOperation(c) ==
  /\ op = 0
  /\ opCount < MaxOps
  /\ opCount' = opCount + 1
  /\ op' = opCount'
  /\ outcome' = [outcome EXCEPT ![op'] = "paused"]
  /\ starter' = [starter EXCEPT ![op'] = c]
  /\ repo' \in Snapshots

EndOperation(how) ==
  /\ op # 0
  /\ op' = 0
  /\ outcome' = [outcome EXCEPT ![op] = how]
  /\ repo' \in Snapshots
  /\ UNCHANGED <<opCount, starter>>

Effect(w) ==
  LET k == job[w].kind
  IN  \/ NoEffect
      \/ /\ ~job[w].gated
         /\ \/ k \in {"stage", "move", "discard", "stash", "pop", "plain"} /\ Change
            \/ k \in NeedsNoOperation /\ op = 0 /\ Change
            \/ k = "commit" /\ op \in {0} \cup StoredOps /\ Change
            \/ k = "start" /\ PauseOperation(job[w].id)
            \/ k = "commit" /\ op \in Ops \ StoredOps /\ EndOperation("finished")
            \/ k = "continue" /\ op \in StoredOps /\ (Change \/ EndOperation("finished"))
            \/ k = "abort" /\ EndOperation("aborted")

AfterRun(w) == IF job[w].track THEN "finish" ELSE "release"

(* A reply hold_reply did not take over is sent by the command itself. *)
Run(w) ==
  /\ pc[w] = "run"
  /\ job[w].kind \notin {"undo", "redo"}
  /\ Effect(w)
  /\ job' = [job EXCEPT ![w].replied = ~(job[w].track /\ job[w].kind \in HeldReply),
                        ![w].result = {[from |-> repo, to |-> repo']}]
  /\ Goto(w, AfterRun(w))
  /\ UNCHANGED <<issued, lock, file, guard, recorderVars>>

-----------------------------------------------------------------------------
(* Undo and Redo: UndoRecorder::step.                                      *)

StepExclusive(w) ==
  /\ pc[w] = "run"
  /\ job[w].kind \in {"undo", "redo"}
  /\ TakeExclusive(w)
  /\ Goto(w, "step")
  /\ UNCHANGED <<repoVars, issued, file, job, guard, active, staleOp>>

Source(w) == IF job[w].kind = "undo" THEN cache[w].undo ELSE cache[w].redo
Last(s) == s[Len(s)]
Front(s) == SubSeq(s, 1, Len(s) - 1)

Expected(w) == IF job[w].kind = "undo" THEN Last(Source(w)).after ELSE Last(Source(w)).before
Target(w) == IF job[w].kind = "undo" THEN Last(Source(w)).before ELSE Last(Source(w)).after

CanStep(w) == op = 0 /\ cache[w].pending = {} /\ Source(w) # <<>>

(* restore's check: what the entry changed is as the entry left it, or, for *)
(* the index and the work tree, as a restore that stopped has put it back.  *)
Matches(w) ==
  \A p \in DOMAIN Target(w) :
    \/ repo[p] = Expected(w)[p]
    \/ p \in RetryParts /\ repo[p] = Target(w)[p]

Written(w, S) == [p \in Parts |-> IF p \in S THEN Target(w)[p] ELSE repo[p]]

StepRestore(w) ==
  /\ pc[w] = "step"
  /\ CanStep(w) /\ Matches(w)
  /\ repo' = Written(w, DOMAIN Target(w))
  /\ Goto(w, "stepSave")
  /\ UNCHANGED <<op, opCount, outcome, starter, issued, lock, file, job, guard, recorderVars>>

(* Nothing to undo, an operation in progress, the repository has changed. *)
StepRefused(w) ==
  /\ pc[w] = "step"
  /\ CanStep(w) => ~Matches(w)
  /\ DropExclusive(w)
  /\ job' = [job EXCEPT ![w].replied = TRUE]
  /\ Goto(w, AfterRun(w))
  /\ UNCHANGED <<repoVars, issued, file, guard, recorderVars>>

(* restore stops with an error: the index and the work tree come first.    *)
(* The entry stays on its stack.                                           *)
StepError(w) ==
  /\ pc[w] = "step"
  /\ "restoreFails" \in Env
  /\ CanStep(w) /\ Matches(w)
  /\ \E S \in SUBSET DOMAIN Target(w) :
       /\ S \subseteq RetryParts \/ (DOMAIN Target(w) \cap RetryParts) \subseteq S
       /\ repo' = Written(w, S)
  /\ DropExclusive(w)
  /\ job' = [job EXCEPT ![w].replied = TRUE]
  /\ Goto(w, AfterRun(w))
  /\ UNCHANGED <<op, opCount, outcome, starter, issued, file, guard, recorderVars>>

Moved(w) ==
  LET s == cache[w]
  IN  IF job[w].kind = "undo"
      THEN [s EXCEPT !.undo = Front(@), !.redo = Append(@, Last(s.undo))]
      ELSE [s EXCEPT !.redo = Front(@), !.undo = Append(@, Last(s.redo))]

StepSave(w) ==
  /\ pc[w] = "stepSave"
  /\ Persist(w, Moved(w))
  /\ DropExclusive(w)
  /\ job' = [job EXCEPT ![w].replied = TRUE]
  /\ Goto(w, AfterRun(w))
  /\ UNCHANGED <<repoVars, issued, guard, active, staleOp>>

-----------------------------------------------------------------------------
(* The loop: the entry is recorded, the guard dropped, the reply released. *)

Unfinished(w) == pc[w] = "finishLock" \/ (pc[w] = "finish" /\ active[w] # {})

(* UndoRecorder::finish for a command that took no snapshot. *)
FinishPaused(w) ==
  /\ pc[w] = "finish"
  /\ active[w] = {} /\ op # 0
  /\ Goto(w, "release")
  /\ UNCHANGED <<repoVars, issued, lock, file, job, guard, recorderVars>>

FinishEnded(w) ==
  /\ pc[w] = "finish"
  /\ active[w] = {} /\ op = 0
  /\ ReloadIfChanged(w)
  /\ Goto(w, IF cache'[w].pending = {} THEN "release" ELSE "finishLock")
  /\ UNCHANGED <<repoVars, issued, lock, file, job, guard, active, staleOp>>

FinishExclusive(w) ==
  /\ Unfinished(w)
  /\ TakeExclusive(w)
  /\ Goto(w, "finishWrite")
  /\ UNCHANGED <<repoVars, issued, file, job, guard, active, staleOp>>

FinishBusy(w) ==
  /\ Unfinished(w)
  /\ ExclusiveBusy(w)
  /\ active' = [active EXCEPT ![w] = {}]
  /\ Goto(w, "release")
  /\ UNCHANGED <<repoVars, issued, lock, file, job, guard, cache, fresh, blocked, staleOp>>

(* A deviation: finish does not look whether the operation is still there. *)
FinishActive_AlwaysPending(w) ==
  \E before \in active[w] :
    Persist(w, [cache[w] EXCEPT
                  !.pending = {[cmd |-> job[w].id, op |-> op, before |-> before]}])

(* A command that took a snapshot: its entry, or the paused operation's. *)
FinishActive(w) ==
  \E before \in active[w] :
    IF op # 0
    THEN Persist(w, [cache[w] EXCEPT
                       !.pending = {[cmd |-> job[w].id, op |-> op, before |-> before]}])
    ELSE Record(w, job[w].id, 0, before, FALSE)

(* A deviation: an abort is recorded like any other end. *)
FinishPending_RecordsAborts(w) ==
  IF op # 0 \/ cache[w].pending = {}
  THEN Keep /\ UNCHANGED file
  ELSE \E p \in cache[w].pending :
         IF MarkerOf[p.op] \in staleOp[w]
         THEN Persist(w, [cache[w] EXCEPT !.pending = {}])
         ELSE Record(w, p.cmd, p.op, p.before, TRUE)

(* One that took none: the entry of the operation that has ended, dropped  *)
(* when the command aborted it or settle had found it ended before.        *)
FinishPending(w) ==
  IF op # 0 \/ cache[w].pending = {}
  THEN Keep /\ UNCHANGED file
  ELSE \E p \in cache[w].pending :
         IF job[w].kind = "abort" \/ MarkerOf[p.op] \in staleOp[w]
         THEN Persist(w, [cache[w] EXCEPT !.pending = {}])
         ELSE Record(w, p.cmd, p.op, p.before, TRUE)

FinishWrite(w) ==
  /\ pc[w] = "finishWrite"
  /\ IF active[w] # {} THEN FinishActive(w) ELSE FinishPending(w)
  /\ DropExclusive(w)
  /\ active' = [active EXCEPT ![w] = {}]
  /\ Goto(w, "release")
  /\ UNCHANGED <<repoVars, issued, job, guard, staleOp>>

Release(w) ==
  /\ pc[w] = "release"
  /\ lock' = IF guard[w] THEN NoHolder ELSE lock
  /\ guard' = [guard EXCEPT ![w] = FALSE]
  /\ job' = [job EXCEPT ![w] = NoJob]
  /\ Goto(w, "idle")
  /\ UNCHANGED <<repoVars, issued, file, recorderVars>>

-----------------------------------------------------------------------------
(* The environment.                                                        *)

(* A deviation: the lock is a file that a dead holder leaves behind. *)
Crash_KeepsLock(w) ==
  /\ "crash" \in Env
  /\ pc[w] \notin {"down", "idle"}
  /\ Goto(w, "down")
  /\ guard' = [guard EXCEPT ![w] = FALSE]
  /\ job' = [job EXCEPT ![w] = NoJob]
  /\ active' = [active EXCEPT ![w] = {}]
  /\ staleOp' = [staleOp EXCEPT ![w] = {}]
  /\ UNCHANGED <<repoVars, issued, lock, file, cache, fresh, blocked>>

(* A panic or a killed process: the lock goes with it, what the worker had *)
(* in memory is lost.                                                      *)
Crash(w) ==
  /\ "crash" \in Env
  /\ pc[w] \notin {"down", "idle"}
  /\ Goto(w, "down")
  /\ lock' = IF lock = w THEN NoHolder ELSE lock
  /\ guard' = [guard EXCEPT ![w] = FALSE]
  /\ job' = [job EXCEPT ![w] = NoJob]
  /\ active' = [active EXCEPT ![w] = {}]
  /\ staleOp' = [staleOp EXCEPT ![w] = {}]
  /\ UNCHANGED <<repoVars, issued, file, cache, fresh, blocked>>

(* The newer build takes the same lock for its write. *)
NewerBuild ==
  /\ "newerBuild" \in Env
  /\ lock = NoHolder
  /\ ~file.newer
  /\ file' = [newer |-> TRUE, stacks |-> NoEntries]
  /\ fresh' = [w \in Workers |-> FALSE]
  /\ UNCHANGED <<repoVars, issued, lock, pc, job, guard, cache, blocked, active, staleOp>>

(* The user edits a file once no window owes a reply; in a terminal, at any time. *)
Edit ==
  /\ "edit" \in Env
  /\ "terminal" \in Env \/ \A w \in Workers : pc[w] \in {"down", "idle"} \/ job[w].replied
  /\ Change
  /\ UNCHANGED <<issued, lock, file, pc, job, guard, recorderVars>>

TerminalStart ==
  /\ "terminal" \in Env
  /\ opCount + 1 \notin StoredOps
  /\ PauseOperation(0)
  /\ UNCHANGED <<issued, lock, file, pc, job, guard, recorderVars>>

TerminalEnd ==
  /\ "terminal" \in Env
  /\ op \notin StoredOps
  /\ EndOperation("outside")
  /\ UNCHANGED <<issued, lock, file, pc, job, guard, recorderVars>>

-----------------------------------------------------------------------------
(* Every step of a worker's own thread. *)
WorkerStep(w) ==
  \/ Spawn(w)
  \/ Acquire(w) \/ RefuseBusy(w) \/ RunUnrecorded(w) \/ AcquireUnavailable(w)
  \/ Settle(w) \/ SettleExclusive(w) \/ SettleBusy(w) \/ SettleDrop(w)
  \/ Begin(w) \/ Gate(w) \/ Run(w)
  \/ StepExclusive(w) \/ StepRestore(w) \/ StepRefused(w) \/ StepError(w) \/ StepSave(w)
  \/ FinishPaused(w) \/ FinishEnded(w) \/ FinishExclusive(w) \/ FinishBusy(w)
  \/ FinishWrite(w)
  \/ Release(w)

Environment == NewerBuild \/ Edit \/ TerminalStart \/ TerminalEnd

Next ==
  \/ \E w \in Workers : WorkerStep(w) \/ Crash(w)
  \/ \E w \in Workers, k \in Kinds : Receive(w, k)
  \/ Environment

Spec == Init /\ [][Next]_vars

(* A worker's thread is scheduled and never waits on anything but a lock   *)
(* it polls; nothing obliges a window to send a command, a worker to die   *)
(* or a terminal to act.                                                   *)
FairSpec == Spec /\ \A w \in Workers : WF_vars(WorkerStep(w))

=============================================================================
