------------------------- MODULE UndoRecorderProps -------------------------
(***************************************************************************)
(* The properties of UndoRecorder.                                         *)
(***************************************************************************)
EXTENDS UndoRecorder

(* The steps between a (forced) reload and the write it is for. *)
Writing == {"settleDrop", "step", "stepSave", "finishWrite"}

(* A worker about to write undo.json holds the state lock, and what it     *)
(* remembers is what the file says: no window can have written in between. *)
(* This is what keeps the other window's entries (undo.rs: "every write    *)
(* happens under the repository's StateLock, after a forced reload").      *)
WritersAreCurrent ==
  LocksWork =>
    \A w \in Workers : pc[w] \in Writing =>
      /\ lock = w
      /\ ~blocked[w] => cache[w] = file.stacks

(* undo.json changes only by the legal edits of UndoLog: no window's       *)
(* entry, pending entry or newer-format file is lost to another's write.   *)
Log == INSTANCE UndoLog WITH
         undo <- file.stacks.undo, redo <- file.stacks.redo,
         pending <- file.stacks.pending, newer <- file.newer

LegalHistory == Log!Spec

Entered == file.stacks.undo \o file.stacks.redo

(* An operation the user aborted in Browsitory never becomes an undo       *)
(* entry: finish drops it ("the user backed out of it").                   *)
AbortedNeverRecorded ==
  \A i \in 1..Len(Entered) :
    Entered[i].op # 0 => outcome[Entered[i].op] # "aborted"

(* Nor does one a terminal had ended before the command that writes the    *)
(* entry was even received: whether it was finished or abandoned is        *)
(* unknowable (settle, stale_unsettled, #175).                             *)
EndedOutsideNeverRecorded ==
  [][\A w \in Workers :
       (pc[w] = "finishWrite" /\ pc'[w] = "release" /\ active[w] = {}) =>
         \A i \in 1..Len(file'.stacks.undo) :
           LET e == file'.stacks.undo[i]
           IN  e.op \in job[w].outside => \E j \in 1..Len(file.stacks.undo) : file.stacks.undo[j] = e]_vars

(* No command that moves HEAD or rewrites the index takes effect while a   *)
(* rebase or a sequence is stored: the gate's check and the command cannot *)
(* interleave with the other window storing one (undo.rs, locks_state).    *)
GateIsAtomic ==
  [][\A w \in Workers :
       (pc[w] = "run" /\ pc'[w] # "run" /\ job[w].kind \in Gated
          /\ <<repo, op>>' # <<repo, op>>)
         => op \notin StoredOps]_vars

(* An entry spans its own command and nothing else: not the other window's *)
(* command, nor what the user does once the reply is there (HeldReplies).  *)
EntryIsItsCommands ==
  [][\A w \in Workers :
       (pc[w] = "finishWrite" /\ active[w] # {} /\ file'.stacks.undo # file.stacks.undo) =>
         LET e == Last(file'.stacks.undo)
         IN  \A r \in job[w].result, p \in DOMAIN e.after :
               e.before[p] = r.from[p] /\ e.after[p] = r.to[p]]_vars

(* While nothing but recorded commands changes the repository, the top     *)
(* entry of either stack is always one that Undo or Redo can restore: the  *)
(* history and the repository never drift apart.                           *)
HistoryMatches ==
  (op = 0 /\ \A w \in Workers : pc[w] = "idle") =>
    LET u == file.stacks.undo
        r == file.stacks.redo
    IN  /\ u # <<>> => \A p \in DOMAIN Last(u).after : repo[p] = Last(u).after[p]
        /\ r # <<>> => \A p \in DOMAIN Last(r).before : repo[p] = Last(r).before[p]

(* The two stacks together stay within UNDO_LIMIT, though only a new entry *)
(* is ever counted against it: what the anchor pins is bounded.            *)
HistoryBounded == Len(file.stacks.undo) + Len(file.stacks.redo) <= UndoLimit

(* Every command is answered or its worker died: nothing in the loop waits *)
(* for ever, not even behind a holder that never lets go in time.          *)
EveryCommandAnswered ==
  \A w \in Workers : (pc[w] \notin {"idle", "down"}) ~> (pc[w] \in {"idle", "down"})
=============================================================================
