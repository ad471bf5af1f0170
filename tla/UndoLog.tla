------------------------------ MODULE UndoLog ------------------------------
(***************************************************************************)
(* What the undo history of one repository promises, whoever writes it:    *)
(* the contents of <gitdir>/browsitory/undo.json are two stacks and at     *)
(* most one pending entry, and every change of them is one legal edit of   *)
(* what was there before.  Nothing another window wrote is ever dropped by *)
(* accident, and a file written by a newer build is never overwritten.     *)
(*                                                                         *)
(* The module is abstract: it says nothing of workers, caches or locks.    *)
(* UndoRecorder.tla models the code and implements this specification.     *)
(***************************************************************************)
EXTENDS Naturals, Sequences

CONSTANT UndoLimit          \* UNDO_LIMIT: entries the undo stack keeps

VARIABLES undo, redo,       \* the stacks, the last element is the top
          pending,          \* {} or {entry of the paused operation}
          newer             \* the file was written by a newer build

logVars == <<undo, redo, pending, newer>>

(* The last UndoLimit elements of s: the oldest entries are drained. *)
Newest(s) ==
  IF Len(s) > UndoLimit THEN SubSeq(s, Len(s) - UndoLimit + 1, Len(s)) ELSE s

ButLast(s) == SubSeq(s, 1, Len(s) - 1)

Top(s) == s[Len(s)]

Init ==
  /\ undo = <<>>
  /\ redo = <<>>
  /\ pending = {}
  /\ newer = FALSE

(* A command's entry is pushed; it may be the paused operation's own. *)
Record ==
  /\ ~newer
  /\ undo' # <<>>
  /\ undo' = Newest(Append(undo, Top(undo')))
  /\ redo' = <<>>
  /\ pending' \in {pending, {}}
  /\ UNCHANGED newer

(* A command left an operation paused. *)
Pause ==
  /\ ~newer
  /\ pending' # {}
  /\ UNCHANGED <<undo, redo, newer>>

(* The paused operation is gone and leaves no entry. *)
Drop ==
  /\ ~newer
  /\ pending # {}
  /\ pending' = {}
  /\ UNCHANGED <<undo, redo, newer>>

(* One step back or forward, never while an entry is pending. *)
Undo ==
  /\ ~newer
  /\ pending = {}
  /\ undo # <<>>
  /\ undo' = ButLast(undo)
  /\ redo' = Append(redo, Top(undo))
  /\ UNCHANGED <<pending, newer>>

Redo ==
  /\ ~newer
  /\ pending = {}
  /\ redo # <<>>
  /\ redo' = ButLast(redo)
  /\ undo' = Append(undo, Top(redo))
  /\ UNCHANGED <<pending, newer>>

(* A newer build takes the file over: what it holds is unknown here. *)
TakeOver ==
  /\ ~newer
  /\ newer' = TRUE
  /\ undo' = <<>>
  /\ redo' = <<>>
  /\ pending' = {}

Next == Record \/ Pause \/ Drop \/ Undo \/ Redo \/ TakeOver

Spec == Init /\ [][Next]_logVars
=============================================================================
