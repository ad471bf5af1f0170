----------------------------- MODULE UndoStore -----------------------------
(***************************************************************************)
(* How the undo history reaches the disk (worker/undo_store.rs): undo.json *)
(* names git objects, and refs keep git gc from pruning them.  A save      *)
(* writes in this order                                                    *)
(*   keep refs, one by one - the anchor - undo.json - stale refs deleted   *)
(* and can stop after any of these writes: an I/O error, a killed process. *)
(*                                                                         *)
(* An entry of the history is the set of objects its snapshots need.  The  *)
(* anchor commit pins trees (as its tree) and commits (as its parents); a  *)
(* tag object cannot be a commit's parent and gets a keep ref of its own,  *)
(* numbered from 0.  UndoRecorder saves under the state lock, so there is  *)
(* one writer.                                                             *)
(***************************************************************************)
EXTENDS Naturals, Sequences, Functions

CONSTANTS
  Trees, Commits, Tags,  \* object ids, by the kind of the object
  Entries,               \* what an entry can need
  UndoLimit,             \* UNDO_LIMIT
  MaxSaves               \* bound: saves started

Objects == Trees \cup Commits \cup Tags

ASSUME ObjectsAssumption ==
  /\ Trees \cap Commits = {} /\ Trees \cap Tags = {} /\ Commits \cap Tags = {}
  /\ Entries \subseteq SUBSET Objects
ASSUME StoreBoundsAssumption == UndoLimit \in Nat \ {0} /\ MaxSaves \in Nat

VARIABLES
  odb,      \* the objects that exist
  json,     \* the stacks in undo.json
  anchor,   \* the objects refs/browsitory/undo/main pins, {} if there is none
  keep,     \* refs/browsitory/undo-keep/main/<n>, n |-> the tag
  saving,   \* how far the save is
  mem,      \* the stacks being saved
  written,  \* keep refs written by this save
  torn,     \* a save has stopped between its first ref and undo.json
  saves     \* saves started

storeVars == <<odb, json, anchor, keep, saving, mem, written, torn, saves>>

Stacks == [undo : Seq(SUBSET Objects), redo : Seq(SUBSET Objects),
           pending : SUBSET SUBSET Objects]

NoEntries == [undo |-> <<>>, redo |-> <<>>, pending |-> {}]

SaveStates == {"idle", "keep", "json", "stale"}

StoreTypeOK ==
  /\ odb \subseteq Objects
  /\ json \in Stacks /\ mem \in Stacks
  /\ anchor \subseteq Trees \cup Commits
  /\ DOMAIN keep \subseteq Nat /\ keep \in [DOMAIN keep -> Tags]
  /\ saving \in SaveStates
  /\ written \in Nat
  /\ torn \in BOOLEAN
  /\ saves \in 0..MaxSaves

(* The objects that stacks s name. *)
Needed(s) == UNION (Range(s.undo) \cup Range(s.redo) \cup s.pending)

Pinned == anchor \cup Range(keep)

StoreInit ==
  /\ odb = {}
  /\ json = NoEntries
  /\ anchor = {}
  /\ keep = [n \in {} |-> n]
  /\ saving = "idle"
  /\ mem = NoEntries
  /\ written = 0
  /\ torn = FALSE
  /\ saves = 0

-----------------------------------------------------------------------------
(* What the recorder saves: the stacks of the file it has just reloaded    *)
(* after one edit (record, pause, drop, undo, redo).                       *)

Newest(s) ==
  IF Len(s) > UndoLimit THEN SubSeq(s, Len(s) - UndoLimit + 1, Len(s)) ELSE s

Front(s) == SubSeq(s, 1, Len(s) - 1)

Pushed(s, e) == [s EXCEPT !.undo = Newest(Append(@, e)), !.redo = <<>>]

Moves(s) ==
  {[s EXCEPT !.undo = Front(@), !.redo = Append(@, u[Len(u)])] :
     u \in {s.undo} \ {<<>>}}
  \cup
  {[s EXCEPT !.redo = Front(@), !.undo = Append(@, r[Len(r)])] :
     r \in {s.redo} \ {<<>>}}

(* With e captured now; a pending entry recorded keeps its own "before". *)
Edits(s, e) ==
  {Pushed(s, e), [s EXCEPT !.pending = {e}], [s EXCEPT !.pending = {}]}
  \cup {[Pushed(s, p \cup e) EXCEPT !.pending = {}] : p \in s.pending}
  \cup (IF s.pending = {} THEN Moves(s) ELSE {})

(* The snapshot e exists: its trees were written by capture, the rest is   *)
(* the repository's.                                                       *)
Start(e) ==
  /\ saving = "idle"
  /\ saves < MaxSaves
  /\ saves' = saves + 1
  /\ mem' \in Edits(json, e)
  /\ odb' = odb \cup e
  /\ written' = 0
  /\ saving' = IF mem' = NoEntries THEN "json" ELSE "keep"
  /\ UNCHANGED <<json, anchor, keep, torn>>

-----------------------------------------------------------------------------
(* save: write_anchor.                                                     *)

(* What is gone already is passed over. *)
TagsToKeep == Needed(mem) \cap Tags \cap odb

KeepsWritten == {keep[n] : n \in 0..written - 1}

(* A tree that is gone cannot be put into the anchor's tree. *)
TreesExist == Needed(mem) \cap Trees \subseteq odb

(* The tags come in the order of their ids, which are hashes: any order. *)
WriteKeep ==
  /\ saving = "keep"
  /\ TreesExist
  /\ \E t \in TagsToKeep \ KeepsWritten :
       keep' = [n \in DOMAIN keep \cup {written} |-> IF n = written THEN t ELSE keep[n]]
  /\ written' = written + 1
  /\ UNCHANGED <<odb, json, anchor, saving, mem, torn, saves>>

AnchorOf(s) == Needed(s) \cap (Trees \cup Commits) \cap odb

WriteAnchor ==
  /\ saving = "keep"
  /\ TreesExist
  /\ KeepsWritten = TagsToKeep
  /\ anchor' = AnchorOf(mem)
  /\ saving' = "json"
  /\ UNCHANGED <<odb, json, keep, mem, written, torn, saves>>

-----------------------------------------------------------------------------
(* save: write_atomically, delete_stale.                                   *)

WriteJson ==
  /\ saving = "json"
  /\ json' = mem
  /\ saving' = "stale"
  /\ UNCHANGED <<odb, anchor, keep, mem, written, torn, saves>>

(* A deviation: off by one. *)
StaleRefs_OffByOne == {n \in DOMAIN keep : n > written}

StaleRefs == {n \in DOMAIN keep : n >= written}

DeleteKeep ==
  /\ saving = "stale"
  /\ \E n \in StaleRefs : keep' = [m \in DOMAIN keep \ {n} |-> keep[m]]
  /\ UNCHANGED <<odb, json, anchor, saving, mem, written, torn, saves>>

(* A deviation: a pending entry alone does not count. *)
Emptied_IgnoresPending == mem.undo = <<>> /\ mem.redo = <<>>

Emptied == mem.undo = <<>> /\ mem.redo = <<>> /\ mem.pending = {}

Finish ==
  /\ saving = "stale"
  /\ StaleRefs = {}
  /\ anchor' = IF Emptied THEN {} ELSE anchor
  /\ saving' = "idle"
  /\ UNCHANGED <<odb, json, keep, mem, written, torn, saves>>

-----------------------------------------------------------------------------
(* The save returns an error, or the process is gone.  The stacks in       *)
(* memory do not outlive it: the next write reloads the file first.        *)
Stop ==
  /\ saving # "idle"
  /\ torn' = (torn \/ (saving = "keep" /\ written > 0) \/ (saving = "json" /\ mem # NoEntries))
  /\ saving' = "idle"
  /\ UNCHANGED <<odb, json, anchor, keep, mem, written, saves>>

(* git gc prunes what no ref reaches.  The branches and tags that named    *)
(* these objects may all be gone.  Not during a save: gc spares what is    *)
(* younger than its grace period.                                          *)
Gc ==
  /\ saving = "idle"
  /\ odb' = odb \cap Pinned
  /\ UNCHANGED <<json, anchor, keep, saving, mem, written, torn, saves>>

SaveStep == WriteKeep \/ WriteAnchor \/ WriteJson \/ DeleteKeep \/ Finish

StoreNext == (\E e \in Entries : Start(e)) \/ SaveStep \/ Stop \/ Gc

StoreSpec == StoreInit /\ [][StoreNext]_storeVars

-----------------------------------------------------------------------------
(* As long as no save stopped halfway, every object undo.json names exists *)
(* and is pinned, whatever the user has deleted and however often gc ran.  *)
IntactHistory ==
  (saving = "idle" /\ ~torn) => Needed(json) \subseteq odb \cap Pinned

(* A save that completes pins exactly what the history still needs and     *)
(* has, also after saves that stopped: nothing leaks, nothing is missed.   *)
CompleteSavePins ==
  [][Finish => Pinned' = Needed(json) \cap odb]_storeVars

(* save's own comment: "A failure before the JSON write leaves the         *)
(* previous JSON valid and everything it needs still pinned."              *)
StillPinned == saving = "idle" => Needed(json) \subseteq Pinned
=============================================================================
