--------------------------- MODULE MCUndoRecorder ---------------------------
(***************************************************************************)
(* Values of UndoRecorder's constants that a configuration cannot write.   *)
(***************************************************************************)
EXTENDS UndoRecorderProps, TLC

(* A merge, a pick and a revert carry the mtime of git's file: every one   *)
(* has a marker of its own.                                                *)
MarkerPerOperation == [k \in Ops |-> k]

(* Two rebases of one branch onto the same commit share a marker.          *)
OneMarker == [k \in Ops |-> 1]

(* Neither the windows nor the values of the repository are told apart. *)
Symmetry == Permutations(Workers) \cup Permutations(Vals)
=============================================================================
