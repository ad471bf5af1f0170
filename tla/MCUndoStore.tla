---------------------------- MODULE MCUndoStore ----------------------------
(***************************************************************************)
(* Values of UndoStore's constants: entries that share a tree, differ in   *)
(* their tags, or need a commit that no branch names any more.             *)
(***************************************************************************)
EXTENDS UndoStore

SomeEntries == {{1}, {1, 2, 5}, {3, 6}}
=============================================================================
