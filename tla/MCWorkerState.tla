----------------------------- MODULE MCWorkerState -----------------------------
(***************************************************************************)
(* What the workers of one process keep outside the repository: which of     *)
(* them serve whom, how long their commands wait for the state lock, and how *)
(* the undo history is saved.  A behaviour follows one of the three.         *)
(***************************************************************************)
EXTENDS WorkerRegistry, Contention, UndoStore, TLC

VARIABLE focus

stateVars == <<vars, contentionVars, storeVars, focus>>

(* Threads, spellings and repositories are told apart only by what they do. *)
Symmetry == Permutations(Threads) \cup Permutations(Spellings) \cup Permutations(Repos)

(* Entries that share a tree, differ in their tags, or need a commit that no *)
(* branch names any more.                                                    *)
SomeEntries == {{1}, {1, 2, 5}, {3, 6}}

StateInit ==
  /\ focus \in {"registry", "lock", "store"}
  /\ Init /\ ContentionInit /\ StoreInit
  /\ focus # "registry" => names = [s \in Spellings |-> Nowhere]
  /\ focus # "lock" => ~taken

StateNext ==
  /\ UNCHANGED focus
  /\ \/ focus = "registry" /\ Next /\ UNCHANGED <<contentionVars, storeVars>>
     \/ focus = "lock" /\ ContentionNext /\ UNCHANGED <<vars, storeVars>>
     \/ focus = "store" /\ StoreNext /\ UNCHANGED <<vars, contentionVars>>

StateSpec == StateInit /\ [][StateNext]_stateVars
=============================================================================
