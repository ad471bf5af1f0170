-------------------------------- MODULE Staging --------------------------------
(***************************************************************************)
(* Staging and unstaging whole paths (git-core's stage), where a folder may  *)
(* have been replaced by a file or a link, or the reverse: the index holds   *)
(* the one or the other, so what is staged or unstaged is sometimes more     *)
(* than the path named.  A call is one step: it writes the index once, or,   *)
(* refused, not at all.                                                      *)
(*                                                                           *)
(* A tree gives each path an entry: a file's version, "link", in the index   *)
(* perhaps "conflict" (stages 1 to 3), or "none".                            *)
(***************************************************************************)
EXTENDS FiniteSets

CONSTANTS
  Paths,     \* paths of the repository
  FoldersOf,     \* the folders that each path is in, at any depth
  Commits    \* the trees HEAD may have

\* A path's folders lie in each other, and one is the outermost; no commit has a file below
\* a file.
ASSUME StagingAssumption ==
  /\ FoldersOf \in [Paths -> SUBSET Paths]
  /\ \A p \in Paths : p \notin FoldersOf[p] /\ \A f \in FoldersOf[p] : FoldersOf[f] \subseteq FoldersOf[p]
  /\ \A p \in Paths : \A f, g \in FoldersOf[p] : f = g \/ f \in FoldersOf[g] \/ g \in FoldersOf[f]
  /\ \A p \in Paths : \A S \in SUBSET FoldersOf[p] : S # {} => \E f \in S : FoldersOf[f] \cap S = {}
  /\ \A t \in Commits :
       /\ t = [p \in Paths |-> t[p]]
       /\ \A p \in Paths : t[p] # "none" => \A f \in FoldersOf[p] : t[f] = "none"

VARIABLES
  base,       \* HEAD's tree
  entries,    \* the index
  worktree,
  staged, unstaged   \* ghosts: the paths this was asked for, in a row

stagingVars == <<base, entries, worktree, staged, unstaged>>

Inside(f) == {p \in Paths : f \in FoldersOf[p]}
IsFolderOf(t, f) == \E p \in Inside(f) : t[p] # "none"
Whole(t, p) == t[p] \notin {"none", "conflict"}

BeyondLink(p) == \E f \in FoldersOf[p] : worktree[f] = "link"
Standing(p) == IF \E f \in FoldersOf[p] : worktree[f] # "folder" THEN "none" ELSE worktree[p]

\* libgit2 drops the entries a new one cannot stand beside.
WithEntry(t, p, e) ==
  [q \in Paths |-> CASE q = p -> e
                     [] q \in Inside(p) \cup FoldersOf[p] /\ Whole(t, q) -> "none"
                     [] OTHER -> t[q]]

FolderReplacedAFile(p) == entries[p] # "none" \/ base[p] # "none"

StageFile(p) ==
  /\ entries' =
       IF \/ BeyondLink(p) /\ entries[p] = "conflict"
          \/ Standing(p) = "folder" /\ ~FolderReplacedAFile(p)
       THEN entries                                                        \* refused
       ELSE IF Standing(p) \in {"none", "folder"} THEN [entries EXCEPT ![p] = "none"]
       ELSE WithEntry(entries, p, Standing(p))
  /\ staged' = staged \cup {p} /\ unstaged' = {}
  /\ UNCHANGED <<base, worktree>>

-----------------------------------------------------------------------------
IsPair(p) ==
  \/ base[p] # "none" /\ IsFolderOf(entries, p)
  \/ Whole(entries, p) /\ IsFolderOf(base, p)

\* A deviation: only the path itself may be such a pair.
PairRoot_NoAncestor(p) == {q \in {p} : IsPair(q)}

(* The root of the folder and file that stand for each other, if the path is part of such a  *)
(* pair: the outermost folder that is a file on one side, or else the path itself.           *)
Replaced(p) == {f \in FoldersOf[p] : base[f] # "none" \/ Whole(entries, f)}
PairRoot(p) ==
  IF Replaced(p) # {} THEN {f \in Replaced(p) : FoldersOf[f] \cap Replaced(p) = {}}
  ELSE {q \in {p} : IsPair(q)}

Unit(p) == IF PairRoot(p) = {} THEN {p} ELSE UNION {{r} \cup Inside(r) : r \in PairRoot(p)}

\* What a staged rename into the unit came from.
RenameSources(unit) ==
  {s \in Paths \ unit :
     /\ base[s] # "none" /\ entries[s] = "none" /\ PairRoot(s) = {}
     /\ \E p \in unit : base[p] = "none" /\ entries[p] = base[s]}

\* Conflicts cannot be reset.
UnstageFile(p) ==
  /\ \E sources \in SUBSET RenameSources(Unit(p)) :
       LET back == Unit(p) \cup sources
       IN  entries' = IF \E q \in back : entries[q] = "conflict" THEN entries
                      ELSE [q \in Paths |-> IF q \in back THEN base[q] ELSE entries[q]]
  /\ unstaged' = unstaged \cup {p} /\ staged' = {}
  /\ UNCHANGED <<base, worktree>>

-----------------------------------------------------------------------------
\* The work tree may hold anything, with nothing below what is no folder.
Worktrees ==
  {t \in [Paths -> {"none", "link", "folder", "a"}] :
     \A p \in Paths : /\ t[p] = "folder" => Inside(p) # {}
                      /\ t[p] # "none" => \A f \in FoldersOf[p] : t[f] = "folder"}

StagingInit ==
  /\ base \in Commits
  /\ \E t \in Commits, conflicted \in {{}} \cup {{p} : p \in Paths} :
       entries = [p \in Paths |-> IF p \in conflicted THEN "conflict" ELSE t[p]]
  /\ \A p \in Paths : entries[p] # "none" => \A f \in FoldersOf[p] : entries[f] = "none"
  /\ worktree \in Worktrees
  /\ staged = {} /\ unstaged = {}

StagingNext == \E p \in Paths : StageFile(p) \/ UnstageFile(p)

-----------------------------------------------------------------------------
(* The index never has an entry below another, whatever is staged and unstaged in which      *)
(* order; and once every path has been staged, in any order, it is the work tree, or every   *)
(* path unstaged, it is HEAD's tree again, unless a conflict was in the way (stage_file,     *)
(* unstage_file, pair_root).                                                                 *)
IndexFollowsEveryPath ==
  /\ \A p \in Paths : Whole(entries, p) => \A f \in FoldersOf[p] : ~Whole(entries, f)
  /\ (\A p \in Paths : entries[p] # "conflict") =>
       /\ staged = Paths =>
            \A p \in Paths : entries[p] = IF Standing(p) = "folder" THEN "none" ELSE Standing(p)
       /\ unstaged = Paths => entries = base
=============================================================================
