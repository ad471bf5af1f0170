------------------------------- MODULE Worktrees -------------------------------
(***************************************************************************)
(* One repository with several worktrees, and a window on each: who holds    *)
(* which branch (git-core's repo), switching, creating, renaming, deleting   *)
(* and restoring branches (branch, reflog), and adding, removing and pruning *)
(* worktrees (worktree).  A command reads what it decides by and acts in one *)
(* step, but for Add, which checks out a whole tree; the state lock keeps    *)
(* only the windows on one worktree apart.                                   *)
(***************************************************************************)
EXTENDS Naturals, FiniteSets

CONSTANTS
  Linked,         \* names a linked worktree may have
  Places,         \* folders it may be at
  LocalBranches,
  MaxOutside      \* bound: what terminals and the user do

Main == "main"
Detached == "detached"
Unwritten == "unwritten"
NoEntry == "none"
Worktree == Linked \cup {Main}

\* The main worktree has no entry; a detached HEAD is no branch's; a gitdir names a place.
ASSUME WorktreesAssumption ==
  /\ Main \notin Linked /\ Detached \notin LocalBranches
  /\ NoEntry \notin Places /\ Unwritten \notin Places

VARIABLES
  branches,   \* the local branches
  admin,      \* name -> its entry in .git/worktrees: the place gitdir names, if any
  lockedTrees,
  headOf,     \* worktree -> the branch its HEAD is on, or Detached
  paused,     \* worktree -> what is paused there, and the branches it is about
  folder,     \* place -> what stands there
  adding,     \* the Add under way
  lastMove,   \* ghost: the branch the last command moved, and the window it did so in
  overtaken,  \* ghost: what an Add had checked no longer held when it acted
  renamed,    \* ghost: names that were renamed away
  outside

treeVars == <<branches, admin, lockedTrees, headOf, paused, folder, adding, lastMove,
              overtaken, renamed, outside>>

Kinds == {"none", "rebase", "own rebase", "sequence", "bisect"}
NotPaused == [kind |-> "none", branch |-> Detached, updates |-> {}]
Vacant == [is |-> "nothing", of |-> Main, clean |-> FALSE, foreign |-> FALSE]
Plain == [Vacant EXCEPT !.is = "plain"]                    \* a file, a folder, another repository
TreeOf(n) == [is |-> "worktree", of |-> n, clean |-> TRUE, foreign |-> FALSE]
NotAdding == [by |-> Main, step |-> "idle", name |-> Main, place |-> Unwritten, branch |-> Detached,
              existed |-> FALSE, made |-> FALSE, result |-> "none"]

Unmoved == [branch |-> Detached, by |-> Main]

Entries == {n \in Linked : admin[n] # NoEntry}
WithGitdir == {n \in Entries : admin[n] # Unwritten}          \* git lists no others
Listed == WithGitdir \cup {Main}
PointsBack(n) == /\ folder[admin[n]].is = "worktree" /\ folder[admin[n]].of = n
HalfMade == IF adding.step = "checking out" THEN {adding.name} ELSE {}   \* nobody works there yet
Windows == {Main} \cup {n \in WithGitdir \ HalfMade : PointsBack(n)}

-----------------------------------------------------------------------------
(* Which branches a worktree x holds against a command of window t (HoldRule).               *)
PausedAt(x, kinds) == IF paused[x].kind \in kinds THEN {paused[x].branch} ELSE {}
OnBranch(x) == {headOf[x]} \ {Detached}

\* A deviation: the branch of a rebase or bisect counts only where HEAD is on it.
Operations_HeadOnly(x, t) ==
  PausedAt(x, {"rebase", "bisect"}) \cap OnBranch(x)

Operations(x, t) ==
  PausedAt(x, {"rebase", "bisect"})
    \cup IF x # t /\ headOf[x] = Detached THEN PausedAt(x, {"own rebase"}) ELSE {}

StoredSequence(x, t) == IF x # t THEN PausedAt(x, {"sequence"}) \cap OnBranch(x) ELSE {}

HeldBy(x, t, rule) ==
  StoredSequence(x, t) \cup
  CASE rule = "move" ->
         Operations(x, t) \cup paused[x].updates \cup IF x # t THEN OnBranch(x) ELSE {}
    [] rule = "check out" ->
         IF x = t THEN {} ELSE OnBranch(x) \cup IF headOf[x] = Detached THEN Operations(x, t) ELSE {}
    [] rule = "check out, here too" ->
         OnBranch(x) \cup IF headOf[x] = Detached THEN Operations(x, t) ELSE {}
    [] OTHER -> IF headOf[x] = Detached THEN Operations(x, t) ELSE {}

BranchesHeld(t, rule) == UNION {HeldBy(x, t, rule) : x \in Listed \cup {t}}

\* Terminal rebases count in every entry, listed or not.
RebasedBranches(xs) == UNION {PausedAt(x, {"rebase"}) : x \in xs}
NotRebased(b) == b \notin RebasedBranches(Entries \cup {Main})
NotRebasedElsewhere(t, b) == b \notin RebasedBranches((Entries \cup {Main}) \ {t})

(* A stored rebase or sequence refuses whatever moves HEAD, and protects its branch.         *)
Stored(t) == paused[t].kind \in {"own rebase", "sequence"}
Protected(t, b) == Stored(t) /\ paused[t].branch = b
NoOperation(t) == paused[t].kind \in {"none", "bisect"}

\* The worker of a window that adds a worktree is busy, and holds the state lock.
Undisturbed == ~overtaken                                        \* a behaviour ends with such a race
Free(t) == Undisturbed /\ t \in Windows /\ ~(adding.step # "idle" /\ adding.by = t)

Checked(b) == \E x \in Listed : headOf[x] = b               \* libgit2's own look at HEADs
Moves(t, b) == lastMove' = [branch |-> b, by |-> t]
NoMove == lastMove' = Unmoved

-----------------------------------------------------------------------------
SwitchBranch(t, b) ==
  /\ Free(t) /\ ~Stored(t) /\ b \in branches
  /\ NotRebasedElsewhere(t, b) /\ b \notin BranchesHeld(t, "check out")
  /\ headOf' = [headOf EXCEPT ![t] = b]
  /\ NoMove
  /\ UNCHANGED <<branches, admin, lockedTrees, paused, folder, adding, overtaken, renamed, outside>>

(* The branch stays when it cannot be switched to, as with a conflicting work tree.           *)
CreateBranch(t, b) ==
  /\ Free(t) /\ ~Stored(t) /\ b \notin branches
  /\ branches' = branches \cup {b}
  /\ headOf' \in {headOf} \cup
       IF NotRebasedElsewhere(t, b) /\ b \notin BranchesHeld(t, "check out")
       THEN {[headOf EXCEPT ![t] = b]} ELSE {}
  /\ NoMove
  /\ UNCHANGED <<admin, lockedTrees, paused, folder, adding, overtaken, renamed, outside>>

CheckoutCommit(t) ==
  /\ Free(t) /\ ~Stored(t)
  /\ headOf' = [headOf EXCEPT ![t] = Detached]
  /\ NoMove
  /\ UNCHANGED <<branches, admin, lockedTrees, paused, folder, adding, overtaken, renamed, outside>>

RenameBranch(t, b, c) ==
  /\ Free(t) /\ ~Protected(t, b) /\ b \in branches /\ c \notin branches
  /\ NotRebased(b) /\ b \notin BranchesHeld(t, "rename")
  /\ branches' = (branches \ {b}) \cup {c}
  /\ headOf' = [x \in Worktree |-> IF headOf[x] = b /\ x \in Listed THEN c ELSE headOf[x]]
  /\ renamed' = renamed \cup {b}
  /\ NoMove
  /\ UNCHANGED <<admin, lockedTrees, paused, folder, adding, overtaken, outside>>

\* Unforced, the branch has to be merged into HEAD: a choice.
DeleteBranch(t, b) ==
  /\ Free(t) /\ ~Protected(t, b) /\ b \in branches
  /\ NotRebased(b) /\ b \notin BranchesHeld(t, "move") /\ ~Checked(b)
  /\ branches' = branches \ {b}
  /\ NoMove
  /\ UNCHANGED <<admin, lockedTrees, headOf, paused, folder, adding, overtaken, renamed, outside>>

(* An entry of a branch's reflog, or of HEAD's, which is that of the branch it is on.        *)
RestoreReflogEntry(t, b) ==
  /\ Free(t) /\ ~Stored(t) /\ b \in branches
  /\ headOf[t] = b => NoOperation(t)
  /\ NotRebased(b) /\ b \notin BranchesHeld(t, "move")
  /\ Moves(t, b)
  /\ UNCHANGED <<branches, admin, lockedTrees, headOf, paused, folder, adding, overtaken, renamed, outside>>

-----------------------------------------------------------------------------
AddAllowed(t, b) ==
  ~Protected(t, b) /\ NotRebased(b) /\ b \notin BranchesHeld(t, "check out, here too")

CheckAdd(t, n, p, b) ==
  /\ Free(t) /\ adding.step = "idle"
  /\ AddAllowed(t, b) /\ folder[p].is = "nothing"
  /\ adding' = [by |-> t, step |-> "checked", name |-> n, place |-> p, branch |-> b,
                existed |-> n \in Entries, made |-> FALSE, result |-> "none"]
  /\ NoMove
  /\ UNCHANGED <<branches, admin, lockedTrees, headOf, paused, folder, overtaken, renamed, outside>>

\* A deviation: the entry is taken for the add's own whatever it names.
OwnEntry_Always(entries) == TRUE

\* The entry was made by this call and names this destination, or nothing yet.
OwnEntry(entries) ==
  LET n == adding.name
  IN  ~adding.existed /\ entries[n] \in {NoEntry, Unwritten, adding.place}

(* What stays at the destination once a failed add has taken back what libgit2 wrote there:  *)
(* only a folder whose .git names the entry is touched, and whatever else is in it stays.    *)
TakenBack(entries, stands) ==
  CASE stands.is = "worktree" /\ stands.of = adding.name /\ OwnEntry(entries) ->
         IF stands.foreign THEN Plain ELSE Vacant
    [] stands.is = "empty" -> Vacant
    [] OTHER -> stands

(* The add has failed with these entries and this destination, after it made the branch or   *)
(* did not: it goes back.                                                                    *)
GoBack(entries, made, stands) ==
  /\ adding' = [NotAdding EXCEPT !.result = "failed"]
  /\ folder' = [folder EXCEPT ![adding.place] = TakenBack(entries, stands)]
  /\ admin' = IF OwnEntry(entries) THEN [entries EXCEPT ![adding.name] = NoEntry] ELSE entries
  /\ branches' = IF made /\ ~\E x \in Listed \ {adding.name} : headOf[x] = adding.branch
                 THEN branches \ {adding.branch} ELSE branches
  /\ headOf' = [headOf EXCEPT ![adding.name] = IF OwnEntry(entries) THEN Detached ELSE @]

(* libgit2 makes the entry and the destination, each only if it is not there yet, writes     *)
(* .git, gitdir and HEAD, and stops at any of them without clearing up.                      *)
Stages == {"nothing", "entry", "destination", ".git", "gitdir"}
GetsTo(stage) ==
  /\ stage # "nothing" => adding.name \notin Entries
  /\ stage \in {"destination", ".git", "gitdir"} => folder[adding.place].is = "nothing"

WriteEntry ==
  LET n == adding.name
      p == adding.place
      b == adding.branch
  IN
  /\ Undisturbed /\ adding.step = "checked"
  /\ overtaken' = (~AddAllowed(adding.by, b) \/ (n \in Entries) # adding.existed)
  /\ \/ /\ GetsTo("gitdir") /\ ~Checked(b)
        /\ adding' = [adding EXCEPT !.step = "checking out", !.made = b \notin branches]
        /\ branches' = branches \cup {b}
        /\ admin' = [admin EXCEPT ![n] = p]
        /\ folder' = [folder EXCEPT ![p] = [TreeOf(n) EXCEPT !.clean = FALSE]]
        /\ headOf' = [headOf EXCEPT ![n] = b]
     \/ \E stage \in Stages :
          /\ GetsTo(stage) /\ (Checked(b) => stage = "nothing")
          /\ GoBack(CASE stage = "gitdir" -> [admin EXCEPT ![n] = p]
                        [] stage = "nothing" -> admin
                        [] OTHER -> [admin EXCEPT ![n] = Unwritten],
                      b \notin branches,
                      CASE stage \in {".git", "gitdir"} -> TreeOf(n)
                        [] stage = "destination" -> [Vacant EXCEPT !.is = "empty"]
                        [] OTHER -> folder[p])
  /\ NoMove
  /\ UNCHANGED <<lockedTrees, paused, renamed, outside>>

(* The tree is checked out, or it cannot be and everything goes back, or the process dies.    *)
CheckOutTree ==
  /\ Undisturbed /\ adding.step = "checking out"
  /\ \/ /\ adding' = [NotAdding EXCEPT !.result = "added"]
        /\ folder' = [folder EXCEPT ![adding.place] =
                        IF @.is = "worktree" /\ @.of = adding.name THEN [@ EXCEPT !.clean = TRUE] ELSE @]
        /\ UNCHANGED <<admin, branches, headOf>>
     \/ GoBack(admin, adding.made, folder[adding.place])
     \/ adding' = [NotAdding EXCEPT !.result = "killed"] /\ UNCHANGED <<folder, admin, branches, headOf>>
  /\ overtaken' = (adding.branch \in renamed \/ admin[adding.name] # adding.place)
  /\ NoMove
  /\ UNCHANGED <<lockedTrees, paused, renamed, outside>>

-----------------------------------------------------------------------------
Dropped(ns) == [n \in Linked |-> IF n \in ns THEN NoEntry ELSE admin[n]]
Left(ns) == [x \in Worktree |-> IF x \in ns THEN Detached ELSE headOf[x]]
Rested(ns) == [x \in Worktree |-> IF x \in ns THEN NotPaused ELSE paused[x]]

\* A deviation: the folder has to be clean, whosever it is.
MayGo_AnyFolder(n) ==
  LET stands == folder[admin[n]]
  IN  stands.is = "nothing" \/ (stands.is = "worktree" /\ stands.clean /\ ~stands.foreign)

(* The folder that goes with an entry: none, or its own and without changes.                 *)
MayGo(n) ==
  LET stands == folder[admin[n]]
  IN  stands.is = "nothing" \/ (PointsBack(n) /\ stands.clean /\ ~stands.foreign)

OpenHere(t, n) == t # Main /\ admin[t] = admin[n]

RemoveWorktree(t, n) ==
  /\ Undisturbed /\ t \in Windows /\ n \in WithGitdir /\ n \notin lockedTrees
  /\ ~OpenHere(t, n) /\ MayGo(n)
  /\ folder' = [folder EXCEPT ![admin[n]] = Vacant]
  /\ admin' = Dropped({n}) /\ paused' = Rested({n}) /\ headOf' = Left({n})
  /\ NoMove
  /\ UNCHANGED <<branches, lockedTrees, adding, overtaken, renamed, outside>>

Prunable(n) == folder[admin[n]].is = "nothing" /\ n \notin lockedTrees

PruneWorktrees(t) ==
  LET ns == {n \in WithGitdir : Prunable(n)}
  IN  /\ Undisturbed /\ t \in Windows /\ ns # {}
      /\ admin' = Dropped(ns) /\ paused' = Rested(ns) /\ headOf' = Left(ns)
      /\ NoMove
      /\ UNCHANGED <<branches, lockedTrees, folder, adding, overtaken, renamed, outside>>

-----------------------------------------------------------------------------
(* A rebase, sequence or bisect starts, in a terminal or in a window, under git's own rules, *)
(* in a worktree that is there.                                                              *)
StartOperation(x, kind, us) ==
  /\ Undisturbed /\ x \in Listed \ HalfMade /\ headOf[x] # Detached /\ paused[x].kind = "none"
  /\ paused' = [paused EXCEPT ![x] = [kind |-> kind, branch |-> headOf[x], updates |-> us]]
  /\ headOf' = IF kind = "sequence" THEN headOf ELSE [headOf EXCEPT ![x] = Detached]
  /\ outside' = outside + 1 /\ NoMove
  /\ UNCHANGED <<branches, admin, lockedTrees, folder, adding, overtaken, renamed>>

(* It ends, and returns to its branch; a bisect only from a detached HEAD.                   *)
EndOperation(x) ==
  LET b == paused[x].branch
  IN  /\ Undisturbed /\ x \in Listed /\ paused[x].kind # "none"
      /\ paused[x].kind = "bisect" =>
           b \in branches /\ \A y \in Listed \ {x} : headOf[y] # b /\ b \notin PausedAt(y, Kinds)
      /\ paused' = Rested({x})
      /\ headOf' = IF paused[x].kind = "sequence" \/ headOf[x] # Detached THEN headOf
                   ELSE [headOf EXCEPT ![x] = b]
      /\ outside' = outside + 1 /\ NoMove
      /\ UNCHANGED <<branches, admin, lockedTrees, folder, adding, overtaken, renamed>>

(* The user deletes a folder, puts another there, or leaves a file in a worktree.            *)
TouchFolder(p) ==
  /\ Undisturbed
  /\ \/ folder[p].is # "nothing" /\ folder' = [folder EXCEPT ![p] = Vacant]
     \/ folder[p].is \in {"nothing", "worktree"} /\ folder' = [folder EXCEPT ![p] = Plain]
     \/ folder[p].is = "worktree" /\ folder' = [folder EXCEPT ![p].foreign = TRUE]
  /\ outside' = outside + 1 /\ NoMove
  /\ UNCHANGED <<branches, admin, lockedTrees, headOf, paused, adding, overtaken, renamed>>

Lock(n) ==
  /\ Undisturbed /\ n \in WithGitdir
  /\ lockedTrees' = IF n \in lockedTrees THEN lockedTrees \ {n} ELSE lockedTrees \cup {n}
  /\ outside' = outside + 1 /\ NoMove
  /\ UNCHANGED <<branches, admin, headOf, paused, folder, adding, overtaken, renamed>>

UpdatesOf(x, kind) ==
  IF kind # "rebase" THEN {{}}
  ELSE SUBSET (branches \ {headOf[y] : y \in Listed})

Meanwhile ==
  /\ outside < MaxOutside
  /\ \/ \E x \in Worktree, kind \in Kinds \ {"none"} :
          \E us \in UpdatesOf(x, kind) : StartOperation(x, kind, us)
     \/ \E x \in Worktree : EndOperation(x)
     \/ \E p \in Places : TouchFolder(p)
     \/ \E n \in Linked : Lock(n)

WorktreesInit ==
  /\ branches \in {bs \in SUBSET LocalBranches : bs # {}}
  /\ \E b \in branches : headOf = [x \in Worktree |-> IF x = Main THEN b ELSE Detached]
  /\ admin = [n \in Linked |-> NoEntry] /\ lockedTrees = {}
  /\ paused = [x \in Worktree |-> NotPaused]
  /\ folder = [p \in Places |-> Vacant]
  /\ adding = NotAdding /\ lastMove = Unmoved
  /\ overtaken = FALSE /\ renamed = {} /\ outside = 0

WorktreesNext ==
  \/ \E t \in Worktree, b \in LocalBranches :
       \/ SwitchBranch(t, b) \/ CreateBranch(t, b) \/ DeleteBranch(t, b) \/ RestoreReflogEntry(t, b)
       \/ \E c \in LocalBranches : RenameBranch(t, b, c)
       \/ \E n \in Linked, p \in Places : CheckAdd(t, n, p, b)
  \/ \E t \in Worktree : CheckoutCommit(t) \/ PruneWorktrees(t)
  \/ \E t \in Worktree, n \in Linked : RemoveWorktree(t, n)
  \/ WriteEntry \/ CheckOutTree
  \/ Meanwhile

-----------------------------------------------------------------------------
(* What the worktrees of a repository promise each other *)

\* Every worktree's branch, and what is paused there returns to or updates, is there; git
\* lets a branch be renamed that a bisect started from or --update-refs lists.
NoneIsStranded ==
  \A x \in Listed :
    /\ headOf[x] \in branches \cup {Detached}
    /\ PausedAt(x, {"rebase", "own rebase"}) \subseteq branches
    /\ PausedAt(x, {"bisect"}) \cup paused[x].updates \subseteq branches \cup renamed

\* No branch is checked out twice, nor where another worktree is rebasing it.
OneWorktreeEach ==
  \A x, y \in Listed : x # y =>
    OnBranch(y) \cap (OnBranch(x) \cup PausedAt(x, {"rebase", "own rebase"})) = {}

\* No branch is moved under another worktree, or under what is paused anywhere.
NothingMovesUnder ==
  lastMove.branch # Detached =>
    \A x \in Listed :
      /\ lastMove.branch \notin PausedAt(x, Kinds \ {"none"}) \cup paused[x].updates
      /\ x # lastMove.by => lastMove.branch \notin OnBranch(x)

(* A branch that a worktree has checked out, or that something paused there returns to or    *)
(* updates, is neither deleted nor moved under it nor checked out elsewhere, in any order of *)
(* switching, renaming, deleting, adding and pruning in several windows (branches_held,      *)
(* check_branch_not_rebased, gate_during_operation).                                         *)
WorktreesKeepTheirBranches ==
  ~overtaken => NoneIsStranded /\ OneWorktreeEach /\ NothingMovesUnder

Program == outside' = outside

\* What goes from a place was a clean worktree, removed with its entry, or what an add wrote.
OnlyItsOwn ==
  Program => \A p \in Places :
    \/ folder'[p] = folder[p] \/ folder[p].is = "nothing"
    \/ \E n \in Entries : /\ admin[n] = p /\ admin'[n] = NoEntry /\ n \notin lockedTrees
                          /\ folder[p] = TreeOf(n)
    \/ /\ adding.step = "checking out" /\ adding.place = p /\ folder[p].of = adding.name
       /\ folder[p].foreign => folder'[p] = Plain \/ folder'[p].foreign

\* A failed add has left no entry but one that was there, no branch and nothing it wrote.
NothingRemains ==
  adding.step # "idle" /\ adding'.result = "failed" =>
    LET n == adding.name
        b == adding.branch
    IN  /\ IF adding.existed THEN admin'[n] = admin[n] ELSE admin'[n] = NoEntry
        /\ folder'[adding.place] \in {Vacant, Plain}
        /\ b \notin branches' \ branches
        /\ adding.made /\ b \in branches' => b \in renamed \/ \E x \in Listed \ {n} : headOf[x] = b

(* Removing a worktree deletes its own clean folder or none, pruning deletes none, and an    *)
(* add that fails takes back all it made and nothing else, whatever the user puts there      *)
(* meanwhile (remove_entry, prune_worktrees, create_worktree_with, roll_back_destination).   *)
OnlyItsOwnFolder == [][~overtaken' => OnlyItsOwn /\ NothingRemains]_treeVars
=============================================================================
