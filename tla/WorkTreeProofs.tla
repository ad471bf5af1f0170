---------------------------- MODULE WorkTreeProofs ----------------------------
(***************************************************************************)
(* Proofs about work trees: the worktrees of one repository, and accesses   *)
(* through the guard while other programs change what is on the way.        *)
(***************************************************************************)
EXTENDS WorkTree, SequenceTheorems, TLAPS

-----------------------------------------------------------------------------
(* Worktrees and their branches *)

Named == LocalBranches \cup {Detached}
Pause == [kind : Kinds, branch : Named, updates : SUBSET LocalBranches]
Adding ==
  [by : Worktree, step : {"idle", "checked", "checking out"}, name : Worktree,
   place : Places \cup {Unwritten}, branch : Named, existed : BOOLEAN, made : BOOLEAN,
   result : {"none", "failed", "added", "killed"}]

TreesTypeOK ==
  /\ branches \subseteq LocalBranches /\ renamed \subseteq LocalBranches
  /\ admin \in [Linked -> Places \cup {NoEntry, Unwritten}]
  /\ headOf \in [Worktree -> Named] /\ paused \in [Worktree -> Pause]
  /\ adding \in Adding
  /\ adding.step # "idle" =>
       adding.name \in Linked /\ adding.place \in Places /\ adding.branch \in LocalBranches

(* No HEAD is left behind where no worktree is. *)
NothingUnlisted ==
  \A n \in Linked \ WithGitdir : headOf[n] = Detached /\ paused[n] = NotPaused

(* What is paused says where its HEAD is, and nobody rebases what another rebases. *)
Rebases == {"rebase", "own rebase"}
PausesOK ==
  /\ \A x \in Listed :
       /\ paused[x].kind = "none" => paused[x] = NotPaused
       /\ paused[x].kind = "own rebase" => headOf[x] = Detached
       /\ paused[x].kind = "sequence" => headOf[x] = paused[x].branch
       /\ paused[x].kind # "none" => paused[x].branch \in LocalBranches
  /\ \A x, y \in Listed :
       x # y /\ paused[x].kind \in Rebases /\ paused[y].kind \in Rebases =>
         paused[x].branch # paused[y].branch

(* A worktree that is being added stands on its branch, which nothing paused returns to when  *)
(* the add has made it.                                                                      *)
AddOK ==
  adding.step = "checking out" =>
    /\ ~adding.existed
    /\ admin[adding.name] = adding.place /\ adding.branch \notin renamed =>
         /\ headOf[adding.name] = adding.branch /\ paused[adding.name] = NotPaused
         /\ adding.branch \in branches
         /\ adding.made =>
              \A x \in Listed : adding.branch \notin PausedAt(x, Kinds) \cup paused[x].updates

TreesOK ==
  /\ TreesTypeOK /\ NothingUnlisted /\ PausesOK /\ AddOK
  /\ NoneIsStranded /\ OneWorktreeEach /\ NothingMovesUnder

TreesInv == ~overtaken => TreesOK

LEMMA TreesInitially == WorktreesInit \/ TreesAtRest => TreesInv
<1> SUFFICES ASSUME WorktreesInit \/ TreesAtRest PROVE TreesOK
  BY DEF TreesInv
<1> USE WorktreesAssumption DEF Worktree
<1>1. /\ branches \subseteq LocalBranches /\ renamed = {} /\ adding = NotAdding /\ lastMove = Unmoved
      /\ admin = [n \in Linked |-> NoEntry] /\ paused = [x \in Worktree |-> NotPaused]
  BY DEF WorktreesInit, TreesAtRest
<1>2. /\ headOf \in [Worktree -> Named]
      /\ \A n \in Linked : headOf[n] = Detached
      /\ headOf[Main] \in branches \cup {Detached}
  <2>1. CASE WorktreesInit
    BY <2>1, <1>1, Zenon DEF WorktreesInit, Named, Main
  <2>2. CASE TreesAtRest
    BY <2>2 DEF TreesAtRest, Named
  <2> QED BY <2>1, <2>2
<1>3. Listed = {Main}
  BY <1>1 DEF Listed, WithGitdir, Entries
<1>4. TreesTypeOK
  BY <1>1, <1>2 DEF TreesTypeOK, NotAdding, NotPaused, Pause, Adding, Named, Kinds
<1>5. NothingUnlisted /\ PausesOK /\ AddOK
  BY <1>1, <1>2, <1>3 DEF NothingUnlisted, PausesOK, AddOK, NotPaused, NotAdding
<1>6. NoneIsStranded /\ OneWorktreeEach /\ NothingMovesUnder
  BY <1>1, <1>2, <1>3
     DEF NoneIsStranded, OneWorktreeEach, NothingMovesUnder, PausedAt, NotPaused, Unmoved
<1> QED BY <1>4, <1>5, <1>6 DEF TreesOK

-----------------------------------------------------------------------------
(* What the guards of the commands say of the worktrees *)

\* Switching and creating: nobody else has the branch checked out, or rebases it.
LEMMA CheckOutFacts ==
  ASSUME TreesOK, NEW t \in Worktree, NEW b \in LocalBranches,
         NotRebasedElsewhere(t, b), b \notin BranchesHeld(t, "check out")
  PROVE  \A y \in Listed \ {t} : headOf[y] # b /\ b \notin PausedAt(y, Rebases)
<1> SUFFICES ASSUME NEW y \in Listed \ {t}
             PROVE  headOf[y] # b /\ b \notin PausedAt(y, Rebases)
  OBVIOUS
<1>1. b \notin HeldBy(y, t, "check out")
  BY DEF BranchesHeld
<1>2. headOf[y] # b
  BY <1>1, WorktreesAssumption DEF HeldBy, OnBranch
<1>3. paused[y].kind = "rebase" => paused[y].branch # b
  BY DEF NotRebasedElsewhere, RebasedBranches, PausedAt, Listed, WithGitdir
<1>4. paused[y].kind = "own rebase" => paused[y].branch # b
  BY <1>1 DEF HeldBy, Operations, PausedAt, TreesOK, PausesOK
<1> QED BY <1>2, <1>3, <1>4 DEF PausedAt, Rebases

\* Deleting and restoring: the branch is nobody else's, and nothing paused needs it but what
\* the window's own operation protects.
LEMMA MoveFacts ==
  ASSUME TreesOK, NEW t \in Worktree, NEW b \in LocalBranches,
         NotRebased(b), b \notin BranchesHeld(t, "move"), ~Protected(t, b)
  PROVE  \A y \in Listed :
           /\ b \notin PausedAt(y, Kinds \ {"none"}) \cup paused[y].updates
           /\ y # t => headOf[y] # b
<1> SUFFICES ASSUME NEW y \in Listed
             PROVE  /\ b \notin PausedAt(y, Kinds \ {"none"}) \cup paused[y].updates
                    /\ y # t => headOf[y] # b
  OBVIOUS
<1>1. b \notin HeldBy(y, t, "move")
  BY DEF BranchesHeld
<1>2. y # t => headOf[y] # b
  BY <1>1, WorktreesAssumption DEF HeldBy, OnBranch
<1>3. b \notin paused[y].updates
  BY <1>1 DEF HeldBy
<1>4. paused[y].kind \in {"rebase", "bisect"} => paused[y].branch # b
  BY <1>1 DEF HeldBy, Operations, PausedAt
<1>5. y # t /\ paused[y].kind = "own rebase" => paused[y].branch # b
  BY <1>1 DEF HeldBy, Operations, PausedAt, TreesOK, PausesOK
<1>6. y # t /\ paused[y].kind = "sequence" => paused[y].branch # b
  BY <1>2 DEF TreesOK, PausesOK
<1>7. paused[t].kind \in {"own rebase", "sequence"} => paused[t].branch # b
  BY DEF Protected, Stored
<1> QED BY <1>2, <1>3, <1>4, <1>5, <1>6, <1>7 DEF PausedAt, Kinds

\* Renaming: nothing that is rebased or picked somewhere is about the branch.
LEMMA RenameFacts ==
  ASSUME TreesOK, NEW t \in Worktree, NEW b \in LocalBranches,
         NotRebased(b), b \notin BranchesHeld(t, "rename"), ~Protected(t, b)
  PROVE  \A y \in Listed : b \notin PausedAt(y, {"rebase", "own rebase", "sequence"})
<1> SUFFICES ASSUME NEW y \in Listed, paused[y].kind \in {"rebase", "own rebase", "sequence"}
             PROVE  paused[y].branch # b
  BY DEF PausedAt
<1>1. b \notin HeldBy(y, t, "rename")
  BY DEF BranchesHeld
<1>2. paused[y].kind = "rebase" => paused[y].branch # b
  BY DEF NotRebased, RebasedBranches, PausedAt, Listed, WithGitdir
<1>3. y # t /\ paused[y].kind = "own rebase" => paused[y].branch # b
  BY <1>1 DEF HeldBy, Operations, PausedAt, TreesOK, PausesOK
<1>4. y # t /\ paused[y].kind = "sequence" => paused[y].branch # b
  BY <1>1, WorktreesAssumption DEF HeldBy, StoredSequence, OnBranch, PausedAt, TreesOK, PausesOK
<1>5. y = t => paused[y].branch # b \/ paused[y].kind = "rebase"
  BY DEF Protected, Stored
<1> QED BY <1>2, <1>3, <1>4, <1>5

\* Adding: no worktree is on the branch or rebases it.
LEMMA AddFacts ==
  ASSUME TreesOK, NEW t \in Worktree, NEW b \in LocalBranches, AddAllowed(t, b)
  PROVE  \A y \in Listed : headOf[y] # b /\ b \notin PausedAt(y, Rebases)
<1> SUFFICES ASSUME NEW y \in Listed
             PROVE  headOf[y] # b /\ b \notin PausedAt(y, Rebases)
  OBVIOUS
<1>1. b \notin HeldBy(y, t, "check out, here too")
  BY DEF BranchesHeld, AddAllowed
<1>2. headOf[y] # b
  BY <1>1, WorktreesAssumption DEF HeldBy, OnBranch
<1>3. paused[y].kind = "rebase" => paused[y].branch # b
  BY DEF AddAllowed, NotRebased, RebasedBranches, PausedAt, Listed, WithGitdir
<1>4. y # t /\ paused[y].kind = "own rebase" => paused[y].branch # b
  BY <1>1 DEF HeldBy, Operations, PausedAt, TreesOK, PausesOK
<1>5. paused[t].kind = "own rebase" => paused[t].branch # b
  BY DEF AddAllowed, Protected, Stored
<1> QED BY <1>2, <1>3, <1>4, <1>5 DEF PausedAt, Rebases

-----------------------------------------------------------------------------
(* The steps *)

\* Facts every step uses: who is listed, and the fields of what is paused.
LEMMA TypeFacts ==
  ASSUME TreesOK
  PROVE  /\ Listed \subseteq Worktree /\ Detached \notin LocalBranches
         /\ branches \subseteq LocalBranches
         /\ \A x \in Worktree :
              /\ headOf[x] \in Named /\ paused[x] \in Pause
              /\ paused[x].kind \in Kinds /\ paused[x].branch \in Named
              /\ paused[x].updates \subseteq LocalBranches
<1>1. Listed \subseteq Worktree
  BY DEF Listed, WithGitdir, Entries, Worktree
<1>2. \A x \in Worktree : headOf[x] \in Named /\ paused[x] \in Pause
  BY DEF TreesOK, TreesTypeOK
<1>3. branches \subseteq LocalBranches
  BY DEF TreesOK, TreesTypeOK
<1> QED BY <1>1, <1>2, <1>3, WorktreesAssumption DEF Pause

\* A command that moves no branch moves none under anybody.
LEMMA NoMoveFacts == NoMove => NothingMovesUnder'
BY DEF NoMove, Unmoved, NothingMovesUnder

\* A worktree where the command runs is not being made.
LEMMA FreeFacts ==
  ASSUME TreesOK, NEW t \in Worktree, Free(t)
  PROVE  t \in Listed /\ (adding.step = "checking out" => t # adding.name)
<1>1. adding.step = "checking out" => adding.name # Main
  BY WorktreesAssumption DEF TreesOK, TreesTypeOK
<1> QED BY <1>1 DEF Free, Windows, HalfMade, Listed

(* OneWorktreeEach, worktree by worktree. *)
Alone ==
  \A x, y \in Listed : x # y /\ headOf[y] # Detached =>
    headOf[x] # headOf[y] /\ (paused[x].kind \in Rebases => paused[x].branch # headOf[y])

LEMMA AloneFacts == (OneWorktreeEach <=> Alone) /\ (OneWorktreeEach <=> Alone)'
<1>1. OneWorktreeEach => Alone
  <2> SUFFICES ASSUME OneWorktreeEach, NEW x \in Listed, NEW y \in Listed, x # y, headOf[y] # Detached
               PROVE  headOf[x] # headOf[y] /\ (paused[x].kind \in Rebases => paused[x].branch # headOf[y])
    BY DEF Alone
  <2>1. headOf[y] \notin OnBranch(x) \cup PausedAt(x, {"rebase", "own rebase"})
    BY DEF OneWorktreeEach, OnBranch
  <2> QED BY <2>1 DEF OnBranch, PausedAt, Rebases
<1>2. Alone => OneWorktreeEach
  BY DEF Alone, OneWorktreeEach, OnBranch, PausedAt, Rebases
<1>3. (OneWorktreeEach => Alone)'
  <2> SUFFICES ASSUME OneWorktreeEach', NEW x \in Listed', NEW y \in Listed', x # y, headOf'[y] # Detached
               PROVE  headOf'[x] # headOf'[y]
                      /\ (paused'[x].kind \in Rebases => paused'[x].branch # headOf'[y])
    BY DEF Alone
  <2>1. headOf'[y] \notin (OnBranch(x) \cup PausedAt(x, {"rebase", "own rebase"}))'
    BY DEF OneWorktreeEach, OnBranch
  <2> QED BY <2>1 DEF OnBranch, PausedAt, Rebases
<1>4. (Alone => OneWorktreeEach)'
  BY DEF Alone, OneWorktreeEach, OnBranch, PausedAt, Rebases
<1> QED BY <1>1, <1>2, <1>3, <1>4

(* NoneIsStranded, field by field. *)
Whole ==
  \A x \in Listed :
    /\ headOf[x] # Detached => headOf[x] \in branches
    /\ paused[x].kind \in Rebases => paused[x].branch \in branches
    /\ paused[x].kind = "bisect" => paused[x].branch \in branches \cup renamed
    /\ paused[x].updates \subseteq branches \cup renamed

LEMMA WholeFacts == (NoneIsStranded <=> Whole) /\ (NoneIsStranded <=> Whole)'
<1>1. NoneIsStranded => Whole
  BY DEF NoneIsStranded, Whole, PausedAt, Rebases
<1>2. Whole => NoneIsStranded
  BY DEF NoneIsStranded, Whole, PausedAt, Rebases
<1>3. (NoneIsStranded => Whole)'
  BY DEF NoneIsStranded, Whole, PausedAt, Rebases
<1>4. (Whole => NoneIsStranded)'
  BY DEF NoneIsStranded, Whole, PausedAt, Rebases
<1> QED BY <1>1, <1>2, <1>3, <1>4

\* The HEAD of one worktree moves to where no other worktree is or will return to.
LEMMA HeadMoves ==
  ASSUME TreesOK, NEW t \in Listed, NEW h \in branches' \cup {Detached},
         adding.step = "checking out" => t # adding.name,
         ~Stored(t), headOf' = [headOf EXCEPT ![t] = h],
         branches \subseteq branches', branches' \subseteq LocalBranches,
         UNCHANGED <<admin, paused, adding, renamed>>, NoMove,
         h # Detached => \A y \in Listed \ {t} : headOf[y] # h /\ h \notin PausedAt(y, Rebases)
  PROVE  TreesOK'
<1>1. /\ t \in Worktree /\ Listed' = Listed /\ WithGitdir' = WithGitdir
      /\ headOf'[t] = h /\ \A x \in Worktree \ {t} : headOf'[x] = headOf[x]
  BY TypeFacts DEF Listed, WithGitdir, Entries, TreesOK, TreesTypeOK
<1>2. TreesTypeOK'
  BY DEF TreesOK, TreesTypeOK, Named
<1>3. NothingUnlisted'
  <2> SUFFICES ASSUME NEW n \in Linked \ WithGitdir
               PROVE  headOf'[n] = Detached /\ paused'[n] = NotPaused
    BY <1>1 DEF NothingUnlisted
  <2>1. n # t
    BY WorktreesAssumption DEF Listed
  <2> QED BY <1>1, <2>1 DEF TreesOK, NothingUnlisted, Worktree
<1>4. PausesOK'
  <2>1. \A x, y \in Listed :
          x # y /\ paused'[x].kind \in Rebases /\ paused'[y].kind \in Rebases =>
            paused'[x].branch # paused'[y].branch
    BY DEF TreesOK, PausesOK
  <2>2. \A x \in Listed \ {t} : headOf'[x] = headOf[x]
    BY <1>1, TypeFacts
  <2> QED BY <1>1, <2>1, <2>2, ZenonT(40) DEF TreesOK, PausesOK, Stored
<1>5. AddOK'
  BY <1>1, TypeFacts DEF TreesOK, TreesTypeOK, AddOK, PausedAt, Worktree
<1>6. NoneIsStranded'
  BY <1>1, TypeFacts, ZenonT(40) DEF TreesOK, NoneIsStranded, PausedAt
<1>7. Alone'
  <2> SUFFICES ASSUME NEW x \in Listed, NEW y \in Listed, x # y, headOf'[y] # Detached
               PROVE  headOf'[x] # headOf'[y]
                      /\ (paused[x].kind \in Rebases => paused[x].branch # headOf'[y])
    BY <1>1, ZenonT(40) DEF Alone
  <2>1. Alone /\ x \in Worktree /\ y \in Worktree
    BY AloneFacts, TypeFacts DEF TreesOK
  <2>2. CASE y = t
    BY <1>1, <2>1, <2>2 DEF PausedAt
  <2>3. CASE y # t /\ x = t
    BY <1>1, <2>1, <2>3 DEF Alone
  <2>4. CASE y # t /\ x # t
    BY <1>1, <2>1, <2>4 DEF Alone
  <2> QED BY <2>2, <2>3, <2>4
<1> QED BY <1>2, <1>3, <1>4, <1>5, <1>6, <1>7, AloneFacts, NoMoveFacts DEF TreesOK

LEMMA SwitchKeeps ==
  ASSUME TreesOK, NEW t \in Worktree, NEW b \in LocalBranches, SwitchBranch(t, b)
  PROVE  TreesOK'
<1>1. Free(t) /\ ~Stored(t) /\ b \in branches
  BY DEF SwitchBranch
<1>2. \A y \in Listed \ {t} : headOf[y] # b /\ b \notin PausedAt(y, Rebases)
  BY CheckOutFacts DEF SwitchBranch
<1>3. t \in Listed /\ (adding.step = "checking out" => t # adding.name)
  BY <1>1, FreeFacts
<1>4. branches' = branches /\ branches \subseteq LocalBranches
  BY TypeFacts DEF SwitchBranch
<1> QED BY <1>1, <1>2, <1>3, <1>4, HeadMoves DEF SwitchBranch

LEMMA CreateKeeps ==
  ASSUME TreesOK, NEW t \in Worktree, NEW b \in LocalBranches, CreateBranch(t, b)
  PROVE  TreesOK'
<1>1. /\ Free(t) /\ ~Stored(t) /\ branches' = branches \cup {b}
      /\ UNCHANGED <<admin, paused, adding, renamed>> /\ NoMove
  BY DEF CreateBranch
<1>2. t \in Listed /\ (adding.step = "checking out" => t # adding.name)
  BY <1>1, FreeFacts
<1>3. branches \subseteq branches' /\ branches' \subseteq LocalBranches /\ b \in branches'
  BY <1>1, TypeFacts
<1>4. CASE headOf' = [headOf EXCEPT ![t] = b] /\ NotRebasedElsewhere(t, b)
            /\ b \notin BranchesHeld(t, "check out")
  <2>1. \A y \in Listed \ {t} : headOf[y] # b /\ b \notin PausedAt(y, Rebases)
    BY <1>4, CheckOutFacts
  <2> QED BY <1>1, <1>2, <1>3, <1>4, <2>1, HeadMoves
<1>5. CASE headOf' = headOf
  <2>1. headOf' = [headOf EXCEPT ![t] = headOf[t]]
    BY <1>5 DEF TreesOK, TreesTypeOK
  <2>2. headOf[t] \in branches' \cup {Detached}
    BY <1>2, <1>3 DEF TreesOK, NoneIsStranded
  <2>3. headOf[t] # Detached =>
          \A y \in Listed \ {t} : headOf[y] # headOf[t] /\ headOf[t] \notin PausedAt(y, Rebases)
    BY <1>2, AloneFacts DEF TreesOK, Alone, PausedAt
  <2> QED BY <1>1, <1>2, <1>3, <2>1, <2>2, <2>3, HeadMoves
<1> QED BY <1>4, <1>5 DEF CreateBranch

LEMMA DetachKeeps ==
  ASSUME TreesOK, NEW t \in Worktree, CheckoutCommit(t)
  PROVE  TreesOK'
<1>1. /\ Free(t) /\ ~Stored(t)
      /\ UNCHANGED <<branches, admin, paused, adding, renamed>> /\ NoMove
  BY DEF CheckoutCommit
<1>2. t \in Listed /\ (adding.step = "checking out" => t # adding.name)
  BY <1>1, FreeFacts
<1>3. branches' = branches /\ branches \subseteq LocalBranches
  BY <1>1, TypeFacts
<1> QED BY <1>1, <1>2, <1>3, HeadMoves DEF CheckoutCommit

LEMMA RenameKeeps ==
  ASSUME TreesOK, NEW t \in Worktree, NEW b \in LocalBranches, NEW c \in LocalBranches,
         RenameBranch(t, b, c)
  PROVE  TreesOK'
<1>1. /\ b \in branches /\ c \notin branches /\ b # c
      /\ branches' = (branches \ {b}) \cup {c} /\ renamed' = renamed \cup {b}
      /\ headOf' = [x \in Worktree |-> IF headOf[x] = b /\ x \in Listed THEN c ELSE headOf[x]]
      /\ UNCHANGED <<admin, paused, adding>> /\ NoMove
  BY DEF RenameBranch
<1>2. \A y \in Listed : b \notin PausedAt(y, {"rebase", "own rebase", "sequence"})
  BY RenameFacts DEF RenameBranch
<1>3. /\ Listed' = Listed /\ WithGitdir' = WithGitdir
      /\ b # Detached /\ c # Detached
      /\ \A x \in Listed : headOf'[x] = IF headOf[x] = b THEN c ELSE headOf[x]
      /\ \A x \in Worktree \ Listed : headOf'[x] = headOf[x]
      /\ \A x \in Listed : headOf[x] # c
  BY <1>1, TypeFacts DEF Listed, WithGitdir, Entries, TreesOK, NoneIsStranded
<1>4. TreesTypeOK'
  <2>1. headOf' \in [Worktree -> Named]
    BY <1>1, TypeFacts DEF Named
  <2> QED BY <1>1, <2>1 DEF TreesOK, TreesTypeOK
<1>5. NothingUnlisted'
  BY <1>1, <1>3, WorktreesAssumption DEF TreesOK, NothingUnlisted, Listed, Worktree
<1>6. PausesOK'
  BY <1>1, <1>2, <1>3, ZenonT(40) DEF TreesOK, PausesOK, PausedAt
<1>7. AddOK'
  <2> SUFFICES ASSUME adding.step = "checking out", admin[adding.name] = adding.place,
                      adding.branch \notin renamed'
               PROVE  /\ ~adding.existed /\ headOf'[adding.name] = adding.branch
                      /\ paused[adding.name] = NotPaused /\ adding.branch \in branches'
                      /\ adding.made =>
                           \A x \in Listed : adding.branch \notin PausedAt(x, Kinds) \cup paused[x].updates
    BY <1>1, <1>3 DEF TreesOK, AddOK, PausedAt
  <2>1. adding.branch # b /\ adding.branch \notin renamed
    BY <1>1
  <2>2. adding.name \in Listed
    BY WorktreesAssumption DEF TreesOK, TreesTypeOK, Listed, WithGitdir, Entries
  <2> QED BY <1>1, <1>3, <2>1, <2>2 DEF TreesOK, AddOK
<1>8. NoneIsStranded'
  <2> SUFFICES ASSUME NEW x \in Listed
               PROVE  /\ headOf'[x] # Detached => headOf'[x] \in branches'
                      /\ paused[x].kind \in Rebases => paused[x].branch \in branches'
                      /\ paused[x].kind = "bisect" => paused[x].branch \in branches' \cup renamed'
                      /\ paused[x].updates \subseteq branches' \cup renamed'
    BY <1>1, <1>3, WholeFacts DEF Whole
  <2>1. Whole
    BY WholeFacts DEF TreesOK
  <2>2. branches \subseteq branches' \cup {b} /\ b \in renamed' /\ c \in branches' /\ renamed \subseteq renamed'
    BY <1>1
  <2>3. headOf'[x] # Detached => headOf'[x] \in branches'
    BY <1>3, <2>1, <2>2 DEF Whole
  <2>4. paused[x].kind \in Rebases => paused[x].branch # b
    BY <1>2 DEF PausedAt, Rebases
  <2> QED BY <2>1, <2>2, <2>3, <2>4 DEF Whole
<1>9. Alone'
  <2> SUFFICES ASSUME NEW x \in Listed, NEW y \in Listed, x # y, headOf'[y] # Detached
               PROVE  headOf'[x] # headOf'[y]
                      /\ (paused[x].kind \in Rebases => paused[x].branch # headOf'[y])
    BY <1>1, <1>3 DEF Alone
  <2>1. headOf[y] # Detached
    BY <1>3
  <2>2. headOf[x] # headOf[y] /\ (paused[x].kind \in Rebases => paused[x].branch # headOf[y])
    BY <2>1, AloneFacts DEF TreesOK, Alone
  <2>3. paused[x].kind \in Rebases => paused[x].branch # c
    BY <1>1 DEF TreesOK, NoneIsStranded, PausedAt, Rebases
  <2> QED BY <1>3, <2>2, <2>3
<1> QED BY <1>1, <1>4, <1>5, <1>6, <1>7, <1>8, <1>9, AloneFacts, NoMoveFacts DEF TreesOK

LEMMA DeleteKeeps ==
  ASSUME TreesOK, NEW t \in Worktree, NEW b \in LocalBranches, DeleteBranch(t, b)
  PROVE  TreesOK'
<1>1. /\ ~Checked(b) /\ branches' = branches \ {b}
      /\ UNCHANGED <<admin, headOf, paused, adding, renamed>> /\ NoMove
  BY DEF DeleteBranch
<1>2. \A y \in Listed : /\ b \notin PausedAt(y, Kinds \ {"none"}) \cup paused[y].updates
                        /\ headOf[y] # b
  BY <1>1, MoveFacts DEF DeleteBranch, Checked
<1>3. Listed' = Listed /\ WithGitdir' = WithGitdir
  BY <1>1 DEF Listed, WithGitdir, Entries
<1>4. TreesTypeOK' /\ NothingUnlisted'
  BY <1>1, <1>3 DEF TreesOK, TreesTypeOK, NothingUnlisted
<1>5. PausesOK' /\ OneWorktreeEach'
  BY <1>1, <1>3 DEF TreesOK, PausesOK, OneWorktreeEach, OnBranch, PausedAt
<1>6. AddOK'
  <2>1. adding.step = "checking out" /\ admin[adding.name] = adding.place => adding.name \in Listed
    BY WorktreesAssumption DEF TreesOK, TreesTypeOK, Listed, WithGitdir, Entries
  <2> QED BY <1>1, <1>2, <1>3, <2>1 DEF TreesOK, AddOK, PausedAt
<1>7. NoneIsStranded'
  BY <1>1, <1>2, <1>3, ZenonT(40) DEF TreesOK, NoneIsStranded, PausedAt, Kinds
<1> QED BY <1>1, <1>4, <1>5, <1>6, <1>7, NoMoveFacts DEF TreesOK

LEMMA RestoreKeeps ==
  ASSUME TreesOK, NEW t \in Worktree, NEW b \in LocalBranches, RestoreReflogEntry(t, b)
  PROVE  TreesOK'
<1>1. /\ ~Stored(t) /\ lastMove' = [branch |-> b, by |-> t]
      /\ UNCHANGED <<branches, admin, headOf, paused, adding, renamed>>
  BY DEF RestoreReflogEntry, Moves
<1>2. \A y \in Listed : /\ b \notin PausedAt(y, Kinds \ {"none"}) \cup paused[y].updates
                        /\ y # t => headOf[y] # b
  BY MoveFacts DEF RestoreReflogEntry, Protected
<1>3. Listed' = Listed /\ WithGitdir' = WithGitdir
  BY <1>1 DEF Listed, WithGitdir, Entries
<1>4. TreesTypeOK' /\ NothingUnlisted' /\ PausesOK' /\ AddOK'
  BY <1>1, <1>3 DEF TreesOK, TreesTypeOK, NothingUnlisted, PausesOK, AddOK, PausedAt
<1>5. NoneIsStranded' /\ OneWorktreeEach'
  BY <1>1, <1>3 DEF TreesOK, NoneIsStranded, OneWorktreeEach, OnBranch, PausedAt
<1>6. NothingMovesUnder'
  BY <1>1, <1>2, <1>3 DEF NothingMovesUnder, OnBranch, PausedAt
<1> QED BY <1>4, <1>5, <1>6 DEF TreesOK

-----------------------------------------------------------------------------
(* Adding a worktree *)

\* A step that leaves branches, entries, HEADs and pauses as they are, and no add is checking
\* out after it.
LEMMA NothingKeeps ==
  ASSUME TreesOK, UNCHANGED <<branches, admin, headOf, paused, renamed>>, NoMove,
         \/ UNCHANGED adding
         \/ adding' \in Adding /\ adding'.step = "idle"
         \/ /\ adding' \in Adding /\ adding'.step = "checked"
            /\ adding'.name \in Linked /\ adding'.place \in Places /\ adding'.branch \in LocalBranches
  PROVE  TreesOK'
<1>1. Listed' = Listed /\ WithGitdir' = WithGitdir
  BY DEF Listed, WithGitdir, Entries
<1>2. TreesTypeOK' /\ NothingUnlisted' /\ PausesOK'
  BY <1>1 DEF TreesOK, TreesTypeOK, NothingUnlisted, PausesOK, PausedAt
<1>3. AddOK'
  BY <1>1 DEF TreesOK, AddOK, PausedAt
<1>4. NoneIsStranded' /\ OneWorktreeEach'
  BY <1>1 DEF TreesOK, NoneIsStranded, OneWorktreeEach, OnBranch, PausedAt
<1> QED BY <1>2, <1>3, <1>4, NoMoveFacts DEF TreesOK

LEMMA CheckAddKeeps ==
  ASSUME TreesOK, NEW t \in Worktree, NEW n \in Linked, NEW p \in Places, NEW b \in LocalBranches,
         CheckAdd(t, n, p, b)
  PROVE  TreesOK'
<1>1. /\ adding' \in Adding /\ adding'.step = "checked"
      /\ adding'.name \in Linked /\ adding'.place \in Places /\ adding'.branch \in LocalBranches
  BY DEF CheckAdd, Adding, Named, Worktree
<1>2. UNCHANGED <<branches, admin, headOf, paused, renamed>> /\ NoMove
  BY DEF CheckAdd
<1> QED BY <1>1, <1>2, NothingKeeps

\* An add that fails before it has checked anything out leaves all as it was.
LEMMA FailKeeps ==
  ASSUME TreesOK, adding.step = "checked",
         (adding.name \in Entries) = adding.existed,
         NEW entries, NEW stands,
         \/ entries = admin
         \/ /\ adding.name \notin Entries
            /\ \E e \in {Unwritten, adding.place} : entries = [admin EXCEPT ![adding.name] = e],
         GoBack(entries, adding.branch \notin branches, stands),
         UNCHANGED <<paused, renamed>>, NoMove
  PROVE  TreesOK'
<1> DEFINE n == adding.name
<1>1. n \in Linked /\ n \in Worktree /\ adding' \in Adding /\ adding'.step = "idle"
  BY DEF TreesOK, TreesTypeOK, GoBack, NotAdding, Adding, Named, Worktree
<1>2. branches' = branches
  BY DEF GoBack
<1>3. admin \in [Linked -> Places \cup {NoEntry, Unwritten}] /\ headOf \in [Worktree -> Named]
  BY DEF TreesOK, TreesTypeOK
<1>4. CASE ~OwnEntry(entries)
  <2>1. entries = admin
    BY <1>1, <1>3, <1>4 DEF OwnEntry
  <2>2. admin' = admin /\ headOf' = headOf
    BY <1>1, <1>3, <1>4, <2>1 DEF GoBack
  <2> QED BY <1>1, <1>2, <2>2, NothingKeeps
<1>5. CASE OwnEntry(entries)
  <2>1. n \notin Entries
    BY <1>5 DEF OwnEntry
  <2>2. admin[n] = NoEntry /\ headOf[n] = Detached
    BY <1>1, <2>1 DEF Entries, WithGitdir, TreesOK, NothingUnlisted
  <2>3. admin' = admin
    BY <1>1, <1>3, <1>5, <2>2 DEF GoBack
  <2>4. headOf' = headOf
    BY <1>1, <1>3, <1>5, <2>2 DEF GoBack
  <2> QED BY <1>1, <1>2, <2>3, <2>4, NothingKeeps
<1> QED BY <1>4, <1>5

\* The entry is written, and the worktree stands on a branch nobody else has.
LEMMA MadeKeeps ==
  ASSUME TreesOK, adding.step = "checked", ~adding.existed, adding.name \notin Entries,
         ~Checked(adding.branch), AddAllowed(adding.by, adding.branch),
         adding' = [adding EXCEPT !.step = "checking out", !.made = adding.branch \notin branches],
         branches' = branches \cup {adding.branch},
         admin' = [admin EXCEPT ![adding.name] = adding.place],
         headOf' = [headOf EXCEPT ![adding.name] = adding.branch],
         UNCHANGED <<paused, renamed>>, NoMove
  PROVE  TreesOK'
<1> DEFINE n == adding.name
           b == adding.branch
<1>1. /\ n \in Linked /\ n \in Worktree /\ n \notin Listed
      /\ b \in LocalBranches /\ b # Detached /\ adding.place \in Places /\ adding.by \in Worktree
  BY WorktreesAssumption DEF TreesOK, TreesTypeOK, Adding, Worktree, Listed, WithGitdir
<1>2. paused[n] = NotPaused
  BY <1>1 DEF TreesOK, NothingUnlisted, WithGitdir
<1>3. \A y \in Listed : headOf[y] # b /\ b \notin PausedAt(y, Rebases)
  BY <1>1, AddFacts
<1>4. /\ adding'.step = "checking out" /\ ~adding'.existed /\ adding'.made = (b \notin branches)
      /\ adding'.name = n /\ adding'.place = adding.place /\ adding'.branch = b /\ adding' \in Adding
  BY DEF TreesOK, TreesTypeOK, Adding
<1>5. /\ admin' \in [Linked -> Places \cup {NoEntry, Unwritten}]
      /\ headOf' \in [Worktree -> Named]
      /\ admin'[n] = adding.place /\ \A m \in Linked \ {n} : admin'[m] = admin[m]
      /\ headOf'[n] = b /\ \A x \in Worktree \ {n} : headOf'[x] = headOf[x]
  BY <1>1 DEF TreesOK, TreesTypeOK, Named
<1>6. Listed' = Listed \cup {n} /\ WithGitdir' = WithGitdir \cup {n} /\ n \notin WithGitdir
  BY <1>1, <1>5, WorktreesAssumption DEF Listed, WithGitdir, Entries
<1>7. /\ paused[n].kind = "none" /\ paused[n].updates = {} /\ PausedAt(n, Rebases) = {}
      /\ PausedAt(n, Kinds) = {Detached} /\ PausedAt(n, {"bisect"}) = {}
  BY <1>2 DEF NotPaused, PausedAt, Rebases, Kinds
<1>8. TreesTypeOK'
  BY <1>1, <1>4, <1>5 DEF TreesOK, TreesTypeOK
<1>9. NothingUnlisted'
  BY <1>1, <1>5, <1>6, WorktreesAssumption DEF TreesOK, NothingUnlisted, Worktree
<1>10. PausesOK'
  <2>1. paused[n].kind \notin Rebases /\ UNCHANGED paused
    BY <1>7 DEF Rebases
  <2>2. \A x, y \in Listed' :
          x # y /\ paused'[x].kind \in Rebases /\ paused'[y].kind \in Rebases =>
            paused'[x].branch # paused'[y].branch
    <3> SUFFICES ASSUME NEW x \in Listed', NEW y \in Listed', x # y,
                        paused[x].kind \in Rebases, paused[y].kind \in Rebases
                 PROVE  paused[x].branch # paused[y].branch
      BY <2>1
    <3>1. x \in Listed /\ y \in Listed
      BY <1>6, <2>1
    <3> QED BY <3>1 DEF TreesOK, PausesOK
  <2>3. \A x \in Listed : x # n /\ headOf'[x] = headOf[x]
    BY <1>1, <1>5, TypeFacts
  <2>4. ASSUME NEW x \in Listed'
        PROVE  /\ paused[x].kind = "none" => paused[x] = NotPaused
               /\ paused[x].kind = "own rebase" => headOf'[x] = Detached
               /\ paused[x].kind = "sequence" => headOf'[x] = paused[x].branch
               /\ paused[x].kind # "none" => paused[x].branch \in LocalBranches
    <3>1. CASE x = n
      BY <1>2, <1>7, <3>1
    <3>2. CASE x \in Listed
      BY <2>3, <3>2 DEF TreesOK, PausesOK
    <3> QED BY <1>6, <3>1, <3>2
  <2> QED BY <2>2, <2>4 DEF PausesOK
<1>11. NoneIsStranded'
  <2> SUFFICES ASSUME NEW x \in Listed'
               PROVE  /\ headOf'[x] # Detached => headOf'[x] \in branches'
                      /\ paused[x].kind \in Rebases => paused[x].branch \in branches'
                      /\ paused[x].kind = "bisect" => paused[x].branch \in branches' \cup renamed
                      /\ paused[x].updates \subseteq branches' \cup renamed
    BY WholeFacts DEF Whole
  <2>1. Whole /\ branches \subseteq branches' /\ b \in branches'
    BY WholeFacts DEF TreesOK
  <2>2. CASE x = n
    BY <1>5, <1>7, <2>1, <2>2 DEF Rebases
  <2>3. CASE x \in Listed
    <3>1. x # n /\ headOf'[x] = headOf[x]
      BY <1>1, <1>5, <2>3, TypeFacts
    <3> QED BY <2>1, <2>3, <3>1 DEF Whole
  <2> QED BY <1>6, <2>2, <2>3
<1>12. Alone'
  <2>1. \A x \in Listed : x # n /\ headOf'[x] = headOf[x] /\ headOf[x] # b
    BY <1>1, <1>3, <1>5, TypeFacts
  <2>2. \A x \in Listed : paused[x].kind \in Rebases => paused[x].branch # b
    BY <1>3 DEF PausedAt
  <2>3. Alone /\ paused[n].kind \notin Rebases
    BY <1>7, AloneFacts DEF TreesOK, Rebases
  <2> QED BY <1>5, <1>6, <2>1, <2>2, <2>3 DEF Alone
<1>13. AddOK'
  <2>1. b \notin branches /\ b \notin renamed =>
          \A x \in Listed : b \notin PausedAt(x, Kinds) \cup paused[x].updates
    <3> SUFFICES ASSUME b \notin branches, b \notin renamed, NEW x \in Listed
                 PROVE  b \notin PausedAt(x, Kinds) \cup paused[x].updates
      OBVIOUS
    <3>1. b \notin PausedAt(x, {"rebase", "own rebase"}) \cup PausedAt(x, {"bisect"}) \cup paused[x].updates
      BY DEF TreesOK, NoneIsStranded
    <3>2. paused[x].kind = "sequence" => paused[x].branch # b
      BY <1>3 DEF TreesOK, PausesOK
    <3>3. paused[x].kind = "none" => paused[x].branch # b
      <4>1. NotPaused.branch = Detached
        BY DEF NotPaused
      <4> QED BY <1>1, <4>1 DEF TreesOK, PausesOK
    <3> QED BY <3>1, <3>2, <3>3 DEF PausedAt, Kinds
  <2>2. \A x \in Listed' : (PausedAt(x, Kinds) \cup paused[x].updates)'
                           = PausedAt(x, Kinds) \cup paused[x].updates
    BY DEF PausedAt
  <2>3. b \notin PausedAt(n, Kinds) \cup paused[n].updates
    BY <1>1, <1>7
  <2>4. adding'.made /\ b \notin renamed =>
          \A x \in Listed' : b \notin (PausedAt(x, Kinds) \cup paused[x].updates)'
    BY <1>4, <1>6, <2>1, <2>2, <2>3
  <2>5. headOf'[n] = b /\ paused'[n] = NotPaused /\ b \in branches' /\ ~adding'.existed
    BY <1>2, <1>4, <1>5
  <2> QED BY <1>4, <2>4, <2>5 DEF AddOK
<1> QED BY <1>8, <1>9, <1>10, <1>11, <1>12, <1>13, AloneFacts, NoMoveFacts DEF TreesOK

LEMMA WriteKeeps == ASSUME TreesOK, WriteEntry, ~overtaken' PROVE TreesOK'
<1> DEFINE n == adding.name
<1>1. /\ adding.step = "checked" /\ AddAllowed(adding.by, adding.branch)
      /\ (n \in Entries) = adding.existed /\ adding.existed \in BOOLEAN
      /\ UNCHANGED <<paused, renamed>> /\ NoMove
  BY DEF WriteEntry, TreesOK, TreesTypeOK, Adding
<1>2. CASE /\ GetsTo("gitdir") /\ ~Checked(adding.branch)
           /\ adding' = [adding EXCEPT !.step = "checking out", !.made = adding.branch \notin branches]
           /\ branches' = branches \cup {adding.branch}
           /\ admin' = [admin EXCEPT ![n] = adding.place]
           /\ headOf' = [headOf EXCEPT ![n] = adding.branch]
  BY <1>1, <1>2, MadeKeeps DEF GetsTo
<1>3. ASSUME NEW stage \in Stages, NEW entries, NEW stands, GetsTo(stage),
             entries = CASE stage = "gitdir" -> [admin EXCEPT ![n] = adding.place]
                         [] stage = "nothing" -> admin
                         [] OTHER -> [admin EXCEPT ![n] = Unwritten],
             GoBack(entries, adding.branch \notin branches, stands)
      PROVE  TreesOK'
  <2>1. CASE stage = "nothing"
    BY <1>1, <1>3, <2>1, FailKeeps
  <2>2. CASE stage # "nothing"
    <3>1. n \notin Entries
      BY <1>3, <2>2 DEF GetsTo
    <3>2. \E e \in {Unwritten, adding.place} : entries = [admin EXCEPT ![n] = e]
      BY <1>3, <2>2
    <3> QED BY <1>1, <1>3, <3>1, <3>2, FailKeeps
  <2> QED BY <2>1, <2>2
<1> QED BY <1>2, <1>3 DEF WriteEntry

-----------------------------------------------------------------------------
(* Worktrees go *)

\* Entries go, with what is paused there; the branches that are left keep what the other
\* worktrees need.
LEMMA DropKeeps ==
  ASSUME TreesOK, NEW ns \in SUBSET WithGitdir,
         admin' \in [Linked -> Places \cup {NoEntry, Unwritten}],
         \A n \in Linked : admin'[n] = IF n \in ns THEN NoEntry ELSE admin[n],
         headOf' \in [Worktree -> Named],
         \A x \in Worktree : headOf'[x] = IF x \in ns THEN Detached ELSE headOf[x],
         \A x \in Worktree : paused'[x] = IF x \in ns THEN NotPaused ELSE paused[x],
         paused' \in [Worktree -> Pause],
         branches' \subseteq branches,
         \A b \in branches \ branches', x \in Listed \ ns :
           headOf[x] # b /\ b \notin PausedAt(x, Kinds) \cup paused[x].updates,
         \/ UNCHANGED <<adding, branches>>
         \/ adding' \in Adding /\ adding'.step = "idle",
         UNCHANGED renamed, NoMove
  PROVE  TreesOK'
<1>1. /\ WithGitdir' = WithGitdir \ ns /\ Listed' = Listed \ ns
      /\ ns \subseteq Linked /\ Listed \subseteq Worktree
  BY WorktreesAssumption, TypeFacts DEF Listed, WithGitdir, Entries, Unwritten, NoEntry
<1>2. \A x \in Listed' : x \in Listed /\ headOf'[x] = headOf[x] /\ paused'[x] = paused[x]
  BY <1>1
<1>3. TreesTypeOK'
  BY DEF TreesOK, TreesTypeOK
<1>4. NothingUnlisted'
  BY <1>1 DEF TreesOK, NothingUnlisted, Worktree
<1>5. PausesOK'
  <2>1. \A x, y \in Listed' :
          x # y /\ paused'[x].kind \in Rebases /\ paused'[y].kind \in Rebases =>
            paused'[x].branch # paused'[y].branch
    <3> SUFFICES ASSUME NEW x \in Listed', NEW y \in Listed', x # y,
                        paused'[x].kind \in Rebases, paused'[y].kind \in Rebases
                 PROVE  paused'[x].branch # paused'[y].branch
      OBVIOUS
    <3>1. /\ x \in Listed /\ paused'[x] = paused[x]
          /\ y \in Listed /\ paused'[y] = paused[y]
      BY <1>2
    <3>2. \A v, w \in Listed :
            v # w /\ paused[v].kind \in Rebases /\ paused[w].kind \in Rebases =>
              paused[v].branch # paused[w].branch
      BY DEF TreesOK, PausesOK
    <3>3. paused[x].kind \in Rebases /\ paused[y].kind \in Rebases
      BY <3>1
    <3>4. paused[x].branch # paused[y].branch
      BY <3>1, <3>2, <3>3
    <3> QED BY <3>1, <3>4
  <2> QED BY <1>2, <2>1, ZenonT(40) DEF TreesOK, PausesOK
<1>6. NoneIsStranded'
  <2> SUFFICES ASSUME NEW x \in Listed'
               PROVE  /\ headOf'[x] # Detached => headOf'[x] \in branches'
                      /\ paused'[x].kind \in Rebases => paused'[x].branch \in branches'
                      /\ paused'[x].kind = "bisect" => paused'[x].branch \in branches' \cup renamed'
                      /\ paused'[x].updates \subseteq branches' \cup renamed'
    BY WholeFacts DEF Whole
  <2>1. /\ x \in Listed \ ns /\ headOf'[x] = headOf[x] /\ paused'[x] = paused[x]
        /\ renamed' = renamed /\ paused[x].kind \in Kinds
    BY <1>1, <1>2, TypeFacts
  <2>2. Whole
    BY WholeFacts DEF TreesOK
  <2>3. \A b \in branches :
          b \in branches' \/ (headOf[x] # b /\ b \notin PausedAt(x, Kinds) \cup paused[x].updates)
    BY <2>1
  <2>4. paused[x].branch \in branches => paused[x].branch \in branches'
    BY <2>1, <2>3 DEF PausedAt
  <2> QED BY <2>1, <2>2, <2>3, <2>4 DEF Whole
<1>7. Alone'
  BY <1>2, AloneFacts DEF TreesOK, Alone
<1>8. AddOK'
  <2> SUFFICES ASSUME UNCHANGED <<adding, branches>>, adding.step = "checking out",
                      admin'[adding.name] = adding.place, adding.branch \notin renamed
               PROVE  /\ headOf'[adding.name] = adding.branch
                      /\ paused'[adding.name] = NotPaused /\ adding.branch \in branches
                      /\ adding.made => \A x \in Listed' :
                           adding.branch \notin (PausedAt(x, Kinds) \cup paused[x].updates)'
    BY DEF TreesOK, AddOK
  <2>1. adding.name \in Linked /\ adding.place \in Places
    BY DEF TreesOK, TreesTypeOK
  <2>2. adding.name \notin ns /\ admin[adding.name] = adding.place
    <3>1. admin'[adding.name] = IF adding.name \in ns THEN NoEntry ELSE admin[adding.name]
      BY <2>1
    <3>2. adding.place # NoEntry
      BY <2>1, WorktreesAssumption, Zenon
    <3> QED BY <3>1, <3>2
  <2>3. /\ headOf[adding.name] = adding.branch /\ paused[adding.name] = NotPaused
        /\ adding.branch \in branches
        /\ adding.made => \A x \in Listed : adding.branch \notin PausedAt(x, Kinds) \cup paused[x].updates
    BY <2>2 DEF TreesOK, AddOK
  <2>4. headOf'[adding.name] = headOf[adding.name] /\ paused'[adding.name] = paused[adding.name]
    BY <2>1, <2>2 DEF Worktree
  <2> QED BY <1>2, <2>3, <2>4 DEF PausedAt
<1> QED BY <1>3, <1>4, <1>5, <1>6, <1>7, <1>8, AloneFacts, NoMoveFacts DEF TreesOK

LEMMA LeftFacts ==
  ASSUME TreesOK, NEW ns \in SUBSET Linked,
         admin' = Dropped(ns), paused' = Rested(ns), headOf' = Left(ns)
  PROVE  /\ admin' \in [Linked -> Places \cup {NoEntry, Unwritten}]
         /\ \A n \in Linked : admin'[n] = IF n \in ns THEN NoEntry ELSE admin[n]
         /\ headOf' \in [Worktree -> Named]
         /\ \A x \in Worktree : headOf'[x] = IF x \in ns THEN Detached ELSE headOf[x]
         /\ paused' \in [Worktree -> Pause]
         /\ \A x \in Worktree : paused'[x] = IF x \in ns THEN NotPaused ELSE paused[x]
<1>1. /\ admin \in [Linked -> Places \cup {NoEntry, Unwritten}]
      /\ headOf \in [Worktree -> Named] /\ paused \in [Worktree -> Pause]
  BY DEF TreesOK, TreesTypeOK
<1>2. NotPaused \in Pause /\ Detached \in Named
  BY DEF NotPaused, Pause, Kinds, Named
<1>3. /\ admin' \in [Linked -> Places \cup {NoEntry, Unwritten}]
      /\ \A n \in Linked : admin'[n] = IF n \in ns THEN NoEntry ELSE admin[n]
  BY <1>1 DEF Dropped
<1>4. /\ headOf' \in [Worktree -> Named]
      /\ \A x \in Worktree : headOf'[x] = IF x \in ns THEN Detached ELSE headOf[x]
  BY <1>1, <1>2 DEF Left
<1>5. /\ paused' \in [Worktree -> Pause]
      /\ \A x \in Worktree : paused'[x] = IF x \in ns THEN NotPaused ELSE paused[x]
  BY <1>1, <1>2 DEF Rested
<1> QED BY <1>3, <1>4, <1>5

LEMMA RemoveKeeps ==
  ASSUME TreesOK, NEW t \in Worktree, NEW n \in Linked, RemoveWorktree(t, n)
  PROVE  TreesOK'
<1>1. /\ {n} \in SUBSET WithGitdir /\ {n} \in SUBSET Linked
      /\ admin' = Dropped({n}) /\ paused' = Rested({n}) /\ headOf' = Left({n})
      /\ UNCHANGED <<branches, adding, renamed>> /\ NoMove
  BY DEF RemoveWorktree
<1>2. branches \ branches' = {} /\ branches' \subseteq branches
  BY <1>1
<1> HIDE DEF Dropped, Rested, Left
<1> QED BY <1>1, <1>2, LeftFacts, DropKeeps

LEMMA PruneKeeps ==
  ASSUME TreesOK, NEW t \in Worktree, PruneWorktrees(t)
  PROVE  TreesOK'
<1> DEFINE ns == {n \in WithGitdir : Prunable(n)}
<1>1. /\ ns \in SUBSET WithGitdir /\ ns \in SUBSET Linked
      /\ admin' = Dropped(ns) /\ paused' = Rested(ns) /\ headOf' = Left(ns)
      /\ UNCHANGED <<branches, adding, renamed>> /\ NoMove
  BY DEF PruneWorktrees, WithGitdir, Entries
<1>2. branches \ branches' = {} /\ branches' \subseteq branches
  BY <1>1
<1> HIDE DEF ns
<1> QED BY <1>1, <1>2, LeftFacts, DropKeeps

LEMMA CheckOutTreeKeeps == ASSUME TreesOK, CheckOutTree, ~overtaken' PROVE TreesOK'
<1> DEFINE n == adding.name
<1>1. /\ adding.step = "checking out" /\ UNCHANGED <<paused, renamed>> /\ NoMove
      /\ adding.branch \notin renamed /\ admin[n] = adding.place
  BY DEF CheckOutTree
<1>2. /\ n \in Linked /\ n \in Worktree /\ adding.place \in Places
      /\ admin \in [Linked -> Places \cup {NoEntry, Unwritten}]
      /\ headOf \in [Worktree -> Named] /\ paused \in [Worktree -> Pause]
  BY <1>1 DEF TreesOK, TreesTypeOK, Worktree
<1>3. \A r \in {"failed", "added", "killed"} :
        [NotAdding EXCEPT !.result = r] \in Adding /\ [NotAdding EXCEPT !.result = r].step = "idle"
  BY DEF NotAdding, Adding, Named, Worktree
<1>4. CASE /\ adding' \in {[NotAdding EXCEPT !.result = "added"], [NotAdding EXCEPT !.result = "killed"]}
           /\ UNCHANGED <<admin, branches, headOf>>
  BY <1>1, <1>3, <1>4, NothingKeeps
<1>5. CASE GoBack(admin, adding.made, folder[adding.place])
  <2>1. /\ ~adding.existed /\ paused[n] = NotPaused /\ adding.branch \in branches
        /\ adding.made => \A x \in Listed : adding.branch \notin PausedAt(x, Kinds) \cup paused[x].updates
    BY <1>1 DEF TreesOK, AddOK
  <2>2. OwnEntry(admin)
    BY <1>1, <2>1 DEF OwnEntry
  <2>3. adding' \in Adding /\ adding'.step = "idle"
    BY <1>3, <1>5 DEF GoBack
  <2>4. admin' = [admin EXCEPT ![n] = NoEntry] /\ headOf' = [headOf EXCEPT ![n] = Detached]
    BY <1>2, <1>5, <2>2 DEF GoBack
  <2>5. /\ admin' \in [Linked -> Places \cup {NoEntry, Unwritten}]
        /\ \A m \in Linked : admin'[m] = IF m \in {n} THEN NoEntry ELSE admin[m]
    BY <1>2, <2>4
  <2>6. /\ headOf' \in [Worktree -> Named]
        /\ \A x \in Worktree : headOf'[x] = IF x \in {n} THEN Detached ELSE headOf[x]
    BY <1>2, <2>4 DEF Named
  <2>7. /\ paused' \in [Worktree -> Pause]
        /\ \A x \in Worktree : paused'[x] = IF x \in {n} THEN NotPaused ELSE paused[x]
    BY <1>1, <1>2, <2>1
  <2>8. n \in WithGitdir /\ {n} \in SUBSET WithGitdir
    BY <1>1, <1>2, WorktreesAssumption DEF WithGitdir, Entries
  <2>9. /\ branches' \subseteq branches
        /\ \A b \in branches \ branches', x \in Listed \ {n} :
             headOf[x] # b /\ b \notin PausedAt(x, Kinds) \cup paused[x].updates
    BY <1>5, <2>1 DEF GoBack
  <2> QED BY <1>1, <2>3, <2>5, <2>6, <2>7, <2>8, <2>9, DropKeeps
<1> QED BY <1>4, <1>5 DEF CheckOutTree

-----------------------------------------------------------------------------
(* What happens in terminals *)

LEMMA StartKeeps ==
  ASSUME TreesOK, NEW x \in Worktree, NEW kind \in Kinds \ {"none"}, NEW us \in UpdatesOf(x, kind),
         StartOperation(x, kind, us)
  PROVE  TreesOK'
<1> DEFINE b == headOf[x]
<1>1. /\ x \in Listed \ HalfMade /\ b # Detached /\ paused[x].kind = "none"
      /\ paused' = [paused EXCEPT ![x] = [kind |-> kind, branch |-> b, updates |-> us]]
      /\ UNCHANGED <<branches, admin, adding, renamed>> /\ NoMove
  BY DEF StartOperation
<1>2. /\ b \in branches /\ b \in LocalBranches
      /\ us \subseteq branches /\ \A y \in Listed : headOf[y] \notin us
  BY <1>1, TypeFacts, WholeFacts DEF TreesOK, Whole, UpdatesOf
<1>3. adding.step = "checking out" => x # adding.name
  BY <1>1 DEF HalfMade
<1>4. /\ paused' \in [Worktree -> Pause] /\ headOf' \in [Worktree -> Named]
      /\ paused'[x].kind = kind /\ paused'[x].branch = b /\ paused'[x].updates = us
      /\ \A y \in Worktree \ {x} : paused'[y] = paused[y] /\ headOf'[y] = headOf[y]
      /\ headOf'[x] = IF kind = "sequence" THEN b ELSE Detached
  <2>1. paused \in [Worktree -> Pause] /\ headOf \in [Worktree -> Named]
    BY DEF TreesOK, TreesTypeOK
  <2>2. [kind |-> kind, branch |-> b, updates |-> us] \in Pause
    BY <1>2, TypeFacts DEF Pause, Named
  <2>3. /\ paused' \in [Worktree -> Pause] /\ paused'[x] = [kind |-> kind, branch |-> b, updates |-> us]
        /\ \A y \in Worktree \ {x} : paused'[y] = paused[y]
    BY <1>1, <2>1, <2>2
  <2>4. headOf' = IF kind = "sequence" THEN headOf ELSE [headOf EXCEPT ![x] = Detached]
    BY DEF StartOperation
  <2>5. /\ headOf' \in [Worktree -> Named] /\ \A y \in Worktree \ {x} : headOf'[y] = headOf[y]
        /\ headOf'[x] = IF kind = "sequence" THEN b ELSE Detached
    BY <2>1, <2>4 DEF Named
  <2> QED BY <2>3, <2>5
<1>5. /\ Listed' = Listed /\ WithGitdir' = WithGitdir /\ Listed \subseteq Worktree
      /\ \A y \in Listed \ {x} : paused'[y] = paused[y] /\ headOf'[y] = headOf[y]
  BY <1>1, <1>4, TypeFacts DEF Listed, WithGitdir, Entries
<1>6. /\ \A y \in Listed \ {x} : headOf[y] # b /\ (paused[y].kind \in Rebases => paused[y].branch # b)
      /\ Alone /\ Whole
  BY <1>1, AloneFacts, WholeFacts DEF TreesOK, Alone
<1>7. TreesTypeOK'
  BY <1>1, <1>4 DEF TreesOK, TreesTypeOK
<1>8. NothingUnlisted'
  <2> SUFFICES ASSUME NEW n \in Linked \ WithGitdir
               PROVE  headOf'[n] = Detached /\ paused'[n] = NotPaused
    BY <1>5 DEF NothingUnlisted
  <2>1. n # x /\ n \in Worktree
    BY <1>1, WorktreesAssumption DEF Listed, Worktree
  <2> QED BY <1>4, <2>1 DEF TreesOK, NothingUnlisted
<1>9. PausesOK'
  <2>1. ASSUME NEW y \in Listed
        PROVE  /\ paused'[y].kind = "none" => paused'[y] = NotPaused
               /\ paused'[y].kind = "own rebase" => headOf'[y] = Detached
               /\ paused'[y].kind = "sequence" => headOf'[y] = paused'[y].branch
               /\ paused'[y].kind # "none" => paused'[y].branch \in LocalBranches
    <3>1. CASE y = x
      BY <1>2, <1>4, <3>1
    <3>2. CASE y # x
      BY <1>5, <3>2 DEF TreesOK, PausesOK
    <3> QED BY <3>1, <3>2
  <2>2. ASSUME NEW y \in Listed, NEW z \in Listed, y # z,
               paused'[y].kind \in Rebases, paused'[z].kind \in Rebases
        PROVE  paused'[y].branch # paused'[z].branch
    <3>1. CASE y = x
      BY <1>4, <1>5, <1>6, <2>2, <3>1
    <3>2. CASE z = x
      BY <1>4, <1>5, <1>6, <2>2, <3>2
    <3>3. CASE y # x /\ z # x
      BY <1>5, <2>2, <3>3, ZenonT(40) DEF TreesOK, PausesOK
    <3> QED BY <3>1, <3>2, <3>3
  <2> QED BY <1>5, <2>1, <2>2 DEF PausesOK
<1>10. Whole'
  <2> SUFFICES ASSUME NEW y \in Listed
               PROVE  /\ headOf'[y] # Detached => headOf'[y] \in branches
                      /\ paused'[y].kind \in Rebases => paused'[y].branch \in branches
                      /\ paused'[y].kind = "bisect" => paused'[y].branch \in branches \cup renamed
                      /\ paused'[y].updates \subseteq branches \cup renamed
    BY <1>1, <1>5 DEF Whole
  <2>1. CASE y = x
    BY <1>2, <1>4, <2>1
  <2>2. CASE y # x
    BY <1>5, <1>6, <2>2 DEF Whole
  <2> QED BY <2>1, <2>2
<1>11. Alone'
  <2> SUFFICES ASSUME NEW y \in Listed, NEW z \in Listed, y # z, headOf'[z] # Detached
               PROVE  headOf'[y] # headOf'[z]
                      /\ (paused'[y].kind \in Rebases => paused'[y].branch # headOf'[z])
    BY <1>5 DEF Alone
  <2>1. CASE y = x
    BY <1>4, <1>5, <1>6, <2>1
  <2>2. CASE z = x
    <3>1. headOf'[z] = b
      BY <1>4, <2>2
    <3> QED BY <1>5, <1>6, <2>2, <3>1
  <2>3. CASE y # x /\ z # x
    BY <1>5, <1>6, <2>3 DEF Alone
  <2> QED BY <2>1, <2>2, <2>3
<1>12. AddOK'
  <2> SUFFICES ASSUME adding.step = "checking out", admin[adding.name] = adding.place,
                      adding.branch \notin renamed
               PROVE  /\ headOf'[adding.name] = adding.branch
                      /\ paused'[adding.name] = NotPaused /\ adding.branch \in branches
                      /\ adding.made => \A y \in Listed :
                           adding.branch \notin (PausedAt(y, Kinds) \cup paused[y].updates)'
    BY <1>1, <1>5 DEF TreesOK, AddOK
  <2>1. /\ headOf[adding.name] = adding.branch /\ paused[adding.name] = NotPaused
        /\ adding.branch \in branches
        /\ adding.made => \A y \in Listed : adding.branch \notin PausedAt(y, Kinds) \cup paused[y].updates
    BY DEF TreesOK, AddOK
  <2>2. adding.name \in Listed \ {x}
    BY <1>3, WorktreesAssumption DEF TreesOK, TreesTypeOK, Listed, WithGitdir, Entries
  <2>3. adding.branch \notin us /\ adding.branch # b
    BY <1>2, <1>6, <2>1, <2>2
  <2>4. \A y \in Listed \ {x} : (PausedAt(y, Kinds) \cup paused[y].updates)'
                                = PausedAt(y, Kinds) \cup paused[y].updates
    BY <1>5 DEF PausedAt
  <2>5. (PausedAt(x, Kinds) \cup paused[x].updates)' = {b} \cup us
    BY <1>4 DEF PausedAt
  <2>6. headOf'[adding.name] = adding.branch /\ paused'[adding.name] = NotPaused
    BY <1>5, <2>1, <2>2
  <2> QED BY <2>1, <2>3, <2>4, <2>5, <2>6
<1> QED BY <1>1, <1>7, <1>8, <1>9, <1>10, <1>11, <1>12, AloneFacts, WholeFacts, NoMoveFacts DEF TreesOK

LEMMA EndKeeps == ASSUME TreesOK, NEW x \in Worktree, EndOperation(x) PROVE TreesOK'
<1> DEFINE b == paused[x].branch
<1>1. /\ x \in Listed /\ paused[x].kind # "none" /\ paused' = Rested({x})
      /\ UNCHANGED <<branches, admin, adding, renamed>> /\ NoMove
      /\ headOf' = IF paused[x].kind = "sequence" \/ headOf[x] # Detached THEN headOf
                   ELSE [headOf EXCEPT ![x] = b]
  BY DEF EndOperation
<1>2. /\ Alone /\ Whole /\ b \in LocalBranches /\ b # Detached
      /\ paused[x].kind \in {"sequence", "bisect"} \cup Rebases
  BY <1>1, TypeFacts, AloneFacts, WholeFacts DEF TreesOK, PausesOK, Rebases, Kinds
<1>3. paused[x].kind # "sequence" =>
        /\ b \in branches
        /\ \A y \in Listed \ {x} : headOf[y] # b /\ (paused[y].kind \in Rebases => paused[y].branch # b)
  <2>1. CASE paused[x].kind = "bisect"
    <3>1. b \in branches /\ \A y \in Listed \ {x} : headOf[y] # b /\ b \notin PausedAt(y, Kinds)
      BY <2>1 DEF EndOperation
    <3> QED BY <3>1 DEF PausedAt, Rebases, Kinds
  <2>2. CASE paused[x].kind \in Rebases
    <3>1. b \in branches
      BY <1>1, <1>2, <2>2 DEF Whole
    <3>2. \A y \in Listed \ {x} : headOf[y] # b
      BY <1>1, <1>2, <2>2 DEF Alone
    <3>3. \A y \in Listed \ {x} : paused[y].kind \in Rebases => paused[y].branch # b
      BY <1>1, <2>2 DEF TreesOK, PausesOK
    <3> QED BY <3>1, <3>2, <3>3
  <2> QED BY <1>2, <2>1, <2>2
<1>4. /\ paused' \in [Worktree -> Pause] /\ headOf' \in [Worktree -> Named]
      /\ paused'[x] = NotPaused
      /\ \A y \in Worktree \ {x} : paused'[y] = paused[y] /\ headOf'[y] = headOf[y]
      /\ headOf'[x] = headOf[x] \/ (headOf'[x] = b /\ paused[x].kind # "sequence")
  <2>1. paused \in [Worktree -> Pause] /\ headOf \in [Worktree -> Named]
    BY DEF TreesOK, TreesTypeOK
  <2>2. NotPaused \in Pause
    BY DEF NotPaused, Pause, Kinds, Named
  <2>3. /\ paused' \in [Worktree -> Pause] /\ paused'[x] = NotPaused
        /\ \A y \in Worktree \ {x} : paused'[y] = paused[y]
    BY <1>1, <2>1, <2>2 DEF Rested
  <2>4. /\ headOf' \in [Worktree -> Named] /\ \A y \in Worktree \ {x} : headOf'[y] = headOf[y]
        /\ headOf'[x] = headOf[x] \/ (headOf'[x] = b /\ paused[x].kind # "sequence")
    BY <1>1, <1>2, <2>1 DEF Named
  <2> QED BY <2>3, <2>4
<1>5. /\ Listed' = Listed /\ WithGitdir' = WithGitdir /\ Listed \subseteq Worktree
      /\ \A y \in Listed \ {x} : paused'[y] = paused[y] /\ headOf'[y] = headOf[y]
      /\ paused'[x].kind = "none" /\ paused'[x].updates = {} /\ paused'[x].branch = Detached
  <2>1. Listed' = Listed /\ WithGitdir' = WithGitdir /\ Listed \subseteq Worktree
    BY <1>1, TypeFacts DEF Listed, WithGitdir, Entries
  <2>2. \A y \in Listed \ {x} : paused'[y] = paused[y] /\ headOf'[y] = headOf[y]
    BY <1>4, <2>1
  <2>3. paused'[x].kind = "none" /\ paused'[x].updates = {} /\ paused'[x].branch = Detached
    BY <1>4 DEF NotPaused
  <2> QED BY <2>1, <2>2, <2>3
<1>6. /\ headOf'[x] # Detached => headOf'[x] \in branches
      /\ headOf'[x] # Detached => \A y \in Listed \ {x} :
           headOf[y] # headOf'[x] /\ (paused[y].kind \in Rebases => paused[y].branch # headOf'[x])
  <2>1. CASE headOf'[x] = headOf[x]
    BY <1>1, <1>2, <2>1 DEF Alone, Whole
  <2>2. CASE headOf'[x] = b /\ paused[x].kind # "sequence"
    BY <1>3, <2>2
  <2> QED BY <1>4, <2>1, <2>2
<1>7. TreesTypeOK'
  BY <1>1, <1>4 DEF TreesOK, TreesTypeOK
<1>8. NothingUnlisted'
  <2> SUFFICES ASSUME NEW n \in Linked \ WithGitdir
               PROVE  headOf'[n] = Detached /\ paused'[n] = NotPaused
    BY <1>5 DEF NothingUnlisted
  <2>1. n # x /\ n \in Worktree
    BY <1>1, WorktreesAssumption DEF Listed, Worktree
  <2> QED BY <1>4, <2>1 DEF TreesOK, NothingUnlisted
<1>9. PausesOK'
  <2>1. ASSUME NEW y \in Listed
        PROVE  /\ paused'[y].kind = "none" => paused'[y] = NotPaused
               /\ paused'[y].kind = "own rebase" => headOf'[y] = Detached
               /\ paused'[y].kind = "sequence" => headOf'[y] = paused'[y].branch
               /\ paused'[y].kind # "none" => paused'[y].branch \in LocalBranches
    <3>1. CASE y = x
      BY <1>4, <1>5, <3>1
    <3>2. CASE y # x
      BY <1>5, <3>2 DEF TreesOK, PausesOK
    <3> QED BY <3>1, <3>2
  <2>2. ASSUME NEW y \in Listed, NEW z \in Listed, y # z,
               paused'[y].kind \in Rebases, paused'[z].kind \in Rebases
        PROVE  paused'[y].branch # paused'[z].branch
    <3>1. y # x /\ z # x
      BY <1>5, <2>2 DEF Rebases
    <3>2. paused'[y] = paused[y] /\ paused'[z] = paused[z]
      BY <1>5, <3>1
    <3>3. \A v, w \in Listed :
            v # w /\ paused[v].kind \in Rebases /\ paused[w].kind \in Rebases =>
              paused[v].branch # paused[w].branch
      BY DEF TreesOK, PausesOK
    <3>4. paused[y].kind \in Rebases /\ paused[z].kind \in Rebases
      BY <2>2, <3>2
    <3>5. paused[y].branch # paused[z].branch
      BY <2>2, <3>3, <3>4
    <3> QED BY <3>2, <3>5
  <2> QED BY <1>5, <2>1, <2>2 DEF PausesOK
<1>10. Whole'
  <2> SUFFICES ASSUME NEW y \in Listed
               PROVE  /\ headOf'[y] # Detached => headOf'[y] \in branches
                      /\ paused'[y].kind \in Rebases => paused'[y].branch \in branches
                      /\ paused'[y].kind = "bisect" => paused'[y].branch \in branches \cup renamed
                      /\ paused'[y].updates \subseteq branches \cup renamed
    BY <1>1, <1>5 DEF Whole
  <2>1. CASE y = x
    BY <1>5, <1>6, <2>1 DEF Rebases
  <2>2. CASE y # x
    BY <1>2, <1>5, <2>2 DEF Whole
  <2> QED BY <2>1, <2>2
<1>11. Alone'
  <2> SUFFICES ASSUME NEW y \in Listed, NEW z \in Listed, y # z, headOf'[z] # Detached
               PROVE  headOf'[y] # headOf'[z]
                      /\ (paused'[y].kind \in Rebases => paused'[y].branch # headOf'[z])
    BY <1>5 DEF Alone
  <2>1. CASE y = x
    <3>1. paused'[y].kind \notin Rebases /\ headOf'[z] = headOf[z]
      BY <1>5, <2>1 DEF Rebases
    <3> QED BY <1>6, <2>1, <3>1
  <2>2. CASE z = x
    BY <1>5, <1>6, <2>2
  <2>3. CASE y # x /\ z # x
    BY <1>2, <1>5, <2>3 DEF Alone
  <2> QED BY <2>1, <2>2, <2>3
<1>12. AddOK'
  <2> SUFFICES ASSUME adding.step = "checking out", admin[adding.name] = adding.place,
                      adding.branch \notin renamed
               PROVE  /\ headOf'[adding.name] = adding.branch
                      /\ paused'[adding.name] = NotPaused /\ adding.branch \in branches
                      /\ adding.made => \A y \in Listed :
                           adding.branch \notin (PausedAt(y, Kinds) \cup paused[y].updates)'
    BY <1>1, <1>5 DEF TreesOK, AddOK
  <2>1. /\ headOf[adding.name] = adding.branch /\ paused[adding.name] = NotPaused
        /\ adding.branch \in branches
        /\ adding.made => \A y \in Listed : adding.branch \notin PausedAt(y, Kinds) \cup paused[y].updates
    BY DEF TreesOK, AddOK
  <2>2. adding.name \in Listed \ {x}
    <3>1. NotPaused.kind = "none"
      BY DEF NotPaused
    <3>2. adding.name # x
      BY <1>1, <2>1, <3>1
    <3>3. adding.name \in Listed
      BY WorktreesAssumption DEF TreesOK, TreesTypeOK, Listed, WithGitdir, Entries
    <3> QED BY <3>2, <3>3
  <2>3. adding.branch # Detached
    BY <2>1, TypeFacts
  <2>4. \A y \in Listed \ {x} : (PausedAt(y, Kinds) \cup paused[y].updates)'
                                = PausedAt(y, Kinds) \cup paused[y].updates
    BY <1>5 DEF PausedAt
  <2>5. (PausedAt(x, Kinds) \cup paused[x].updates)' = {Detached}
    BY <1>5 DEF PausedAt, Kinds
  <2>6. headOf'[adding.name] = adding.branch /\ paused'[adding.name] = NotPaused
    BY <1>5, <2>1, <2>2
  <2> QED BY <2>1, <2>3, <2>4, <2>5, <2>6
<1> QED BY <1>1, <1>7, <1>8, <1>9, <1>10, <1>11, <1>12, AloneFacts, WholeFacts, NoMoveFacts DEF TreesOK

LEMMA MeanwhileKeeps == ASSUME TreesOK, Meanwhile PROVE TreesOK'
<1>1. ASSUME NEW x \in Worktree, NEW kind \in Kinds \ {"none"}, NEW us \in UpdatesOf(x, kind),
             StartOperation(x, kind, us)
      PROVE  TreesOK'
  BY <1>1, StartKeeps
<1>2. ASSUME NEW x \in Worktree, EndOperation(x) PROVE TreesOK'
  BY <1>2, EndKeeps
<1>3. ASSUME NEW p \in Places, TouchFolder(p) PROVE TreesOK'
  <2>1. UNCHANGED <<branches, admin, headOf, paused, renamed, adding>> /\ NoMove
    BY <1>3 DEF TouchFolder
  <2> QED BY <2>1, NothingKeeps
<1>4. ASSUME NEW n \in Linked, Lock(n) PROVE TreesOK'
  <2>1. UNCHANGED <<branches, admin, headOf, paused, renamed, adding>> /\ NoMove
    BY <1>4 DEF Lock
  <2> QED BY <2>1, NothingKeeps
<1> QED BY <1>1, <1>2, <1>3, <1>4 DEF Meanwhile

LEMMA TreesStep == TreesInv /\ [WorktreesNext]_treeVars => TreesInv'
<1> SUFFICES ASSUME TreesInv, [WorktreesNext]_treeVars, ~overtaken'
             PROVE  TreesOK'
  BY DEF TreesInv
<1>1. CASE UNCHANGED treeVars
  <2>1. TreesOK /\ UNCHANGED <<branches, admin, headOf, paused, adding, lastMove, renamed>>
    BY <1>1 DEF treeVars, TreesInv
  <2>2. Listed' = Listed /\ WithGitdir' = WithGitdir
    BY <2>1 DEF Listed, WithGitdir, Entries
  <2>3. TreesTypeOK' /\ NothingUnlisted' /\ PausesOK' /\ AddOK'
    BY <2>1, <2>2 DEF TreesOK, TreesTypeOK, NothingUnlisted, PausesOK, AddOK, PausedAt
  <2>4. NoneIsStranded' /\ OneWorktreeEach' /\ NothingMovesUnder'
    BY <2>1, <2>2 DEF TreesOK, NoneIsStranded, OneWorktreeEach, NothingMovesUnder, OnBranch, PausedAt
  <2> QED BY <2>3, <2>4 DEF TreesOK
<1>2. CASE WorktreesNext
  <2>1. ASSUME NEW t \in Worktree, NEW b \in LocalBranches,
               \/ SwitchBranch(t, b) \/ CreateBranch(t, b)
               \/ DeleteBranch(t, b) \/ RestoreReflogEntry(t, b)
        PROVE  TreesOK'
    <3>1. TreesOK
      BY <2>1 DEF TreesInv, Undisturbed, Free,
                  SwitchBranch, CreateBranch, DeleteBranch, RestoreReflogEntry
    <3> QED BY <2>1, <3>1, SwitchKeeps, CreateKeeps, DeleteKeeps, RestoreKeeps
  <2>2. ASSUME NEW t \in Worktree, NEW b \in LocalBranches, NEW c \in LocalBranches,
               RenameBranch(t, b, c)
        PROVE  TreesOK'
    <3>1. TreesOK
      BY <2>2 DEF TreesInv, Undisturbed, Free, RenameBranch
    <3> QED BY <2>2, <3>1, RenameKeeps
  <2>3. ASSUME NEW t \in Worktree, NEW b \in LocalBranches, NEW n \in Linked, NEW p \in Places,
               CheckAdd(t, n, p, b)
        PROVE  TreesOK'
    <3>1. TreesOK
      BY <2>3 DEF TreesInv, Undisturbed, Free, CheckAdd
    <3> QED BY <2>3, <3>1, CheckAddKeeps
  <2>4. ASSUME NEW t \in Worktree, CheckoutCommit(t) \/ PruneWorktrees(t) PROVE TreesOK'
    <3>1. TreesOK
      BY <2>4 DEF TreesInv, Undisturbed, Free, CheckoutCommit, PruneWorktrees
    <3> QED BY <2>4, <3>1, DetachKeeps, PruneKeeps
  <2>5. ASSUME NEW t \in Worktree, NEW n \in Linked, RemoveWorktree(t, n) PROVE TreesOK'
    <3>1. TreesOK
      BY <2>5 DEF TreesInv, Undisturbed, RemoveWorktree
    <3> QED BY <2>5, <3>1, RemoveKeeps
  <2>6. ASSUME WriteEntry \/ CheckOutTree PROVE TreesOK'
    <3>1. TreesOK
      BY <2>6 DEF TreesInv, Undisturbed, WriteEntry, CheckOutTree
    <3> QED BY <2>6, <3>1, WriteKeeps, CheckOutTreeKeeps
  <2>7. ASSUME Meanwhile PROVE TreesOK'
    <3>1. TreesOK
      BY <2>7 DEF TreesInv, Undisturbed, Meanwhile, StartOperation, EndOperation, TouchFolder, Lock
    <3> QED BY <2>7, <3>1, MeanwhileKeeps
  <2> QED BY <1>2, <2>1, <2>2, <2>3, <2>4, <2>5, <2>6, <2>7 DEF WorktreesNext
<1> QED BY <1>1, <1>2

(* However many worktrees and windows there are: a branch that is checked out, or that        *)
(* something paused returns to or updates, is neither deleted nor moved nor checked out       *)
(* elsewhere (branches_held, check_branch_not_rebased, gate_during_operation).               *)
THEOREM BranchesStayTheirs == WorkSpec => []WorktreesKeepTheirBranches
<1>1. WorkInit => TreesInv
  BY TreesInitially DEF WorkInit
<1>2. TreesInv /\ [WorkNext]_workVars => TreesInv'
  <2>1. [WorkNext]_workVars => [WorktreesNext]_treeVars
    BY DEF WorkNext, workVars, treeVars
  <2> QED BY <2>1, TreesStep
<1>3. TreesInv => WorktreesKeepTheirBranches
  BY DEF TreesInv, TreesOK, WorktreesKeepTheirBranches
<1> QED BY <1>1, <1>2, <1>3, PTL DEF WorkSpec

-----------------------------------------------------------------------------
(* Folders of worktrees *)

Stands ==
  {Vacant, Plain} \cup [is : {"worktree"}, of : Linked, clean : BOOLEAN, foreign : BOOLEAN]

(* A destination was free when the add was checked, and nobody else makes a worktree there.   *)
FoldersOK ==
  /\ folder \in [Places -> Stands] /\ outside \in Nat
  /\ adding.step # "idle" => adding.result = "none"
  /\ adding.step = "checked" => ~adding.made /\ folder[adding.place] \in {Vacant, Plain}
  /\ adding.step = "checking out" /\ folder[adding.place].is = "worktree" =>
       folder[adding.place].of = adding.name

FoldersInv == ~overtaken => TreesOK /\ FoldersOK

LEMMA StandsFacts ==
  /\ Vacant \in Stands /\ Plain \in Stands
  /\ Vacant.is = "nothing" /\ Plain.is = "plain"
  /\ \A n \in Linked : TreeOf(n) \in Stands /\ TreeOf(n).is = "worktree" /\ TreeOf(n).of = n
                       /\ TreeOf(n).foreign = FALSE
  /\ \A s \in Stands : /\ s.is = "nothing" => s = Vacant
                       /\ s.is \in {"nothing", "plain", "worktree"}
                       /\ s.is = "worktree" <=> s \notin {Vacant, Plain}
<1>1. Vacant.is = "nothing" /\ Plain.is = "plain"
  BY DEF Vacant, Plain
<1>2. ASSUME NEW n \in Linked
      PROVE  /\ TreeOf(n) \in Stands /\ TreeOf(n).is = "worktree" /\ TreeOf(n).of = n
             /\ TreeOf(n).foreign = FALSE
  BY DEF TreeOf, Stands
<1>3. ASSUME NEW s \in Stands
      PROVE  /\ s.is = "nothing" => s = Vacant
             /\ s.is \in {"nothing", "plain", "worktree"}
             /\ s.is = "worktree" <=> s \notin {Vacant, Plain}
  <2>1. CASE s \in {Vacant, Plain}
    BY <1>1, <2>1
  <2>2. CASE s \in [is : {"worktree"}, of : Linked, clean : BOOLEAN, foreign : BOOLEAN]
    <3>1. s.is = "worktree"
      BY <2>2
    <3> QED BY <1>1, <3>1
  <2> QED BY <2>1, <2>2 DEF Stands
<1> QED BY <1>1, <1>2, <1>3 DEF Stands

\* What is at a place after a failed add is what was there, or nothing, or what others put
\* into the add's own folder.
LEMMA TakenBackFacts ==
  ASSUME NEW entries, NEW stands
  PROVE  /\ TakenBack(entries, stands) \in {Vacant, Plain, stands}
         /\ stands.is = "worktree" /\ stands.of = adding.name /\ OwnEntry(entries) =>
              TakenBack(entries, stands) = IF stands.foreign THEN Plain ELSE Vacant
         /\ TakenBack(entries, stands) # stands =>
              \/ stands.is = "worktree" /\ stands.of = adding.name
              \/ stands.is = "empty"
         /\ stands.is = "empty" => TakenBack(entries, stands) = Vacant
BY DEF TakenBack

\* The add that fails when it writes its entry.
LEMMA EarlyFailFacts ==
  ASSUME TreesOK, FoldersOK, WriteEntry, ~overtaken', adding'.result = "failed"
  PROVE  /\ adding'.step = "idle" /\ ~adding.made
         /\ admin'[adding.name] = IF adding.existed THEN admin[adding.name] ELSE NoEntry
         /\ branches' \subseteq branches
         /\ \A p \in Places \ {adding.place} : folder'[p] = folder[p]
         /\ folder'[adding.place] \in {Vacant, Plain}
         /\ folder[adding.place] \in {Vacant, folder'[adding.place]}
         /\ folder' \in [Places -> Stands]
<1> DEFINE n == adding.name
           p == adding.place
<1>1. /\ adding.step = "checked" /\ (n \in Entries) = adding.existed
      /\ n \in Linked /\ p \in Places /\ folder \in [Places -> Stands]
      /\ admin \in [Linked -> Places \cup {NoEntry, Unwritten}]
      /\ adding.result = "none" /\ ~adding.made /\ folder[p] \in {Vacant, Plain}
      /\ adding \in Adding
  BY DEF WriteEntry, TreesOK, TreesTypeOK, FoldersOK
<1>2. PICK stage \in Stages :
        /\ GetsTo(stage) /\ (Checked(adding.branch) => stage = "nothing")
        /\ GoBack(CASE stage = "gitdir" -> [admin EXCEPT ![n] = p]
                      [] stage = "nothing" -> admin
                      [] OTHER -> [admin EXCEPT ![n] = Unwritten],
                  adding.branch \notin branches,
                  CASE stage \in {".git", "gitdir"} -> TreeOf(n)
                      [] stage = "destination" -> [Vacant EXCEPT !.is = "empty"]
                      [] OTHER -> folder[p])
  <2>1. adding' # [adding EXCEPT !.step = "checking out", !.made = adding.branch \notin branches]
    BY <1>1 DEF Adding
  <2> QED BY <2>1 DEF WriteEntry
<1> DEFINE entries == CASE stage = "gitdir" -> [admin EXCEPT ![n] = p]
                        [] stage = "nothing" -> admin
                        [] OTHER -> [admin EXCEPT ![n] = Unwritten]
           stands == CASE stage \in {".git", "gitdir"} -> TreeOf(n)
                       [] stage = "destination" -> [Vacant EXCEPT !.is = "empty"]
                       [] OTHER -> folder[p]
<1>3. /\ entries \in [Linked -> Places \cup {NoEntry, Unwritten}]
      /\ stage = "nothing" \/ n \notin Entries
      /\ entries[n] \in {admin[n], Unwritten, p} /\ (n \in Entries => entries = admin)
  BY <1>1, <1>2 DEF GetsTo
<1>4. /\ stands = folder[p] \/ folder[p] = Vacant
      /\ \/ stands = folder[p]
         \/ stands.is = "empty"
         \/ stands = TreeOf(n) /\ n \notin Entries
  <2>1. CASE stage \in {".git", "gitdir"}
    <3>1. n \notin Entries /\ folder[p].is = "nothing"
      BY <1>2, <2>1 DEF GetsTo
    <3> QED BY <1>1, <2>1, <3>1, StandsFacts
  <2>2. CASE stage = "destination"
    <3>1. folder[p].is = "nothing"
      BY <1>2, <2>2 DEF GetsTo
    <3>2. [Vacant EXCEPT !.is = "empty"].is = "empty"
      BY DEF Vacant
    <3> QED BY <1>1, <2>2, <3>1, <3>2, StandsFacts
  <2> QED BY <2>1, <2>2
<1> HIDE DEF entries, stands
<1>5. GoBack(entries, adding.branch \notin branches, stands)
  BY <1>2 DEF entries, stands
<1>6. /\ OwnEntry(entries) => ~adding.existed
      /\ ~adding.existed => OwnEntry(entries)
  <2>1. n \notin Entries => admin[n] = NoEntry
    BY <1>1 DEF Entries
  <2> QED BY <1>1, <1>3, <2>1 DEF OwnEntry
<1>7. /\ adding'.step = "idle" /\ branches' \subseteq branches
      /\ folder' = [folder EXCEPT ![p] = TakenBack(entries, stands)]
  BY <1>5 DEF GoBack, NotAdding
<1>8. admin'[n] = IF adding.existed THEN admin[n] ELSE NoEntry
  BY <1>1, <1>3, <1>5, <1>6 DEF GoBack
<1>9. /\ TakenBack(entries, stands) \in {Vacant, Plain}
      /\ folder[p] \in {Vacant, TakenBack(entries, stands)}
  <2>1. CASE stands = folder[p]
    <3>1. TakenBack(entries, stands) = stands
      BY <1>1, <2>1, TakenBackFacts, StandsFacts
    <3> QED BY <1>1, <2>1, <3>1
  <2>2. CASE stands.is = "empty"
    <3>1. stands # folder[p]
      BY <1>1, <2>2, StandsFacts
    <3> QED BY <1>4, <2>2, <3>1, TakenBackFacts
  <2>3. CASE stands = TreeOf(n) /\ n \notin Entries
    <3>1. stands.is = "worktree" /\ stands.of = n /\ stands.foreign = FALSE
      BY <1>1, <2>3, StandsFacts
    <3>2. stands # folder[p]
      BY <1>1, <3>1, StandsFacts
    <3>3. TakenBack(entries, stands) = Vacant
      BY <1>1, <1>6, <2>3, <3>1, TakenBackFacts
    <3> QED BY <1>4, <3>2, <3>3
  <2> QED BY <1>4, <2>1, <2>2, <2>3
<1> QED BY <1>1, <1>7, <1>8, <1>9, StandsFacts

\* The add that cannot check its worktree out.
LEMMA LateFailFacts ==
  ASSUME TreesOK, FoldersOK, CheckOutTree, ~overtaken', adding'.result = "failed"
  PROVE  /\ adding'.step = "idle" /\ ~adding.existed /\ admin'[adding.name] = NoEntry
         /\ branches' \subseteq branches
         /\ adding.made /\ adding.branch \in branches' =>
              \E x \in Listed \ {adding.name} : headOf[x] = adding.branch
         /\ \A p \in Places \ {adding.place} : folder'[p] = folder[p]
         /\ folder'[adding.place] \in {Vacant, Plain}
         /\ \/ folder'[adding.place] = folder[adding.place]
            \/ /\ folder[adding.place].of = adding.name
               /\ folder[adding.place].foreign => folder'[adding.place] = Plain
         /\ folder' \in [Places -> Stands]
<1> DEFINE n == adding.name
           p == adding.place
<1>1. /\ adding.step = "checking out" /\ admin[n] = p
      /\ n \in Linked /\ p \in Places /\ folder \in [Places -> Stands]
      /\ admin \in [Linked -> Places \cup {NoEntry, Unwritten}]
      /\ ~adding.existed /\ (folder[p].is = "worktree" => folder[p].of = n)
  BY DEF CheckOutTree, TreesOK, TreesTypeOK, FoldersOK, AddOK
<1>2. GoBack(admin, adding.made, folder[p])
  <2>1. /\ [NotAdding EXCEPT !.result = "added"].result # "failed"
        /\ [NotAdding EXCEPT !.result = "killed"].result # "failed"
    BY DEF NotAdding
  <2> QED BY <2>1 DEF CheckOutTree
<1>3. OwnEntry(admin)
  BY <1>1 DEF OwnEntry
<1>4. /\ adding'.step = "idle" /\ branches' \subseteq branches
      /\ folder' = [folder EXCEPT ![p] = TakenBack(admin, folder[p])]
      /\ adding.made /\ adding.branch \in branches' =>
           \E x \in Listed \ {n} : headOf[x] = adding.branch
  BY <1>2 DEF GoBack, NotAdding
<1>5. admin'[n] = NoEntry
  BY <1>1, <1>2, <1>3 DEF GoBack
<1>6. CASE folder[p].is = "worktree"
  <2>1. TakenBack(admin, folder[p]) = IF folder[p].foreign THEN Plain ELSE Vacant
    BY <1>1, <1>3, <1>6, TakenBackFacts
  <2>2. folder'[p] = IF folder[p].foreign THEN Plain ELSE Vacant
    BY <1>1, <1>4, <2>1
  <2>3. folder' \in [Places -> Stands] /\ \A q \in Places \ {p} : folder'[q] = folder[q]
    BY <1>1, <1>4, <2>1, StandsFacts
  <2> QED BY <1>1, <1>4, <1>5, <1>6, <2>2, <2>3
<1>7. CASE folder[p].is # "worktree"
  <2>1. folder[p] \in {Vacant, Plain} /\ folder[p].is # "empty"
    BY <1>1, <1>7, StandsFacts
  <2>2. TakenBack(admin, folder[p]) = folder[p]
    BY <1>7, <2>1, TakenBackFacts
  <2>3. folder' = folder
    BY <1>1, <1>4, <2>2
  <2> QED BY <1>1, <1>4, <1>5, <2>1, <2>3
<1> QED BY <1>6, <1>7

\* What an add changes at its destination, when it does not fail.
LEMMA AddedFacts ==
  ASSUME TreesOK, FoldersOK, WriteEntry \/ CheckOutTree, ~overtaken', adding'.result # "failed"
  PROVE  /\ \A p \in Places \ {adding.place} : folder'[p] = folder[p]
         /\ folder' \in [Places -> Stands]
         /\ \/ /\ WriteEntry /\ folder[adding.place].is = "nothing"
               /\ folder'[adding.place].of = adding.name
               /\ adding'.step = "checking out" /\ adding'.result = "none"
               /\ adding'.name = adding.name /\ adding'.place = adding.place
            \/ /\ CheckOutTree /\ adding'.step = "idle" /\ adding.step = "checking out"
               /\ \/ folder'[adding.place] = folder[adding.place]
                  \/ /\ folder[adding.place].of = adding.name
                     /\ folder[adding.place].foreign => folder'[adding.place].foreign
<1> DEFINE n == adding.name
           p == adding.place
<1>1. /\ n \in Linked /\ p \in Places /\ folder \in [Places -> Stands] /\ adding \in Adding
      /\ adding.step # "idle" /\ adding.result = "none"
  BY DEF WriteEntry, CheckOutTree, TreesOK, TreesTypeOK, FoldersOK
<1>2. \A r \in {"failed", "added", "killed"} :
        [NotAdding EXCEPT !.result = r].result = r /\ [NotAdding EXCEPT !.result = r].step = "idle"
  BY DEF NotAdding
<1>3. CASE WriteEntry
  <2>1. \A entries, made, stands : ~GoBack(entries, made, stands)
    BY <1>2 DEF GoBack
  <2>2. /\ GetsTo("gitdir")
        /\ adding' = [adding EXCEPT !.step = "checking out", !.made = adding.branch \notin branches]
        /\ folder' = [folder EXCEPT ![p] = [TreeOf(n) EXCEPT !.clean = FALSE]]
    BY <1>3, <2>1 DEF WriteEntry
  <2>3. [TreeOf(n) EXCEPT !.clean = FALSE] \in Stands /\ [TreeOf(n) EXCEPT !.clean = FALSE].of = n
    BY <1>1 DEF Stands, TreeOf
  <2>4. /\ folder' \in [Places -> Stands] /\ folder'[p].of = n
        /\ \A q \in Places \ {p} : folder'[q] = folder[q]
    BY <1>1, <2>2, <2>3
  <2>5. /\ adding'.step = "checking out" /\ adding'.result = "none"
        /\ adding'.name = n /\ adding'.place = p
    BY <1>1, <2>2 DEF Adding
  <2>6. folder[p].is = "nothing"
    BY <2>2 DEF GetsTo
  <2> QED BY <1>3, <2>4, <2>5, <2>6
<1>4. CASE CheckOutTree
  <2>1. ~GoBack(admin, adding.made, folder[p])
    BY <1>2 DEF GoBack
  <2>2. CASE /\ adding' = [NotAdding EXCEPT !.result = "added"]
             /\ folder' = [folder EXCEPT ![p] =
                  IF @.is = "worktree" /\ @.of = n THEN [@ EXCEPT !.clean = TRUE] ELSE @]
    <3>1. CASE folder[p].is = "worktree" /\ folder[p].of = n
      <4>1. folder[p] \in [is : {"worktree"}, of : Linked, clean : BOOLEAN, foreign : BOOLEAN]
        BY <1>1, <3>1, StandsFacts DEF Stands
      <4>2. /\ [folder[p] EXCEPT !.clean = TRUE] \in Stands
            /\ [folder[p] EXCEPT !.clean = TRUE].foreign = folder[p].foreign
        BY <4>1 DEF Stands
      <4>3. folder' = [folder EXCEPT ![p] = [folder[p] EXCEPT !.clean = TRUE]]
        BY <2>2, <3>1
      <4>4. /\ folder' \in [Places -> Stands] /\ folder'[p].foreign = folder[p].foreign
            /\ \A q \in Places \ {p} : folder'[q] = folder[q]
        BY <1>1, <4>2, <4>3
      <4> QED BY <1>2, <1>4, <2>2, <3>1, <4>4 DEF CheckOutTree
    <3>2. CASE ~(folder[p].is = "worktree" /\ folder[p].of = n)
      <4>1. folder' = folder
        BY <1>1, <2>2, <3>2
      <4> QED BY <1>1, <1>2, <1>4, <2>2, <4>1 DEF CheckOutTree
    <3> QED BY <3>1, <3>2
  <2>3. CASE adding' = [NotAdding EXCEPT !.result = "killed"] /\ UNCHANGED folder
    BY <1>1, <1>2, <1>4, <2>3 DEF CheckOutTree
  <2> QED BY <1>4, <2>1, <2>2, <2>3 DEF CheckOutTree
<1> QED BY <1>3, <1>4

\* Folders elsewhere only become free, or the user's.
LEMMA TouchFacts ==
  ASSUME TreesOK, FoldersOK, NEW p \in Places, TouchFolder(p)
  PROVE  /\ folder' \in [Places -> Stands] /\ UNCHANGED adding
         /\ \A q \in Places : /\ folder[q] \in {Vacant, Plain} => folder'[q] \in {Vacant, Plain}
                              /\ folder'[q].is = "worktree" => folder[q].is = "worktree"
                              /\ folder'[q].is = "worktree" => folder'[q].of = folder[q].of
<1>1. folder \in [Places -> Stands]
  BY DEF FoldersOK
<1>2. CASE folder' = [folder EXCEPT ![p] = Vacant]
  BY <1>1, <1>2, StandsFacts DEF TouchFolder
<1>3. CASE folder' = [folder EXCEPT ![p] = Plain]
  BY <1>1, <1>3, StandsFacts DEF TouchFolder
<1>4. CASE folder[p].is = "worktree" /\ folder' = [folder EXCEPT ![p].foreign = TRUE]
  <2>1. folder[p] \in [is : {"worktree"}, of : Linked, clean : BOOLEAN, foreign : BOOLEAN]
    BY <1>1, <1>4, StandsFacts DEF Stands
  <2>2. /\ [folder[p] EXCEPT !.foreign = TRUE] \in Stands
        /\ [folder[p] EXCEPT !.foreign = TRUE].of = folder[p].of
    BY <2>1 DEF Stands
  <2>3. folder' = [folder EXCEPT ![p] = [folder[p] EXCEPT !.foreign = TRUE]]
    BY <1>1, <1>4
  <2>4. /\ folder' \in [Places -> Stands] /\ folder'[p].of = folder[p].of
        /\ \A q \in Places \ {p} : folder'[q] = folder[q]
    BY <1>1, <2>2, <2>3
  <2>5. folder[p] \notin {Vacant, Plain}
    BY <1>1, <1>4, StandsFacts
  <2> QED BY <1>4, <2>4, <2>5 DEF TouchFolder
<1> QED BY <1>2, <1>3, <1>4 DEF TouchFolder

\* Which steps touch folders or the add under way, and which count as the user's.
LEMMA StepKinds ==
  ASSUME WorktreesNext
  PROVE  /\ ~overtaken
         /\ \/ UNCHANGED <<folder, adding>> /\ outside' \in {outside, outside + 1}
            \/ /\ outside' = outside
               /\ \/ \E t \in Worktree, n \in Linked : RemoveWorktree(t, n)
                  \/ \E t \in Worktree, n \in Linked, p \in Places, b \in LocalBranches : CheckAdd(t, n, p, b)
                  \/ WriteEntry \/ CheckOutTree
            \/ \E p \in Places : TouchFolder(p) /\ outside' = outside + 1
<1>1. ASSUME NEW t \in Worktree, NEW b \in LocalBranches,
             \/ SwitchBranch(t, b) \/ CreateBranch(t, b)
             \/ DeleteBranch(t, b) \/ RestoreReflogEntry(t, b)
             \/ \E c \in LocalBranches : RenameBranch(t, b, c)
      PROVE  ~overtaken /\ UNCHANGED <<folder, adding, outside>>
  BY <1>1 DEF Undisturbed, Free, SwitchBranch, CreateBranch, DeleteBranch, RestoreReflogEntry, RenameBranch
<1>2. ASSUME NEW t \in Worktree, CheckoutCommit(t) \/ PruneWorktrees(t)
      PROVE  ~overtaken /\ UNCHANGED <<folder, adding, outside>>
  BY <1>2 DEF Undisturbed, Free, CheckoutCommit, PruneWorktrees
<1>3. ASSUME NEW t \in Worktree, NEW n \in Linked, RemoveWorktree(t, n)
      PROVE  ~overtaken /\ outside' = outside
  BY <1>3 DEF Undisturbed, RemoveWorktree
<1>4. ASSUME NEW t \in Worktree, NEW n \in Linked, NEW p \in Places, NEW b \in LocalBranches,
             CheckAdd(t, n, p, b)
      PROVE  ~overtaken /\ outside' = outside
  BY <1>4 DEF Undisturbed, Free, CheckAdd
<1>5. ASSUME WriteEntry \/ CheckOutTree PROVE ~overtaken /\ outside' = outside
  BY <1>5 DEF Undisturbed, WriteEntry, CheckOutTree
<1>6. ASSUME Meanwhile
      PROVE  /\ ~overtaken
             /\ \/ UNCHANGED <<folder, adding>> /\ outside' = outside + 1
                \/ \E p \in Places : TouchFolder(p) /\ outside' = outside + 1
  BY <1>6 DEF Undisturbed, Meanwhile, StartOperation, EndOperation, TouchFolder, Lock
<1> QED BY <1>1, <1>2, <1>3, <1>4, <1>5, <1>6 DEF WorktreesNext

LEMMA RemoveFolderFacts ==
  ASSUME TreesOK, FoldersOK, NEW t \in Worktree, NEW n \in Linked, RemoveWorktree(t, n)
  PROVE  /\ n \in Entries /\ n \notin lockedTrees /\ admin[n] \in Places /\ admin'[n] = NoEntry
         /\ folder' = [folder EXCEPT ![admin[n]] = Vacant] /\ UNCHANGED adding
         /\ folder[admin[n]] \in {Vacant, TreeOf(n)}
<1>1. /\ n \in Entries /\ n \notin lockedTrees /\ admin[n] \in Places /\ admin'[n] = NoEntry
      /\ folder' = [folder EXCEPT ![admin[n]] = Vacant] /\ UNCHANGED adding
  BY DEF RemoveWorktree, WithGitdir, Entries, Dropped, TreesOK, TreesTypeOK
<1>2. folder[admin[n]] \in Stands
  BY <1>1 DEF FoldersOK
<1>3. CASE folder[admin[n]].is = "nothing"
  BY <1>1, <1>2, <1>3, StandsFacts
<1>4. CASE PointsBack(n) /\ folder[admin[n]].clean /\ ~folder[admin[n]].foreign
  <2>1. folder[admin[n]].is = "worktree" /\ folder[admin[n]].of = n
    BY <1>4 DEF PointsBack
  <2>2. folder[admin[n]] \in [is : {"worktree"}, of : Linked, clean : BOOLEAN, foreign : BOOLEAN]
    BY <1>2, <2>1, StandsFacts DEF Stands
  <2>3. folder[admin[n]].clean = TRUE /\ folder[admin[n]].foreign = FALSE
    BY <1>4, <2>2
  <2>4. folder[admin[n]] = TreeOf(n)
    BY <2>1, <2>2, <2>3 DEF TreeOf
  <2> QED BY <1>1, <2>4
<1> QED BY <1>1, <1>3, <1>4 DEF RemoveWorktree, MayGo

LEMMA FoldersStep == FoldersInv /\ [WorktreesNext]_treeVars => FoldersInv'
<1> SUFFICES ASSUME FoldersInv, [WorktreesNext]_treeVars, ~overtaken'
             PROVE  FoldersOK'
  BY TreesStep DEF FoldersInv, TreesInv
<1>1. CASE UNCHANGED treeVars
  BY <1>1 DEF treeVars, FoldersInv, FoldersOK
<1>2. CASE WorktreesNext
  <2>0. TreesOK /\ FoldersOK /\ outside' \in Nat
    <3>1. TreesOK /\ FoldersOK
      BY <1>2, StepKinds DEF FoldersInv
    <3>2. outside \in Nat
      BY <3>1 DEF FoldersOK
    <3>3. outside' \in {outside, outside + 1}
      BY <1>2, StepKinds
    <3> QED BY <3>1, <3>2, <3>3
  <2>1. CASE UNCHANGED <<folder, adding>>
    BY <2>0, <2>1 DEF FoldersOK
  <2>2. CASE \E t \in Worktree, n \in Linked : RemoveWorktree(t, n)
    <3>1. PICK n \in Linked :
            /\ admin[n] \in Places /\ UNCHANGED adding
            /\ folder' = [folder EXCEPT ![admin[n]] = Vacant]
      BY <2>0, <2>2, RemoveFolderFacts
    <3>2. /\ folder' \in [Places -> Stands]
          /\ \A p \in Places : folder'[p] = folder[p] \/ folder'[p] = Vacant
      BY <2>0, <3>1, StandsFacts DEF FoldersOK
    <3>3. adding.step # "idle" => adding.place \in Places
      BY <2>0 DEF TreesOK, TreesTypeOK
    <3>4. adding.step \in {"idle", "checked", "checking out"}
      BY <2>0 DEF TreesOK, TreesTypeOK, Adding
    <3> QED BY <2>0, <3>1, <3>2, <3>3, <3>4, StandsFacts DEF FoldersOK
  <2>3. CASE \E t \in Worktree, n \in Linked, p \in Places, b \in LocalBranches : CheckAdd(t, n, p, b)
    <3>1. PICK p \in Places :
            /\ folder[p].is = "nothing" /\ UNCHANGED folder
            /\ adding'.step = "checked" /\ adding'.place = p /\ adding'.made = FALSE
            /\ adding'.result = "none"
      BY <2>3 DEF CheckAdd
    <3>2. folder[p] = Vacant
      BY <2>0, <3>1, StandsFacts DEF FoldersOK
    <3> QED BY <2>0, <3>1, <3>2 DEF FoldersOK
  <2>4. CASE WriteEntry \/ CheckOutTree
    <3>1. CASE adding'.result = "failed"
      <4>1. adding'.step = "idle" /\ folder' \in [Places -> Stands]
        BY <2>0, <2>4, <3>1, EarlyFailFacts, LateFailFacts
      <4> QED BY <2>0, <4>1 DEF FoldersOK
    <3>2. CASE adding'.result # "failed"
      <4>1. /\ folder' \in [Places -> Stands]
            /\ \/ /\ folder'[adding.place].of = adding.name
                  /\ adding'.step = "checking out" /\ adding'.result = "none"
                  /\ adding'.name = adding.name /\ adding'.place = adding.place
               \/ adding'.step = "idle"
        BY <2>0, <2>4, <3>2, AddedFacts
      <4> QED BY <2>0, <4>1 DEF FoldersOK
    <3> QED BY <3>1, <3>2
  <2>5. CASE \E p \in Places : TouchFolder(p)
    <3>1. /\ folder' \in [Places -> Stands] /\ UNCHANGED adding
          /\ \A q \in Places : /\ folder[q] \in {Vacant, Plain} => folder'[q] \in {Vacant, Plain}
                               /\ folder'[q].is = "worktree" => folder[q].is = "worktree"
                               /\ folder'[q].is = "worktree" => folder'[q].of = folder[q].of
      BY <2>0, <2>5, TouchFacts
    <3>2. adding.step # "idle" => adding.place \in Places
      BY <2>0 DEF TreesOK, TreesTypeOK
    <3> QED BY <2>0, <3>1, <3>2 DEF FoldersOK
  <2> QED BY <1>2, <2>1, <2>2, <2>3, <2>4, <2>5, StepKinds
<1> QED BY <1>1, <1>2

\* What the property says of one step.
LEMMA OwnFolderStep ==
  ASSUME FoldersInv, WorktreesNext, ~overtaken'
  PROVE  OnlyItsOwn /\ NothingRemains
<1>0. TreesOK /\ FoldersOK /\ outside \in Nat
  BY StepKinds DEF FoldersInv, FoldersOK
<1>1. CASE UNCHANGED <<folder, adding>>
  <2>1. adding.step # "idle" => adding'.result # "failed"
    BY <1>0, <1>1 DEF FoldersOK
  <2> QED BY <1>1, <2>1 DEF OnlyItsOwn, NothingRemains
<1>2. CASE \E t \in Worktree, n \in Linked : RemoveWorktree(t, n)
  <2>1. PICK n \in Linked :
          /\ n \in Entries /\ n \notin lockedTrees /\ admin[n] \in Places /\ admin'[n] = NoEntry
          /\ folder' = [folder EXCEPT ![admin[n]] = Vacant] /\ UNCHANGED adding
          /\ folder[admin[n]] \in {Vacant, TreeOf(n)}
    BY <1>0, <1>2, RemoveFolderFacts
  <2>2. adding.step # "idle" => adding'.result # "failed"
    BY <1>0, <2>1 DEF FoldersOK
  <2>3. ASSUME NEW p \in Places, folder'[p] # folder[p], folder[p].is # "nothing"
        PROVE  n \in Entries /\ admin[n] = p /\ admin'[n] = NoEntry /\ n \notin lockedTrees
               /\ folder[p] = TreeOf(n)
    <3>1. p = admin[n]
      BY <1>0, <2>1, <2>3 DEF FoldersOK
    <3> QED BY <2>1, <2>3, <3>1, StandsFacts
  <2> QED BY <2>2, <2>3 DEF OnlyItsOwn, NothingRemains
<1>3. CASE \E t \in Worktree, n \in Linked, p \in Places, b \in LocalBranches : CheckAdd(t, n, p, b)
  <2>1. UNCHANGED folder /\ adding'.result = "none"
    BY <1>3 DEF CheckAdd
  <2> QED BY <2>1 DEF OnlyItsOwn, NothingRemains
<1>4. CASE (WriteEntry \/ CheckOutTree) /\ adding'.result # "failed"
  <2>1. OnlyItsOwn
    <3>1. /\ \A p \in Places \ {adding.place} : folder'[p] = folder[p]
          /\ \/ folder[adding.place].is = "nothing"
             \/ folder'[adding.place] = folder[adding.place]
             \/ /\ adding.step = "checking out" /\ folder[adding.place].of = adding.name
                /\ folder[adding.place].foreign => folder'[adding.place].foreign
      BY <1>0, <1>4, AddedFacts
    <3> QED BY <3>1 DEF OnlyItsOwn
  <2> QED BY <1>4, <2>1 DEF NothingRemains
<1>5. CASE WriteEntry /\ adding'.result = "failed"
  <2>1. /\ adding'.step = "idle" /\ ~adding.made
        /\ admin'[adding.name] = IF adding.existed THEN admin[adding.name] ELSE NoEntry
        /\ branches' \subseteq branches
        /\ \A p \in Places \ {adding.place} : folder'[p] = folder[p]
        /\ folder'[adding.place] \in {Vacant, Plain}
        /\ folder[adding.place] \in {Vacant, folder'[adding.place]}
    BY <1>0, <1>5, EarlyFailFacts
  <2>2. OnlyItsOwn
    BY <2>1, StandsFacts DEF OnlyItsOwn
  <2>3. NothingRemains
    BY <2>1 DEF NothingRemains
  <2> QED BY <2>2, <2>3
<1>6. CASE CheckOutTree /\ adding'.result = "failed"
  <2>1. /\ adding'.step = "idle" /\ ~adding.existed /\ admin'[adding.name] = NoEntry
        /\ branches' \subseteq branches
        /\ adding.made /\ adding.branch \in branches' =>
             \E x \in Listed \ {adding.name} : headOf[x] = adding.branch
        /\ \A p \in Places \ {adding.place} : folder'[p] = folder[p]
        /\ folder'[adding.place] \in {Vacant, Plain}
        /\ \/ folder'[adding.place] = folder[adding.place]
           \/ /\ folder[adding.place].of = adding.name
              /\ folder[adding.place].foreign => folder'[adding.place] = Plain
    BY <1>0, <1>6, LateFailFacts
  <2>2. adding.step = "checking out"
    BY <1>6 DEF CheckOutTree
  <2>3. OnlyItsOwn
    BY <2>1, <2>2 DEF OnlyItsOwn
  <2>4. NothingRemains
    BY <2>1 DEF NothingRemains
  <2> QED BY <2>3, <2>4
<1>7. CASE \E p \in Places : TouchFolder(p) /\ outside' = outside + 1
  <2>1. ~Program
    BY <1>0, <1>7 DEF Program
  <2>2. UNCHANGED adding
    BY <1>7 DEF TouchFolder
  <2>3. adding.step # "idle" => adding'.result # "failed"
    BY <1>0, <2>2 DEF FoldersOK
  <2> QED BY <2>1, <2>3 DEF OnlyItsOwn, NothingRemains
<1> QED BY <1>1, <1>2, <1>3, <1>4, <1>5, <1>6, <1>7, StepKinds

(* Removing deletes only an entry's own clean folder, pruning none, and a failed add takes    *)
(* back all it made and nothing else (remove_entry, prune_worktrees, create_worktree_with,    *)
(* roll_back_destination).                                                                   *)
THEOREM FoldersAreTheirOwn == WorkSpec => OnlyItsOwnFolder
<1>1. WorkInit => FoldersInv
  <2> SUFFICES ASSUME WorkInit PROVE FoldersInv
    OBVIOUS
  <2>1. /\ folder = [p \in Places |-> Vacant] /\ adding = NotAdding /\ outside = 0 /\ ~overtaken
    BY DEF WorkInit, WorktreesInit, TreesAtRest
  <2>2. FoldersOK
    BY <2>1, StandsFacts DEF FoldersOK, NotAdding
  <2>3. TreesOK
    BY <2>1, TreesInitially DEF WorkInit, TreesInv
  <2> QED BY <2>2, <2>3 DEF FoldersInv
<1>2. [WorkNext]_workVars => [WorktreesNext]_treeVars
  BY DEF WorkNext, workVars, treeVars
<1>3. FoldersInv /\ [WorkNext]_workVars => FoldersInv'
  BY <1>2, FoldersStep
<1>4. FoldersInv /\ [WorkNext]_workVars => [~overtaken' => OnlyItsOwn /\ NothingRemains]_treeVars
  BY <1>2, OwnFolderStep
<1> QED BY <1>1, <1>3, <1>4, PTL DEF WorkSpec, OnlyItsOwnFolder

-----------------------------------------------------------------------------
(* Guarded accesses.  The invariant GuardInv says where the walk is (Depth), that it has come *)
(* there by folders (Rooted), what the other folders hold (Inside), whose the temporary file  *)
(* is (TempOK), and what the last look still says of the entry (DueOK): between two calls     *)
(* another program may change the entry, and then `swapped` says so.                          *)

TreeEntries ==
  {Nothing, Link} \cup {File(c) : c \in {"old", "frozen", "theirs", "part", "new", "elsewhere"}}
    \cup {Folder(d) : d \in Folders}
Walking == {"walk", "mkdir", "look", "unlink folder"}
AtLeaf == {"leaf", "unlink", "probe", "temp", "fill", "swap", "tidy", "open", "readlink"}
Components == PathNames \cup {"..", "/", "elsewhere"}

GuardTypeOK ==
  /\ platform \in {"unix", "windows"} /\ op \in GuardOps /\ meddling \in Nat
  /\ tree \in [Folders -> [PathNames -> TreeEntries]]
  /\ held \in Seq(Folders) /\ wanted \in Seq(Components)
  /\ place \in Walking \cup AtLeaf \cup {"prune", "resolve", "done"}
  /\ seen \in TreeEntries /\ swapped \in BOOLEAN

Rooted ==
  /\ Len(held) >= 1 /\ HeldFromRoot
  /\ got # File("elsewhere")

Inside ==
  \A d \in Folders, n \in PathNames :
    tree[d][n] # Folder(Outside) /\ (tree[d][n] = File("elsewhere") => d = Outside)

Depth ==
  /\ place \in Walking => Len(held) < Len(Path)
  /\ place \in AtLeaf => Len(held) = Len(Path)
  /\ place = "prune" => Len(held) <= Len(Path)

TempHolds == place = "swap" \/ (op = "replace" /\ ~Unix /\ place \in {"leaf", "unlink"})

TempOK ==
  /\ TempHolds => tree[Parent][Temp] = File("new")
  /\ \A d \in Folders : tree[d][Temp] # Nothing =>
       \/ d = Parent /\ (place \in {"fill", "tidy"} \/ TempHolds)
       \/ place = "done" /\ outcome \in {"killed", "untidy"}

DueOK ==
  /\ place = "mkdir" => op \in Writers
  /\ place = "unlink folder" => OnLinkClear /\ seen = Link /\ (swapped \/ Entry = Link)
  /\ place = "unlink" => /\ op \in Writers \cup {"remove", "clear", "prune"}
                         /\ op = "write" => ~Unix
                         /\ op = "clear" => seen = Link
                         /\ swapped \/ Entry = seen
  /\ place = "probe" => op = "write"
  /\ place \in {"temp", "fill", "swap"} =>
        op \in Writers /\ (op = "write" /\ Unix => Entry # File("frozen"))
  /\ place = "prune" => op = "prune"

GuardInv == GuardTypeOK /\ Rooted /\ Inside /\ Depth /\ TempOK /\ DueOK

(* What a step of the operation's own may do. *)
BeneathStep ==
  /\ tree'[Outside] = tree[Outside]
  /\ HeldFromRoot'
  /\ got' # File("elsewhere")

ElseStep ==
  \A d \in Folders, n \in PathNames :
       \/ tree'[d][n] = tree[d][n]
       \/ Permitted(d, n, tree[d][n], tree'[d][n])
       \/ Unix /\ swapped /\ d = Parent /\ n = Here /\ ~Is(tree[d][n], "folder")

WholeStep ==
  op \in Writers /\ Walked /\ Is(tree[Parent][Leaf], "file") =>
           tree'[Parent][Leaf] \in {tree[Parent][Leaf], File("new")}

(* The four kinds of entries differ. *)
LEMMA EntryKinds ==
  /\ ~Is(Nothing, "folder") /\ ~Is(Nothing, "file") /\ ~Is(Link, "folder") /\ ~Is(Link, "file")
  /\ Nothing # Link /\ Nothing \in TreeEntries /\ Link \in TreeEntries
  /\ \A c : Is(File(c), "file") /\ ~Is(File(c), "folder") /\ File(c) \notin {Nothing, Link}
  /\ \A d : Is(Folder(d), "folder") /\ ~Is(Folder(d), "file") /\ Folder(d)[2] = d
            /\ Folder(d) \notin {Nothing, Link}
  /\ \A c, d : File(c) # Folder(d)
  /\ \A c, d : File(c) = File(d) => c = d
<1>1. \A d : Folder(d)[1] = "folder" /\ Folder(d)[2] = d
  BY DEF Folder
<1>2. \A c : File(c)[1] = "file" /\ File(c)[2] = c
  BY DEF File
<1>3. Nothing[1] = "nothing" /\ Link[1] = "link"
  BY DEF Nothing, Link
<1>4. Nothing # Link
  BY <1>3
<1>5. \A c : File(c) # Nothing /\ File(c) # Link
  BY <1>2, <1>3
<1>6. \A d : Folder(d) # Nothing /\ Folder(d) # Link
  BY <1>1, <1>3
<1>7. \A c, d : File(c) # Folder(d)
  BY <1>1, <1>2
<1>8. \A c, d : File(c) = File(d) => c = d
  BY <1>2
<1>9. Nothing \in TreeEntries /\ Link \in TreeEntries
  BY DEF TreeEntries
<1> QED BY <1>1, <1>2, <1>3, <1>4, <1>5, <1>6, <1>7, <1>8, <1>9 DEF Is

LEMMA EntryCases ==
  ASSUME NEW e \in TreeEntries
  PROVE  /\ e \notin {Nothing, Link} => Is(e, "file") \/ Is(e, "folder")
         /\ ~(Is(e, "file") /\ Is(e, "folder"))
         /\ Is(e, "folder") => e[2] \in Folders /\ e = Folder(e[2])
<1>1. CASE e \in {Nothing, Link}
  BY <1>1, EntryKinds
<1>2. CASE \E d \in Folders : e = Folder(d)
  BY <1>2, EntryKinds
<1>3. CASE \E c \in {"old", "frozen", "theirs", "part", "new", "elsewhere"} : e = File(c)
  BY <1>3, EntryKinds
<1> QED BY <1>1, <1>2, <1>3 DEF TreeEntries

(* Where the operation is, and what it finds there. *)
LEMMA WhereFacts ==
  ASSUME GuardTypeOK, Rooted, Inside
  PROVE  /\ Parent \in Folders \ {Outside} /\ Len(held) \in Nat \ {0} /\ Len(Path) \in Nat \ {0}
         /\ Temp \in PathNames /\ Leaf \in PathNames /\ Leaf # Temp
         /\ Len(held) <= Len(Path) =>
              /\ Here \in PathNames /\ Here # Temp
              /\ Entry \in TreeEntries /\ Entry # Folder(Outside) /\ Entry # File("elsewhere")
<1>1. Len(held) \in Nat \ {0} /\ Len(Path) \in Nat \ {0}
  BY GuardAssumption DEF GuardTypeOK, Rooted, HeldFromRoot
<1>2. Parent \in Folders \ {Outside}
  BY <1>1 DEF GuardTypeOK, Rooted, HeldFromRoot, Parent
<1>3. \A i \in 1..Len(Path) : Path[i] \in PathNames /\ Path[i] # Temp
  BY GuardAssumption DEF PathNames
<1>4. Temp \in PathNames /\ Leaf \in PathNames /\ Leaf # Temp
  BY <1>1, <1>3 DEF PathNames, Leaf
<1>5. ASSUME Len(held) <= Len(Path)
      PROVE  /\ Here \in PathNames /\ Here # Temp
             /\ Entry \in TreeEntries /\ Entry # Folder(Outside) /\ Entry # File("elsewhere")
  <2>1. Here \in PathNames /\ Here # Temp
    BY <1>1, <1>3, <1>5 DEF Here
  <2> QED BY <2>1, <1>2 DEF Entry, Inside, GuardTypeOK
<1> QED BY <1>1, <1>2, <1>4, <1>5

(* Putting an entry into a folder beneath the root. *)
LEMMA PutFacts ==
  ASSUME GuardTypeOK, Inside, NEW d \in Folders \ {Outside}, NEW n \in PathNames,
         NEW e \in TreeEntries, Put(d, n, e)
  PROVE  /\ tree' \in [Folders -> [PathNames -> TreeEntries]]
         /\ tree'[Outside] = tree[Outside]
         /\ \A c \in Folders, m \in PathNames :
              tree'[c][m] = IF c = d /\ m = n THEN e ELSE tree[c][m]
         /\ e # Folder(Outside) /\ e # File("elsewhere") => Inside'
<1>1. tree' \in [Folders -> [PathNames -> TreeEntries]]
  BY DEF Put, GuardTypeOK
<1>2. tree'[Outside] = tree[Outside]
  BY GuardAssumption DEF Put, GuardTypeOK
<1>3. \A c \in Folders, m \in PathNames :
              tree'[c][m] = IF c = d /\ m = n THEN e ELSE tree[c][m]
  BY DEF Put, GuardTypeOK
<1>4. e # Folder(Outside) /\ e # File("elsewhere") => Inside'
  BY <1>3 DEF Inside
<1> QED BY <1>1, <1>2, <1>3, <1>4

Right == GuardInv' /\ BeneathStep /\ ElseStep /\ WholeStep

(* A step that leaves the work tree and what is held alone. *)
LEMMA StillFacts ==
  ASSUME GuardInv, UNCHANGED <<platform, op, tree, held, got>>
  PROVE  /\ Rooted' /\ Inside' /\ BeneathStep /\ ElseStep /\ WholeStep
         /\ Parent' = Parent /\ Here' = Here /\ Entry' = Entry /\ Unix' = Unix
<1>1. Rooted' /\ Inside' /\ BeneathStep /\ ElseStep
  BY DEF GuardInv, Rooted, HeldFromRoot, Inside, BeneathStep, ElseStep
<1>2. WholeStep
  BY DEF WholeStep
<1>3. Parent' = Parent /\ Here' = Here /\ Entry' = Entry /\ Unix' = Unix
  BY DEF Parent, Here, Entry, Unix
<1> QED BY <1>1, <1>2, <1>3

(* A step that changes one entry, in a way it may. *)
LEMMA PutRight ==
  ASSUME GuardInv, UNCHANGED <<platform, op, held, got>>,
         NEW d \in Folders \ {Outside}, NEW n \in PathNames, NEW e \in TreeEntries,
         Put(d, n, e), e # Folder(Outside), e # File("elsewhere"),
         \/ Permitted(d, n, tree[d][n], e)
         \/ Unix /\ swapped /\ d = Parent /\ n = Here /\ ~Is(tree[d][n], "folder"),
         op \in Writers /\ Walked /\ d = Parent /\ n = Leaf /\ Is(tree[d][n], "file")
           => e = File("new")
  PROVE  /\ Rooted' /\ Inside' /\ BeneathStep /\ ElseStep /\ WholeStep
         /\ Parent' = Parent /\ Here' = Here /\ Unix' = Unix
         /\ tree' \in [Folders -> [PathNames -> TreeEntries]]
         /\ \A c \in Folders, m \in PathNames :
              tree'[c][m] = IF c = d /\ m = n THEN e ELSE tree[c][m]
<1>1. /\ tree' \in [Folders -> [PathNames -> TreeEntries]]
      /\ tree'[Outside] = tree[Outside] /\ Inside'
      /\ \A c \in Folders, m \in PathNames :
           tree'[c][m] = IF c = d /\ m = n THEN e ELSE tree[c][m]
  BY PutFacts DEF GuardInv
<1>2. Rooted' /\ BeneathStep
  BY <1>1 DEF GuardInv, Rooted, HeldFromRoot, BeneathStep
<1>3. ElseStep
  BY <1>1 DEF ElseStep
<1>4. WholeStep
  <2>1. Parent \in Folders /\ Leaf \in PathNames
    BY WhereFacts DEF GuardInv
  <2> QED BY <1>1, <2>1 DEF WholeStep
<1>5. Parent' = Parent /\ Here' = Here /\ Unix' = Unix
  BY DEF Parent, Here, Unix
<1> QED BY <1>1, <1>2, <1>3, <1>4, <1>5

LEMMA StartRight == GuardInit => GuardInv
<1> SUFFICES ASSUME GuardInit PROVE GuardInv
  OBVIOUS
<1>1. PICK a, b, f \in TreeEntries :
        /\ a \notin {File("elsewhere"), Folder(Outside)} /\ b \notin {File("elsewhere"), Folder(Outside)}
        /\ f \notin {File("elsewhere"), Folder(Outside)}
        /\ tree = [d \in Folders |-> [n \in PathNames |->
                     CASE d = Root /\ n = Path[1] -> a
                       [] d = "A" /\ n = Path[2] -> b
                       [] d = "B" /\ n = Path[3] -> f
                       [] d = Outside /\ n # Temp -> File("elsewhere")
                       [] OTHER -> Nothing]]
  <2> DEFINE With(a, b, f) ==
        [d \in Folders |-> [n \in PathNames |->
                     CASE d = Root /\ n = Path[1] -> a
                       [] d = "A" /\ n = Path[2] -> b
                       [] d = "B" /\ n = Path[3] -> f
                       [] d = Outside /\ n # Temp -> File("elsewhere")
                       [] OTHER -> Nothing]]
  <2> DEFINE Fine == TreeEntries \ {File("elsewhere"), Folder(Outside)}
  <2>1. tree \in {With(a, Nothing, Nothing) : a \in {Nothing, Link, File("old")}}
      \cup {With(Folder("A"), b, Nothing) : b \in {Nothing, Link}}
      \cup {With(Folder("A"), Folder("B"), f) :
              f \in {Nothing, Link, File("old"), File("frozen"), Folder("C")}}
    BY Zenon DEF GuardInit, TreesAtStart
  <2>2. {Nothing, Link, File("old"), File("frozen"), Folder("A"), Folder("B"), Folder("C")}
           \subseteq Fine
    <3>1. {Nothing, Link, File("old"), File("frozen"), Folder("A"), Folder("B"), Folder("C")}
           \subseteq TreeEntries
      BY GuardAssumption DEF TreeEntries
    <3>2. \A x \in {"A", "B", "C"} : x # Outside
      BY GuardAssumption
    <3> QED BY <3>1, <3>2, EntryKinds
  <2> HIDE DEF With
  <2>3. \E a, b, f \in Fine : tree = With(a, b, f)
    BY <2>1, <2>2
  <2> QED BY <2>3, Zenon DEF With
<1>2. GuardTypeOK
  <2>1. tree \in [Folders -> [PathNames -> TreeEntries]]
    BY <1>1, EntryKinds DEF TreeEntries
  <2>2. held \in Seq(Folders)
    BY GuardAssumption DEF GuardInit
  <2>4. Components = {Path[i] : i \in 1..Len(Path)} \cup {Temp, "..", "/", "elsewhere"}
    BY DEF Components, PathNames
  <2>5. wanted \in Seq(Components)
    <3>1. CASE op = "probe"
      BY <3>1, <2>4, GuardAssumption, Zenon DEF GuardInit
    <3>2. CASE op # "probe"
      BY <3>2 DEF GuardInit
    <3> QED BY <3>1, <3>2
  <2> QED BY <2>1, <2>2, <2>5, EntryKinds DEF GuardInit, GuardTypeOK, Walking
<1>3. Rooted
  BY GuardAssumption, EntryKinds DEF GuardInit, Rooted, HeldFromRoot
<1>4. Inside
  BY <1>1, EntryKinds, GuardAssumption DEF Inside
<1>5. \A d \in Folders : tree[d][Temp] = Nothing
  <2>1. Temp \in PathNames
    BY DEF PathNames
  <2>2. Path[1] # Temp /\ Path[2] # Temp /\ Path[3] # Temp
    BY GuardAssumption
  <2> QED BY <1>1, <2>1, <2>2
<1>6. Depth
  BY GuardAssumption DEF GuardInit, Depth, Walking, AtLeaf
<1>7. TempOK /\ DueOK
  BY <1>5 DEF GuardInit, TempOK, TempHolds, DueOK
<1> QED BY <1>2, <1>3, <1>4, <1>6, <1>7 DEF GuardInv

Idling == /\ place \notin {"fill", "tidy", "swap", "done"}
          /\ ~(op = "replace" /\ ~Unix /\ place \in {"leaf", "unlink"})

LEMMA NoTempFacts ==
  /\ GuardInv /\ Idling => \A d \in Folders : tree[d][Temp] = Nothing
  /\ (\A d \in Folders : tree'[d][Temp] = Nothing) /\ ~TempHolds' => TempOK'
BY DEF GuardInv, TempOK, TempHolds, Idling

LEMMA WalkOpenRight == ASSUME GuardInv, WalkOpen PROVE Right
<1>1. place = "walk" /\ Len(held) < Len(Path)
  BY DEF WalkOpen, GuardInv, Depth, Walking
<1>2. /\ Parent \in Folders \ {Outside} /\ Len(held) \in Nat \ {0} /\ Len(Path) \in Nat \ {0}
      /\ Entry \in TreeEntries /\ Entry # Folder(Outside)
  BY <1>1, WhereFacts DEF GuardInv
<1>3. /\ \A d \in Folders : tree'[d][Temp] = Nothing
      /\ UNCHANGED <<platform, op, tree, got, meddling, wanted>> /\ seen' = Entry /\ swapped' = FALSE
  BY <1>1, NoTempFacts DEF WalkOpen, Idling, Same
<1>4. Inside' /\ ElseStep /\ WholeStep
  BY <1>3 DEF GuardInv, Inside, ElseStep, WholeStep
<1>5. CASE \E d \in FolderAt(Entry) :
             /\ held' = Append(held, d)
             /\ Go(IF Len(held) + 1 = Len(Path) THEN FirstPlace ELSE "walk")
  <2>1. PICK d \in Folders \ {Outside} :
             /\ held' = Append(held, d)
             /\ place' = IF Len(held) + 1 = Len(Path) THEN FirstPlace ELSE "walk"
    BY <1>2, <1>5, EntryCases DEF FolderAt, Go
  <2>2. /\ held' \in Seq(Folders) /\ Len(held') = Len(held) + 1 /\ held'[1] = Root
        /\ \A i \in 1..Len(held') : held'[i] # Outside
    BY <2>1, <1>2 DEF GuardInv, GuardTypeOK, Rooted, HeldFromRoot
  <2>3. FirstPlace \in {"temp", "open", "leaf"} /\ (FirstPlace = "temp" => op = "replace")
        /\ (FirstPlace = "leaf" => Unix \/ op # "replace")
    BY DEF FirstPlace
  <2>4. Unix' = Unix
    BY <1>3 DEF Unix
  <2>5. GuardTypeOK'
    BY <2>1, <2>2, <2>3, <1>2, <1>3 DEF GuardInv, GuardTypeOK, Walking, AtLeaf
  <2>6. Rooted' /\ BeneathStep
    BY <2>2, <1>2, <1>3 DEF GuardInv, Rooted, HeldFromRoot, BeneathStep
  <2>7. Depth'
    <3>1. CASE Len(held) + 1 = Len(Path)
      BY <2>1, <2>2, <2>3, <3>1 DEF Depth, Walking, AtLeaf
    <3>2. CASE Len(held) + 1 # Len(Path)
      <4>1. place' = "walk" /\ Len(held') < Len(Path)
        BY <2>1, <2>2, <1>1, <1>2, <3>2
      <4> QED BY <4>1 DEF Depth, Walking, AtLeaf
    <3> QED BY <3>1, <3>2
  <2>8. TempOK'
    BY <1>3, <2>1, <2>3, <2>4, NoTempFacts DEF TempHolds
  <2>9. DueOK'
    BY <1>3, <2>1, <2>3 DEF DueOK, Writers
  <2> QED BY <1>4, <2>5, <2>6, <2>7, <2>8, <2>9 DEF Right, GuardInv
<1>6. CASE /\ UNCHANGED held
           /\ \/ place' = "mkdir" /\ op \in Writers
              \/ place' = "look"
              \/ place' = "unlink folder" /\ OnLinkClear /\ Entry = Link
              \/ place' = "done"
  <2>1. Rooted' /\ BeneathStep /\ Entry' = Entry /\ Unix' = Unix
    BY <1>3, <1>6, StillFacts
  <2>2. GuardTypeOK'
    BY <1>6, <1>2, <1>3 DEF GuardInv, GuardTypeOK, Walking
  <2>3. Depth'
    BY <1>1, <1>6 DEF Depth, Walking, AtLeaf
  <2>4. TempOK'
    BY <1>3, <1>6, NoTempFacts DEF TempHolds
  <2>5. DueOK'
    BY <1>3, <1>6, <2>1 DEF DueOK, OnLinkClear
  <2> QED BY <1>4, <2>1, <2>2, <2>3, <2>4, <2>5 DEF Right, GuardInv
<1> QED BY <1>5, <1>6 DEF WalkOpen, Go, Finish, OnMissingCreate

LEMMA WalkMkdirRight == ASSUME GuardInv, WalkMkdir PROVE Right
<1>1. place = "mkdir" /\ Len(held) < Len(Path) /\ op \in Writers
  BY DEF WalkMkdir, GuardInv, Depth, Walking, DueOK
<1>2. /\ Parent \in Folders \ {Outside} /\ Len(held) \in Nat \ {0} /\ Len(Path) \in Nat \ {0}
      /\ Entry \in TreeEntries /\ Here \in PathNames /\ Here # Temp /\ Temp \in PathNames
  BY <1>1, WhereFacts DEF GuardInv
<1>3. /\ \A d \in Folders : tree[d][Temp] = Nothing
      /\ UNCHANGED <<platform, op, got, meddling, wanted, held, seen, swapped>> /\ place' = "walk"
  BY <1>1, NoTempFacts DEF WalkMkdir, Idling, Same, Go
<1>4. /\ Rooted' /\ Inside' /\ BeneathStep /\ ElseStep /\ WholeStep
      /\ tree' \in [Folders -> [PathNames -> TreeEntries]]
      /\ \A d \in Folders : tree'[d][Temp] = Nothing
  <2>1. CASE Entry = Nothing
    <3>1. PICK d \in Folders : d # Outside /\ Put(Parent, Here, Folder(d))
      <4>1. Unused # {} /\ Put(Parent, Here, Folder(CHOOSE d \in Unused : TRUE))
        BY <2>1 DEF WalkMkdir
      <4>2. (CHOOSE d \in Unused : TRUE) \in Unused
        BY <4>1
      <4> QED BY <4>1, <4>2 DEF Unused, Unreferenced
    <3>2. Folder(d) \in TreeEntries /\ Folder(d) # Folder(Outside) /\ Folder(d) # File("elsewhere")
      BY <3>1, EntryKinds DEF TreeEntries
    <3>3. Permitted(Parent, Here, tree[Parent][Here], Folder(d)) /\ ~Is(tree[Parent][Here], "file")
      BY <2>1, <1>1, EntryKinds DEF Permitted, Entry
    <3> QED BY <1>2, <1>3, <3>1, <3>2, <3>3, PutRight
  <2>2. CASE Entry # Nothing
    <3>1. UNCHANGED tree
      BY <2>2 DEF WalkMkdir
    <3> QED BY <3>1, <1>3, StillFacts DEF GuardInv, GuardTypeOK
  <2> QED BY <2>1, <2>2
<1>5. GuardTypeOK'
  BY <1>3, <1>4 DEF GuardInv, GuardTypeOK, Walking
<1>6. Depth' /\ DueOK'
  BY <1>1, <1>3 DEF Depth, Walking, AtLeaf, DueOK
<1>7. TempOK'
  BY <1>3, <1>4, NoTempFacts DEF TempHolds
<1> QED BY <1>4, <1>5, <1>6, <1>7 DEF Right, GuardInv

LEMMA WalkLookRight == ASSUME GuardInv, WalkLook PROVE Right
<1>1. place = "look" /\ Len(held) < Len(Path)
  BY DEF WalkLook, GuardInv, Depth, Walking
<1>2. Entry \in TreeEntries
  BY <1>1, WhereFacts DEF GuardInv
<1>3. /\ \A d \in Folders : tree'[d][Temp] = Nothing
      /\ UNCHANGED <<platform, op, tree, got, meddling, wanted, held>>
      /\ seen' = Entry /\ swapped' = FALSE
      /\ \/ place' = "unlink folder" /\ OnLinkClear /\ Entry = Link
         \/ place' \in {"done", "walk"}
  BY <1>1, NoTempFacts DEF WalkLook, Idling, Same, Go, Finish
<1>4. /\ Rooted' /\ Inside' /\ BeneathStep /\ ElseStep /\ WholeStep /\ Entry' = Entry
  BY <1>3, StillFacts
<1>5. GuardTypeOK'
  BY <1>2, <1>3 DEF GuardInv, GuardTypeOK, Walking
<1>6. Depth'
  BY <1>1, <1>3 DEF Depth, Walking, AtLeaf
<1>7. TempOK'
  BY <1>3, NoTempFacts DEF TempHolds
<1>8. DueOK'
  BY <1>3, <1>4 DEF DueOK, OnLinkClear
<1> QED BY <1>4, <1>5, <1>6, <1>7, <1>8 DEF Right, GuardInv

LEMMA WalkUnlinkRight == ASSUME GuardInv, WalkUnlink PROVE Right
<1>0. place = "unlink folder"
  BY DEF WalkUnlink
<1>8. Len(held) < Len(Path)
  BY <1>0 DEF GuardInv, Depth, Walking
<1>1. OnLinkClear /\ seen = Link /\ (swapped \/ Entry = Link)
  BY <1>0 DEF GuardInv, DueOK
<1>2. /\ Parent \in Folders \ {Outside} /\ Len(held) \in Nat \ {0} /\ Len(Path) \in Nat \ {0}
      /\ Entry \in TreeEntries /\ Here \in PathNames /\ Here # Temp /\ Temp \in PathNames
  BY <1>8, WhereFacts DEF GuardInv
<1>3. /\ \A d \in Folders : tree[d][Temp] = Nothing
      /\ UNCHANGED <<platform, op, got, meddling, wanted, held, seen, swapped>>
      /\ place' \in {"walk", "done"}
  BY <1>0, NoTempFacts DEF WalkUnlink, Idling, Same, Go, Finish
<1>4. /\ Rooted' /\ Inside' /\ BeneathStep /\ ElseStep /\ WholeStep
      /\ tree' \in [Folders -> [PathNames -> TreeEntries]]
      /\ \A d \in Folders : tree'[d][Temp] = Nothing
  <2>1. CASE Put(Parent, Here, Nothing) /\ (Entry = Link \/ (Unix /\ Is(Entry, "file")))
    <3>1. \/ Permitted(Parent, Here, tree[Parent][Here], Nothing)
          \/ Unix /\ swapped /\ ~Is(tree[Parent][Here], "folder")
      BY <2>1, <1>1, <1>2, EntryKinds, EntryCases DEF Permitted, Entry, OnLinkClear
    <3>2. ~Walked
      BY <1>8, <1>2 DEF Walked
    <3>3. Nothing \in TreeEntries /\ Nothing # Folder(Outside) /\ Nothing # File("elsewhere")
      BY EntryKinds
    <3> QED BY <2>1, <1>2, <1>3, <3>1, <3>2, <3>3, PutRight
  <2>2. CASE UNCHANGED tree
    BY <2>2, <1>3, StillFacts DEF GuardInv, GuardTypeOK
  <2> QED BY <2>1, <2>2 DEF WalkUnlink
<1>5. GuardTypeOK'
  BY <1>3, <1>4 DEF GuardInv, GuardTypeOK, Walking
<1>6. Depth' /\ DueOK'
  BY <1>8, <1>3 DEF Depth, Walking, AtLeaf, DueOK
<1>7. TempOK'
  BY <1>3, <1>4, NoTempFacts DEF TempHolds
<1> QED BY <1>4, <1>5, <1>6, <1>7 DEF Right, GuardInv

LEMMA AtLeafFacts ==
  ASSUME GuardInv, place \in AtLeaf
  PROVE  /\ Len(held) = Len(Path) /\ Walked /\ Here = Leaf
         /\ Parent \in Folders \ {Outside} /\ Leaf \in PathNames /\ Temp \in PathNames /\ Leaf # Temp
         /\ Entry \in TreeEntries /\ Entry # Folder(Outside) /\ Entry # File("elsewhere")
         /\ Entry = tree[Parent][Leaf]
<1>1. Len(held) = Len(Path)
  BY DEF GuardInv, Depth
<1>2. Here = Leaf
  BY <1>1 DEF Here, Leaf
<1>3. Len(held) <= Len(Path) /\ Walked
  BY <1>1, WhereFacts DEF GuardInv, Walked
<1> QED BY <1>1, <1>2, <1>3, WhereFacts DEF GuardInv, Entry

LEMMA LeafLookRight == ASSUME GuardInv, LeafLook PROVE Right
<1>1. place = "leaf"
  BY DEF LeafLook
<1>2. /\ Len(held) = Len(Path) /\ Entry \in TreeEntries
  BY <1>1, AtLeafFacts DEF AtLeaf
<1>3. /\ UNCHANGED <<platform, op, tree, got, meddling, wanted, held>>
      /\ seen' = Entry /\ swapped' = FALSE
  BY DEF LeafLook, Same
<1>4. /\ Rooted' /\ Inside' /\ BeneathStep /\ ElseStep /\ WholeStep
      /\ Entry' = Entry /\ Unix' = Unix /\ Parent' = Parent
  BY <1>3, StillFacts
<1>5. /\ place' \in {"temp", "probe", "unlink", "swap", "prune", "readlink", "open", "done"}
      /\ place' = "temp" => /\ op = "write" => Entry \in {Nothing, Link}
                            /\ op \in Writers /\ (op = "replace" => Unix)
      /\ place' = "probe" => op = "write"
      /\ place' = "swap" => op = "replace" /\ ~Unix
      /\ place' = "unlink" => /\ op \in Writers \cup {"remove", "clear", "prune"}
                              /\ op = "write" => ~Unix
                              /\ op = "clear" => Entry = Link
      /\ place' = "prune" => op = "prune"
      /\ op = "replace" => place' \in {"unlink", "temp", "swap"}
  <2>1. CASE op = "write"
    BY <2>1 DEF LeafLook, Looks, Go, Finish, Writers
  <2>2. CASE op = "replace"
    BY <2>2 DEF LeafLook, Looks, Go, Finish, Writers
  <2>3. CASE op = "remove"
    BY <2>3 DEF LeafLook, Looks, Go, Finish, Writers
  <2>4. CASE op = "clear"
    BY <2>4 DEF LeafLook, Looks, Go, Finish, Writers
  <2>5. CASE op = "prune"
    BY <2>5 DEF LeafLook, Looks, Go, Finish, Writers
  <2>6. CASE op = "read"
    BY <2>6 DEF LeafLook, Looks, Go, Finish, Writers
  <2>7. CASE op = "probe"
    BY <2>7 DEF LeafLook, Looks, Go, Finish, Writers
  <2>8. CASE op \in {"open", "readonly"}
    BY <2>8 DEF LeafLook, Looks, Go, Finish, Writers
  <2> QED BY <2>1, <2>2, <2>3, <2>4, <2>5, <2>6, <2>7, <2>8
            DEF GuardInv, GuardTypeOK, GuardOps, Writers, Readers
<1>6. GuardTypeOK'
  BY <1>2, <1>3, <1>5 DEF GuardInv, GuardTypeOK, AtLeaf
<1>7. Depth'
  <2>1. Len(held) <= Len(Path)
    BY <1>2, WhereFacts DEF GuardInv
  <2> QED BY <1>2, <1>3, <1>5, <2>1 DEF Depth, AtLeaf, Walking
<1>8. TempOK'
  <2>1. CASE op = "replace" /\ ~Unix
    BY <2>1, <1>1, <1>3, <1>4, <1>5 DEF GuardInv, TempOK, TempHolds
  <2>2. CASE ~(op = "replace" /\ ~Unix)
    BY <2>2, <1>1, <1>3, <1>4, <1>5, NoTempFacts DEF TempHolds, Idling
  <2> QED BY <2>1, <2>2
<1>9. DueOK'
  BY <1>3, <1>4, <1>5, EntryKinds DEF DueOK, Writers
<1> QED BY <1>4, <1>6, <1>7, <1>8, <1>9 DEF Right, GuardInv

(* What an unlink of the leaf takes, it may take. *)
LEMMA UnlinkPermitted ==
  ASSUME GuardInv, place = "unlink", UnlinkTakes
  PROVE  /\ \/ Permitted(Parent, Leaf, tree[Parent][Leaf], Nothing)
            \/ Unix /\ swapped /\ ~Is(tree[Parent][Leaf], "folder")
         /\ op \in Writers => ~Is(tree[Parent][Leaf], "file")
<1>1. /\ Entry \in TreeEntries /\ Entry = tree[Parent][Leaf]
      /\ op \in Writers \cup {"remove", "clear", "prune"}
      /\ op = "write" => ~Unix
      /\ op = "clear" => seen = Link
      /\ swapped \/ Entry = seen
  BY AtLeafFacts DEF AtLeaf, GuardInv, DueOK
<1>2. CASE Unix /\ RemovesFolder
  BY <1>1, <1>2, EntryCases, EntryKinds
     DEF UnlinkTakes, RemovesFolder, Removable, Permitted, Writers
<1>3. CASE Unix /\ ~RemovesFolder
  BY <1>1, <1>3, EntryCases, EntryKinds
     DEF UnlinkTakes, RemovesFolder, Permitted, Writers
<1>4. CASE ~Unix /\ op \in Writers
  BY <1>1, <1>4, EntryCases, EntryKinds
     DEF UnlinkTakes, RemovesFolder, Removable, Permitted, Writers
<1>5. CASE ~Unix /\ op \notin Writers
  BY <1>1, <1>5, EntryCases, EntryKinds
     DEF UnlinkTakes, Removable, Permitted, Writers
<1> QED BY <1>2, <1>3, <1>4, <1>5

LEMMA LeafUnlinkRight == ASSUME GuardInv, LeafUnlink PROVE Right
<1>1. place = "unlink"
  BY DEF LeafUnlink
<1>2. /\ Len(held) = Len(Path) /\ Here = Leaf
      /\ Parent \in Folders \ {Outside} /\ Leaf \in PathNames /\ Temp \in PathNames /\ Leaf # Temp
      /\ op \in Writers \cup {"remove", "clear", "prune"} /\ (op = "write" => ~Unix)
  BY <1>1, AtLeafFacts DEF AtLeaf, GuardInv, DueOK
<1>3. UNCHANGED <<platform, op, got, meddling, wanted, held, seen, swapped>>
  BY DEF LeafUnlink, Same
<1>4. /\ Rooted' /\ Inside' /\ BeneathStep /\ ElseStep /\ WholeStep
      /\ tree' \in [Folders -> [PathNames -> TreeEntries]]
      /\ Parent' = Parent /\ Unix' = Unix
      /\ \A d \in Folders : tree'[d][Temp] = tree[d][Temp]
  <2>1. CASE UnlinkTakes
    <3>1. /\ \/ Permitted(Parent, Leaf, tree[Parent][Leaf], Nothing)
             \/ Unix /\ swapped /\ ~Is(tree[Parent][Leaf], "folder")
          /\ op \in Writers => ~Is(tree[Parent][Leaf], "file")
      BY <2>1, <1>1, UnlinkPermitted
    <3>2. Put(Parent, Leaf, Nothing)
      BY <2>1, <1>2 DEF LeafUnlink
    <3>3. Nothing \in TreeEntries /\ Nothing # Folder(Outside) /\ Nothing # File("elsewhere")
      BY EntryKinds
    <3> QED BY <1>2, <1>3, <3>1, <3>2, <3>3, PutRight
  <2>2. CASE ~UnlinkTakes
    <3>1. UNCHANGED tree
      BY <2>2 DEF LeafUnlink
    <3> QED BY <3>1, <1>3, StillFacts DEF GuardInv, GuardTypeOK
  <2> QED BY <2>1, <2>2
<1>5. /\ place' \in {"tidy", "done", "leaf", "temp", "prune"}
      /\ place' = "tidy" => op = "replace" /\ ~Unix
      /\ place' = "temp" => op = "replace" /\ Unix
      /\ place' = "prune" => op = "prune"
      /\ place' = "leaf" => op \in Writers /\ ~Unix
      /\ op = "replace" /\ ~Unix => place' \in {"tidy", "leaf"}
  <2>1. CASE UnlinkFails
    BY <2>1 DEF LeafUnlink, Go, Finish
  <2>2. CASE ~UnlinkFails /\ op \in Writers
    BY <2>2, <1>2 DEF LeafUnlink, Go, Finish, Writers
  <2>3. CASE ~UnlinkFails /\ op = "prune"
    BY <2>3, <1>2 DEF LeafUnlink, Go, Finish, Writers
  <2>4. CASE ~UnlinkFails /\ op \in {"remove", "clear"}
    BY <2>4, <1>2 DEF LeafUnlink, Go, Finish, Writers
  <2> QED BY <2>1, <2>2, <2>3, <2>4, <1>2
<1>6. GuardTypeOK'
  BY <1>3, <1>4, <1>5 DEF GuardInv, GuardTypeOK, AtLeaf
<1>7. Depth'
  <2>1. Len(held) <= Len(Path)
    BY <1>2, WhereFacts DEF GuardInv
  <2> QED BY <1>2, <1>3, <1>5, <2>1 DEF Depth, AtLeaf, Walking
<1>8. TempOK'
  <2>1. CASE op = "replace" /\ ~Unix
    <3>1. Parent \in Folders
      BY <1>2
    <3> QED BY <2>1, <3>1, <1>1, <1>3, <1>4, <1>5 DEF GuardInv, TempOK, TempHolds
  <2>2. CASE ~(op = "replace" /\ ~Unix)
    BY <2>2, <1>1, <1>3, <1>4, <1>5, NoTempFacts DEF TempHolds, Idling
  <2> QED BY <2>1, <2>2
<1>9. DueOK'
  BY <1>3, <1>4, <1>5 DEF DueOK, Writers
<1> QED BY <1>4, <1>6, <1>7, <1>8, <1>9 DEF Right, GuardInv

LEMMA LeafProbeRight == ASSUME GuardInv, LeafProbe PROVE Right
<1>1. place = "probe" /\ op = "write"
  BY DEF LeafProbe, GuardInv, DueOK
<1>2. Len(held) = Len(Path)
  BY <1>1, AtLeafFacts DEF AtLeaf
<1>3. /\ UNCHANGED <<platform, op, tree, got, meddling, wanted, held, seen, swapped>>
      /\ place' \in {"done", "temp", "leaf"}
      /\ place' = "temp" => (Unix => Entry # File("frozen"))
  <2>1. CASE Unix
    BY <2>1 DEF LeafProbe, Same, Go, Finish
  <2>2. CASE ~Unix
    BY <2>2 DEF LeafProbe, Same, Go, Finish
  <2> QED BY <2>1, <2>2
<1>4. /\ Rooted' /\ Inside' /\ BeneathStep /\ ElseStep /\ WholeStep
      /\ Entry' = Entry /\ Unix' = Unix
  BY <1>3, StillFacts
<1>5. GuardTypeOK'
  BY <1>3 DEF GuardInv, GuardTypeOK, AtLeaf
<1>6. Depth'
  BY <1>2, <1>3 DEF Depth, AtLeaf, Walking
<1>7. TempOK'
  BY <1>1, <1>3, <1>4, NoTempFacts DEF TempHolds, Idling
<1>8. DueOK'
  BY <1>1, <1>3, <1>4 DEF DueOK, Writers
<1> QED BY <1>4, <1>5, <1>6, <1>7, <1>8 DEF Right, GuardInv

LEMMA TempCreateRight == ASSUME GuardInv, TempCreate PROVE Right
<1>1. place = "temp"
  BY DEF TempCreate
<1>2. /\ Len(held) = Len(Path) /\ Here = Leaf /\ Entry = tree[Parent][Leaf]
      /\ Parent \in Folders \ {Outside} /\ Leaf \in PathNames /\ Temp \in PathNames /\ Leaf # Temp
      /\ op \in Writers /\ (op = "write" /\ Unix => Entry # File("frozen"))
  BY <1>1, AtLeafFacts DEF AtLeaf, GuardInv, DueOK
<1>3. /\ UNCHANGED <<platform, op, got, meddling, wanted, held, seen, swapped>>
      /\ place' = "fill" /\ Put(Parent, Temp, File("part"))
      /\ \A d \in Folders : tree[d][Temp] = Nothing
  BY <1>1, NoTempFacts DEF TempCreate, Same, Go, Idling
<1>4. /\ Rooted' /\ Inside' /\ BeneathStep /\ ElseStep /\ WholeStep
      /\ Parent' = Parent /\ Here' = Here /\ Unix' = Unix
      /\ tree' \in [Folders -> [PathNames -> TreeEntries]]
      /\ \A c \in Folders, m \in PathNames :
           tree'[c][m] = IF c = Parent /\ m = Temp THEN File("part") ELSE tree[c][m]
  <2>1. File("part") \in TreeEntries /\ File("part") # Folder(Outside)
        /\ File("part") # File("elsewhere")
    BY EntryKinds DEF TreeEntries
  <2>2. Permitted(Parent, Temp, tree[Parent][Temp], File("part"))
    BY DEF Permitted
  <2> QED BY <1>2, <1>3, <2>1, <2>2, PutRight
<1>5. Entry' = Entry
  BY <1>2, <1>4 DEF Entry
<1>6. GuardTypeOK'
  BY <1>3, <1>4 DEF GuardInv, GuardTypeOK, AtLeaf
<1>7. Depth'
  BY <1>2, <1>3 DEF Depth, AtLeaf, Walking
<1>8. TempOK'
  BY <1>2, <1>3, <1>4 DEF TempOK, TempHolds
<1>9. DueOK'
  BY <1>2, <1>3, <1>4, <1>5 DEF DueOK
<1> QED BY <1>4, <1>6, <1>7, <1>8, <1>9 DEF Right, GuardInv

LEMMA TempFillRight == ASSUME GuardInv, TempFill PROVE Right
<1>1. place = "fill"
  BY DEF TempFill
<1>2. /\ Len(held) = Len(Path) /\ Here = Leaf /\ Entry = tree[Parent][Leaf]
      /\ Parent \in Folders \ {Outside} /\ Leaf \in PathNames /\ Temp \in PathNames /\ Leaf # Temp
      /\ op \in Writers /\ (op = "write" /\ Unix => Entry # File("frozen"))
  BY <1>1, AtLeafFacts DEF AtLeaf, GuardInv, DueOK
<1>3. /\ UNCHANGED <<platform, op, got, meddling, wanted, held, seen, swapped>>
      /\ place' = IF ~Unix /\ op = "replace" THEN "leaf" ELSE "swap"
      /\ Put(Parent, Temp, File("new"))
      /\ \A d \in Folders : tree[d][Temp] # Nothing => d = Parent
  BY <1>1 DEF TempFill, Same, Go, GuardInv, TempOK, TempHolds
<1>4. /\ Rooted' /\ Inside' /\ BeneathStep /\ ElseStep /\ WholeStep
      /\ Parent' = Parent /\ Here' = Here /\ Unix' = Unix
      /\ tree' \in [Folders -> [PathNames -> TreeEntries]]
      /\ \A c \in Folders, m \in PathNames :
           tree'[c][m] = IF c = Parent /\ m = Temp THEN File("new") ELSE tree[c][m]
  <2>1. File("new") \in TreeEntries /\ File("new") # Folder(Outside)
        /\ File("new") # File("elsewhere")
    BY EntryKinds DEF TreeEntries
  <2>2. Permitted(Parent, Temp, tree[Parent][Temp], File("new"))
    BY DEF Permitted
  <2> QED BY <1>2, <1>3, <2>1, <2>2, PutRight
<1>5. Entry' = Entry
  BY <1>2, <1>4 DEF Entry
<1>6. GuardTypeOK'
  BY <1>3, <1>4 DEF GuardInv, GuardTypeOK, AtLeaf
<1>7. Depth'
  BY <1>2, <1>3 DEF Depth, AtLeaf, Walking
<1>8. TempOK'
  <2>1. tree'[Parent'][Temp] = File("new")
    BY <1>2, <1>4
  <2>2. \A d \in Folders : tree'[d][Temp] # Nothing => d = Parent'
    BY <1>2, <1>3, <1>4
  <2>3. TempHolds'
    BY <1>3, <1>4 DEF TempHolds
  <2> QED BY <2>1, <2>2, <2>3 DEF TempOK
<1>9. DueOK'
  BY <1>2, <1>3, <1>4, <1>5 DEF DueOK
<1> QED BY <1>4, <1>6, <1>7, <1>8, <1>9 DEF Right, GuardInv

LEMMA SwapRight == ASSUME GuardInv, Swap PROVE Right
<1>1. place = "swap"
  BY DEF Swap
<1>2. /\ Len(held) = Len(Path) /\ Here = Leaf /\ Entry = tree[Parent][Leaf]
      /\ Parent \in Folders \ {Outside} /\ Leaf \in PathNames /\ Temp \in PathNames /\ Leaf # Temp
      /\ op \in Writers /\ (op = "write" /\ Unix => Entry # File("frozen"))
      /\ tree[Parent][Temp] = File("new")
      /\ \A d \in Folders : tree[d][Temp] # Nothing => d = Parent
  <2>1. TempHolds
    BY <1>1 DEF TempHolds
  <2> QED BY <1>1, <2>1, AtLeafFacts DEF AtLeaf, GuardInv, DueOK, TempOK
<1>3. UNCHANGED <<platform, op, got, meddling, wanted, held, seen, swapped>>
  BY DEF Swap, Same
<1>4. CASE ~RenameRefused /\ tree' = Renamed /\ place' = "done"
  <2>1. /\ tree' \in [Folders -> [PathNames -> TreeEntries]]
        /\ tree'[Outside] = tree[Outside]
        /\ \A c \in Folders, m \in PathNames :
             tree'[c][m] = IF c = Parent /\ m = Leaf THEN File("new")
                           ELSE IF c = Parent /\ m = Temp THEN Nothing ELSE tree[c][m]
    <3>1. File("new") \in TreeEntries /\ Nothing \in TreeEntries
      BY EntryKinds DEF TreeEntries
    <3>2. tree' = [tree EXCEPT ![Parent][Leaf] = File("new"), ![Parent][Temp] = Nothing]
      BY <1>2, <1>4 DEF Renamed
    <3>3. tree \in [Folders -> [PathNames -> TreeEntries]] /\ Outside \in Folders
      BY GuardAssumption DEF GuardInv, GuardTypeOK
    <3> QED BY <1>2, <3>1, <3>2, <3>3
  <2>2. Inside' /\ Rooted' /\ BeneathStep
    <3>1. File("new") # Folder(Outside) /\ File("new") # File("elsewhere")
          /\ Nothing # Folder(Outside) /\ Nothing # File("elsewhere")
      BY EntryKinds
    <3>2. Inside'
      BY <2>1, <3>1 DEF GuardInv, Inside
    <3> QED BY <3>2, <2>1, <1>3 DEF GuardInv, Rooted, HeldFromRoot, BeneathStep
  <2>3. ElseStep
    <3>1. Permitted(Parent, Leaf, tree[Parent][Leaf], File("new"))
      BY <1>2, <1>4 DEF Permitted, RenameRefused
    <3>2. \A d, a, b : Permitted(d, Temp, a, b)
      BY DEF Permitted
    <3> QED BY <2>1, <3>1, <3>2, <1>2 DEF ElseStep
  <2>4. WholeStep
    BY <2>1, <1>2 DEF WholeStep
  <2>5. GuardTypeOK' /\ Depth' /\ DueOK'
    BY <2>1, <1>3, <1>4 DEF GuardInv, GuardTypeOK, Depth, DueOK, Walking, AtLeaf
  <2>6. TempOK'
    <3>1. \A d \in Folders : tree'[d][Temp] = Nothing
      BY <2>1, <1>2
    <3> QED BY <3>1, <1>4, NoTempFacts DEF TempHolds
  <2> QED BY <2>2, <2>3, <2>4, <2>5, <2>6 DEF Right, GuardInv
<1>5. CASE place' = "tidy" /\ UNCHANGED tree
  <2>1. /\ Rooted' /\ Inside' /\ BeneathStep /\ ElseStep /\ WholeStep /\ Parent' = Parent
    BY <1>3, <1>5, StillFacts
  <2>2. GuardTypeOK' /\ Depth' /\ DueOK'
    BY <1>2, <1>3, <1>5 DEF GuardInv, GuardTypeOK, Depth, DueOK, Walking, AtLeaf
  <2>3. TempOK'
    BY <1>2, <1>5, <2>1 DEF TempOK, TempHolds
  <2> QED BY <2>1, <2>2, <2>3 DEF Right, GuardInv
<1> QED BY <1>4, <1>5 DEF Swap, Go, Finish

LEMMA TidyRight == ASSUME GuardInv, Tidy PROVE Right
<1>1. place = "tidy"
  BY DEF Tidy
<1>2. /\ Parent \in Folders \ {Outside} /\ Leaf \in PathNames /\ Temp \in PathNames /\ Leaf # Temp
      /\ \A d \in Folders : tree[d][Temp] # Nothing => d = Parent
  BY <1>1, AtLeafFacts DEF AtLeaf, GuardInv, TempOK, TempHolds
<1>3. /\ UNCHANGED <<platform, op, got, meddling, wanted, held, seen, swapped>>
      /\ place' = "done" /\ Put(Parent, Temp, Nothing)
  BY DEF Tidy, Same, Finish
<1>4. /\ Rooted' /\ Inside' /\ BeneathStep /\ ElseStep /\ WholeStep
      /\ tree' \in [Folders -> [PathNames -> TreeEntries]]
      /\ \A c \in Folders, m \in PathNames :
           tree'[c][m] = IF c = Parent /\ m = Temp THEN Nothing ELSE tree[c][m]
  <2>1. Nothing \in TreeEntries /\ Nothing # Folder(Outside) /\ Nothing # File("elsewhere")
    BY EntryKinds
  <2>2. Permitted(Parent, Temp, tree[Parent][Temp], Nothing)
    BY DEF Permitted
  <2> QED BY <1>2, <1>3, <2>1, <2>2, PutRight
<1>5. GuardTypeOK' /\ Depth' /\ DueOK'
  BY <1>3, <1>4 DEF GuardInv, GuardTypeOK, Depth, DueOK, Walking, AtLeaf
<1>6. TempOK'
  <2>1. \A d \in Folders : tree'[d][Temp] = Nothing
    BY <1>2, <1>4
  <2> QED BY <2>1, <1>3, NoTempFacts DEF TempHolds
<1> QED BY <1>4, <1>5, <1>6 DEF Right, GuardInv

(* A sequence without its last element. *)
LEMMA ShorterFacts ==
  ASSUME NEW S, NEW s \in Seq(S), Len(s) # 0, Len(s) # 1
  PROVE  LET shorter == SubSeq(s, 1, Len(s) - 1)
         IN  /\ shorter \in Seq(S) /\ Len(shorter) = Len(s) - 1 /\ Len(shorter) \in Nat \ {0}
             /\ Len(shorter) \in 1..Len(s)
             /\ \A i \in 1..Len(shorter) : shorter[i] = s[i]
<1>1. Len(s) \in Nat /\ Len(s) >= 2 /\ 1 <= Len(s) - 1 /\ Len(s) - 1 \in Int
  <2>1. Len(s) \in Nat
    OBVIOUS
  <2>2. \A k \in Nat : k # 0 /\ k # 1 => k >= 2 /\ 1 <= k - 1 /\ k - 1 \in Int
    OBVIOUS
  <2> QED BY <2>1, <2>2
<1>2. \A i \in 1..(Len(s) - 1) : s[i] \in S /\ i \in 1..Len(s)
  BY <1>1
<1>3. /\ SubSeq(s, 1, Len(s) - 1) \in Seq(S)
      /\ Len(SubSeq(s, 1, Len(s) - 1)) = Len(s) - 1
      /\ \A i \in 1..(Len(s) - 1) : SubSeq(s, 1, Len(s) - 1)[i] = s[i]
  BY <1>1, <1>2, SubSeqProperties
<1> QED BY <1>1, <1>3

LEMMA PruneFolderRight == ASSUME GuardInv, PruneFolder PROVE Right
<1>1. /\ place = "prune" /\ op = "prune"
      /\ Len(held) \in Nat \ {0} /\ Len(Path) \in Nat \ {0} /\ Len(held) <= Len(Path)
      /\ Temp \in PathNames
  BY WhereFacts DEF PruneFolder, GuardInv, DueOK, Depth
<1>2. /\ \A d \in Folders : tree[d][Temp] = Nothing
      /\ UNCHANGED <<platform, op, got, meddling, wanted, seen, swapped>>
      /\ place' \in {"prune", "done"}
  BY <1>1, NoTempFacts DEF PruneFolder, Same, Go, Finish, Idling
<1>3. CASE UNCHANGED <<tree, held>>
  <2>1. Rooted' /\ Inside' /\ BeneathStep /\ ElseStep /\ WholeStep
    BY <1>2, <1>3, StillFacts
  <2>2. GuardTypeOK' /\ Depth' /\ DueOK'
    BY <1>1, <1>2, <1>3 DEF GuardInv, GuardTypeOK, Depth, DueOK, Walking, AtLeaf
  <2>3. TempOK'
    BY <1>2, <1>3, NoTempFacts DEF TempHolds
  <2> QED BY <2>1, <2>2, <2>3 DEF Right, GuardInv
<1>4. CASE Len(held) # 1
  <2> DEFINE above == SubSeq(held, 1, Len(held) - 1)
             entry == tree[above[Len(above)]][Path[Len(above)]]
  <2>1. /\ held' = above
        /\ \/ /\ Is(entry, "folder") /\ Removable(entry)
              /\ Put(above[Len(above)], Path[Len(above)], Nothing)
           \/ UNCHANGED tree
    BY <1>4 DEF PruneFolder
  <2>2. /\ above \in Seq(Folders) /\ Len(above) = Len(held) - 1 /\ Len(above) \in Nat \ {0}
        /\ \A i \in 1..Len(above) : above[i] = held[i]
    <3>1. held \in Seq(Folders) /\ Len(held) # 0
      BY <1>1 DEF GuardInv, GuardTypeOK
    <3> QED BY <3>1, <1>4, ShorterFacts
  <2>3. PICK d, n : d = above[Len(above)] /\ n = Path[Len(above)]
    OBVIOUS
  <2>4. d \in Folders \ {Outside} /\ n \in PathNames /\ n # Temp
    <3>1. Len(above) \in 1..Len(held) /\ Len(above) \in 1..Len(Path)
      BY <1>1, <2>2
    <3> QED BY <2>2, <2>3, <3>1, GuardAssumption DEF GuardInv, GuardTypeOK, Rooted, HeldFromRoot, PathNames
  <2>5. /\ held' \in Seq(Folders) /\ Len(held') >= 1 /\ Len(held') <= Len(Path) /\ held'[1] = Root
        /\ \A i \in 1..Len(held') : held'[i] # Outside
    <3>1. \A i \in 1..Len(above) : i \in 1..Len(held)
      BY <1>1, <2>2
    <3> QED BY <1>1, <2>1, <2>2, <3>1 DEF GuardInv, Rooted, HeldFromRoot
  <2> HIDE DEF above, entry
  <2>6. /\ tree' \in [Folders -> [PathNames -> TreeEntries]]
        /\ tree'[Outside] = tree[Outside] /\ Inside' /\ ElseStep
        /\ \A c \in Folders : tree'[c][Temp] = Nothing
    <3>1. CASE Is(tree[d][n], "folder") /\ Removable(tree[d][n]) /\ Put(d, n, Nothing)
      <4>1. Nothing \in TreeEntries /\ Nothing # Folder(Outside) /\ Nothing # File("elsewhere")
        BY EntryKinds
      <4>2. Permitted(d, n, tree[d][n], Nothing)
        BY <3>1, <1>1 DEF Permitted, Removable
      <4>3. /\ tree' \in [Folders -> [PathNames -> TreeEntries]]
            /\ tree'[Outside] = tree[Outside] /\ Inside'
            /\ \A c \in Folders, m \in PathNames :
                 tree'[c][m] = IF c = d /\ m = n THEN Nothing ELSE tree[c][m]
        BY <2>4, <3>1, <4>1, PutFacts DEF GuardInv
      <4>4. ElseStep
        BY <4>2, <4>3 DEF ElseStep
      <4> QED BY <4>3, <4>4, <1>1, <1>2
    <3>2. CASE UNCHANGED tree
      BY <3>2, <1>2 DEF GuardInv, GuardTypeOK, Inside, ElseStep
    <3> QED BY <3>1, <3>2, <2>1, <2>3 DEF entry
  <2>7. WholeStep
    BY <1>1 DEF WholeStep, Writers
  <2>8. Rooted' /\ BeneathStep
    BY <2>5, <2>6, <1>2 DEF GuardInv, Rooted, HeldFromRoot, BeneathStep
  <2>9. GuardTypeOK'
    BY <2>5, <2>6, <1>2 DEF GuardInv, GuardTypeOK
  <2>10. Depth'
    BY <2>5, <1>2 DEF Depth, Walking, AtLeaf
  <2>11. DueOK'
    BY <1>1, <1>2 DEF DueOK
  <2>12. TempOK'
    BY <1>2, <2>6, NoTempFacts DEF TempHolds
  <2> QED BY <2>6, <2>7, <2>8, <2>9, <2>10, <2>11, <2>12 DEF Right, GuardInv
<1> QED BY <1>3, <1>4 DEF PruneFolder

(* Going into a folder that stands where one was opened. *)
LEMMA EnterRight ==
  ASSUME GuardInv, Idling, NEW e \in TreeEntries, Is(e, "folder"), e # Folder(Outside),
         held' = Append(held, e[2]), place' = "resolve", wanted' \in Seq(Components),
         UNCHANGED <<platform, op, tree, got, meddling, seen, swapped>>
  PROVE  Right
<1>1. /\ Parent \in Folders \ {Outside} /\ Len(held) \in Nat \ {0}
      /\ \A d \in Folders : tree'[d][Temp] = Nothing
  BY WhereFacts, NoTempFacts DEF GuardInv
<1>2. e[2] \in Folders \ {Outside}
  BY EntryCases
<1>3. /\ held' \in Seq(Folders) /\ Len(held') = Len(held) + 1 /\ held'[1] = Root
      /\ \A i \in 1..Len(held') : held'[i] # Outside
  BY <1>1, <1>2 DEF GuardInv, GuardTypeOK, Rooted, HeldFromRoot
<1>4. Inside' /\ ElseStep /\ WholeStep
  BY DEF GuardInv, Inside, ElseStep, WholeStep
<1>5. GuardTypeOK'
  BY <1>3 DEF GuardInv, GuardTypeOK
<1>6. Rooted' /\ BeneathStep
  BY <1>1, <1>3 DEF GuardInv, Rooted, HeldFromRoot, BeneathStep
<1>7. Depth' /\ DueOK'
  BY DEF Depth, DueOK, Walking, AtLeaf
<1>8. TempOK'
  BY <1>1, NoTempFacts DEF TempHolds
<1> QED BY <1>4, <1>5, <1>6, <1>7, <1>8 DEF Right, GuardInv

LEMMA ReadOpenRight == ASSUME GuardInv, ReadOpen PROVE Right
<1>1. place = "open"
  BY DEF ReadOpen
<1>2. /\ Len(held) = Len(Path) /\ Entry \in TreeEntries /\ Entry # Folder(Outside)
      /\ Entry # File("elsewhere")
  BY <1>1, AtLeafFacts DEF AtLeaf
<1>3. /\ \A d \in Folders : tree[d][Temp] = Nothing
      /\ UNCHANGED <<platform, op, tree, meddling, wanted, seen, swapped>>
  BY <1>1, NoTempFacts DEF ReadOpen, Same, Idling
<1>4. CASE held' = Append(held, Entry[2]) /\ Is(Entry, "folder") /\ place' = "resolve" /\ UNCHANGED got
  <2>1. Idling /\ wanted' \in Seq(Components)
    BY <1>1, <1>3 DEF Idling, GuardInv, GuardTypeOK
  <2> QED BY <1>2, <1>3, <1>4, <2>1, EnterRight
<1>5. CASE /\ UNCHANGED held
           /\ \/ place' = "leaf" /\ op = "probe" /\ UNCHANGED got
              \/ place' = "done" /\ got' \in {got, Entry}
  <2>1. got' # File("elsewhere")
    BY <1>2, <1>5 DEF GuardInv, Rooted, HeldFromRoot
  <2>2. Rooted' /\ Inside' /\ BeneathStep /\ ElseStep /\ WholeStep
    BY <1>3, <1>5, <2>1 DEF GuardInv, Rooted, HeldFromRoot, Inside, BeneathStep, ElseStep, WholeStep
  <2>3. GuardTypeOK'
    BY <1>3, <1>5 DEF GuardInv, GuardTypeOK, AtLeaf
  <2>4. Depth' /\ DueOK'
    BY <1>2, <1>5 DEF Depth, DueOK, Walking, AtLeaf
  <2>5. TempOK'
    BY <1>3, <1>5, NoTempFacts DEF TempHolds
  <2> QED BY <2>2, <2>3, <2>4, <2>5 DEF Right, GuardInv
<1> QED BY <1>4, <1>5 DEF ReadOpen, Go, Finish

LEMMA ReadLinkRight == ASSUME GuardInv, ReadLink PROVE Right
<1>1. place = "readlink"
  BY DEF ReadLink
<1>2. /\ \A d \in Folders : tree[d][Temp] = Nothing
      /\ UNCHANGED <<platform, op, tree, meddling, wanted, seen, swapped, held>>
      /\ got' \in {got, Link} /\ place' = "done"
  BY <1>1, NoTempFacts DEF ReadLink, Same, Idling, Finish
<1>3. Rooted' /\ Inside' /\ BeneathStep /\ ElseStep /\ WholeStep
  BY <1>2, EntryKinds DEF GuardInv, Rooted, HeldFromRoot, Inside, BeneathStep, ElseStep, WholeStep
<1>4. GuardTypeOK' /\ Depth' /\ DueOK'
  BY <1>2 DEF GuardInv, GuardTypeOK, Depth, DueOK, Walking, AtLeaf
<1>5. TempOK'
  BY <1>2, NoTempFacts DEF TempHolds
<1> QED BY <1>3, <1>4, <1>5 DEF Right, GuardInv

LEMMA ResolveRight == ASSUME GuardInv, Resolve PROVE Right
<1>1. place = "resolve" /\ Idling
  BY DEF Resolve, Idling
<1>2. /\ \A d \in Folders : tree[d][Temp] = Nothing
      /\ UNCHANGED <<platform, op, tree, got, meddling, seen, swapped>>
      /\ Len(held) \in Nat \ {0} /\ Parent \in Folders
  BY <1>1, NoTempFacts, WhereFacts DEF GuardInv, Resolve, Same
<1>3. wanted' \in Seq(Components) /\ (wanted # <<>> => Head(wanted) \in Components)
  <2>1. wanted \in Seq(Components) /\ wanted' \in {wanted, Tail(wanted)}
        /\ (wanted = <<>> => wanted' = wanted)
    BY DEF Resolve, GuardInv, GuardTypeOK
  <2> QED BY <2>1, HeadTailProperties
<1>4. CASE /\ place' \in {"done", "resolve"}
           /\ \/ UNCHANGED held
              \/ held' = <<held[1]>>
              \/ Len(held) # 1 /\ held' = SubSeq(held, 1, Len(held) - 1)
  <2>1. /\ held' \in Seq(Folders) /\ Len(held') \in 1..Len(held)
        /\ \A i \in 1..Len(held') : held'[i] = held[i]
    <3>1. held \in Seq(Folders) /\ Len(held) \in Nat \ {0}
      BY <1>2 DEF GuardInv, GuardTypeOK
    <3>2. CASE UNCHANGED held
      BY <3>1, <3>2
    <3>3. CASE held' = <<held[1]>>
      BY <3>1, <3>3
    <3>4. CASE Len(held) # 1 /\ held' = SubSeq(held, 1, Len(held) - 1)
      <4>1. /\ SubSeq(held, 1, Len(held) - 1) \in Seq(Folders)
            /\ Len(SubSeq(held, 1, Len(held) - 1)) \in 1..Len(held)
            /\ \A i \in 1..Len(SubSeq(held, 1, Len(held) - 1)) :
                 SubSeq(held, 1, Len(held) - 1)[i] = held[i]
        <5>1. Len(held) # 0 /\ Len(held) # 1
          BY <3>1, <3>4
        <5> QED BY <3>1, <5>1, ShorterFacts
      <4> QED BY <3>4, <4>1
    <3> QED BY <3>2, <3>3, <3>4, <1>4
  <2>2. held'[1] = Root /\ \A i \in 1..Len(held') : held'[i] # Outside
    BY <1>2, <2>1 DEF GuardInv, Rooted, HeldFromRoot
  <2>3. Rooted' /\ Inside' /\ BeneathStep /\ ElseStep /\ WholeStep
    BY <1>2, <2>1, <2>2 DEF GuardInv, Rooted, HeldFromRoot, Inside, BeneathStep, ElseStep, WholeStep
  <2>4. GuardTypeOK'
    BY <1>2, <1>3, <1>4, <2>1 DEF GuardInv, GuardTypeOK
  <2>5. Depth' /\ DueOK'
    BY <1>4 DEF Depth, DueOK, Walking, AtLeaf
  <2>6. TempOK'
    BY <1>2, <1>4, NoTempFacts DEF TempHolds
  <2> QED BY <2>3, <2>4, <2>5, <2>6 DEF Right, GuardInv
<1>5. CASE /\ wanted # <<>> /\ Head(wanted) \notin {"/", "elsewhere", ".."}
           /\ held' = Append(held, tree[Parent][Head(wanted)][2])
           /\ Is(tree[Parent][Head(wanted)], "folder") /\ place' = "resolve"
  <2>1. Head(wanted) \in PathNames
    BY <1>3, <1>5 DEF Components
  <2>2. tree[Parent][Head(wanted)] \in TreeEntries /\ tree[Parent][Head(wanted)] # Folder(Outside)
    BY <1>2, <2>1 DEF GuardInv, GuardTypeOK, Inside
  <2> QED BY <1>1, <1>2, <1>3, <1>5, <2>2, EnterRight
<1> QED BY <1>4, <1>5 DEF Resolve, Go, Finish

LEMMA EndingRight == ASSUME GuardInv, GiveUp \/ CallFails \/ Killed PROVE Right
<1>1. UNCHANGED <<platform, op, tree, held, got, meddling, wanted, seen, swapped>>
  BY DEF GiveUp, CallFails, Killed, Same
<1>2. /\ Rooted' /\ Inside' /\ BeneathStep /\ ElseStep /\ WholeStep
      /\ Parent' = Parent /\ Unix' = Unix
  BY <1>1, StillFacts
<1>3. \/ place' = "tidy" /\ (place \in {"fill", "swap"} \/ (op = "replace" /\ place \in {"leaf", "unlink"}))
      \/ place' = "done" /\ (Idling \/ outcome' \in {"killed", "untidy"})
  <2>1. CASE GiveUp
    <3>1. CASE op = "replace" /\ place = "leaf"
      BY <2>1, <3>1 DEF GiveUp, Go
    <3>2. CASE ~(op = "replace" /\ place = "leaf")
      BY <2>1, <3>2 DEF GiveUp, Finish, Idling
    <3> QED BY <3>1, <3>2
  <2>2. CASE CallFails
    <3>1. CASE place \in {"fill", "swap"} \/ (op = "replace" /\ ~Unix /\ place \in {"leaf", "unlink"})
      <4>1. place' = "tidy"
        BY <2>2, <3>1, Zenon DEF CallFails, Go
      <4> QED BY <4>1, <3>1
    <3>2. CASE ~(place \in {"fill", "swap"} \/ (op = "replace" /\ ~Unix /\ place \in {"leaf", "unlink"}))
      BY <2>2, <3>2 DEF CallFails, Finish, Idling
    <3> QED BY <3>1, <3>2
  <2>3. CASE Killed
    BY <2>3 DEF Killed, Finish
  <2> QED BY <2>1, <2>2, <2>3
<1>4. GuardTypeOK' /\ DueOK'
  BY <1>1, <1>3 DEF GuardInv, GuardTypeOK, DueOK, AtLeaf
<1>5. Depth'
  BY <1>1, <1>3 DEF GuardInv, Depth, Walking, AtLeaf
<1>6. TempOK'
  <2>1. CASE place' = "tidy" /\ place # "done"
    <3>1. \A d \in Folders : tree[d][Temp] # Nothing => d = Parent
      BY <2>1 DEF GuardInv, TempOK
    <3> QED BY <2>1, <3>1, <1>1, <1>2 DEF TempOK, TempHolds
  <2>2. CASE place' = "done" /\ Idling
    BY <2>2, <1>1, NoTempFacts DEF TempHolds
  <2>3. CASE place' = "done" /\ outcome' \in {"killed", "untidy"}
    BY <2>3 DEF TempOK, TempHolds
  <2> QED BY <2>1, <2>2, <2>3, <1>3
<1> QED BY <1>2, <1>4, <1>5, <1>6 DEF Right, GuardInv

LEMMA OurStepRight == ASSUME GuardInv, OurStep PROVE Right
BY WalkOpenRight, WalkMkdirRight, WalkLookRight, WalkUnlinkRight, LeafLookRight, LeafUnlinkRight,
   LeafProbeRight, TempCreateRight, TempFillRight, SwapRight, TidyRight, PruneFolderRight,
   ReadOpenRight, ReadLinkRight, ResolveRight, EndingRight, Zenon DEF OurStep

(* Another program's change never makes what the operation stands on false. *)
LEMMA MeddleKeeps == ASSUME GuardInv, Meddle PROVE GuardInv' /\ meddling' # meddling
<1>1. /\ UNCHANGED <<platform, op, held, place, seen, wanted, got, outcome>>
      /\ place # "done" /\ meddling' = meddling + 1
  BY DEF Meddle
<1>2. PICK i \in 1..Len(Path), d \in Folders \ {Outside} :
        /\ \E entry \in {Nothing, Link, File("theirs")} \cup
                      {Folder(c) : c \in {c \in Folders : Unreferenced(c)}} :
            Put(d, Path[i], entry)
        /\ swapped' = (swapped \/ (place # "resolve" /\ d = Parent /\ Path[i] = Here))
  BY Zenon DEF Meddle
<1>3. PICK entry \in {Nothing, Link, File("theirs")} \cup
                      {Folder(c) : c \in {c \in Folders : Unreferenced(c)}} :
            Put(d, Path[i], entry)
  BY <1>2
<1>4. /\ entry \in TreeEntries /\ entry # Folder(Outside)
      /\ entry # File("elsewhere") /\ entry # File("frozen")
  <2>1. CASE entry \in {Nothing, Link, File("theirs")}
    BY <2>1, EntryKinds DEF TreeEntries
  <2>2. CASE \E c \in Folders : Unreferenced(c) /\ entry = Folder(c)
    <3>1. PICK c \in Folders : c # Outside /\ entry = Folder(c)
      BY <2>2 DEF Unreferenced
    <3> QED BY <3>1, EntryKinds DEF TreeEntries
  <2> QED BY <2>1, <2>2
<1>5. PICK n : n = Path[i]
  OBVIOUS
<1>6. n \in PathNames /\ n # Temp /\ Temp \in PathNames
  BY <1>5, GuardAssumption DEF PathNames
<1>7. /\ tree' \in [Folders -> [PathNames -> TreeEntries]] /\ Inside'
      /\ \A c \in Folders, m \in PathNames :
           tree'[c][m] = IF c = d /\ m = n THEN entry ELSE tree[c][m]
  BY <1>3, <1>4, <1>5, <1>6, PutFacts DEF GuardInv
<1>8. /\ Parent' = Parent /\ Here' = Here /\ Unix' = Unix /\ Parent \in Folders
      /\ Len(held) <= Len(Path) => Here \in PathNames /\ Entry \in TreeEntries
  BY <1>1, WhereFacts DEF GuardInv, Parent, Here, Unix
<1>9. GuardTypeOK' /\ meddling' # meddling
  <2>1. meddling \in Nat /\ swapped' \in BOOLEAN
    BY <1>2 DEF GuardInv, GuardTypeOK
  <2> QED BY <2>1, <1>1, <1>7 DEF GuardInv, GuardTypeOK
<1>10. Rooted' /\ Depth'
  BY <1>1 DEF GuardInv, Rooted, HeldFromRoot, Depth
<1>11. TempOK'
  <2>1. \A c \in Folders : tree'[c][Temp] = tree[c][Temp]
    BY <1>6, <1>7
  <2>2. TempHolds' <=> TempHolds
    BY <1>1, <1>8 DEF TempHolds
  <2> QED BY <2>1, <2>2, <1>1, <1>8 DEF GuardInv, TempOK
<1>12. DueOK'
  <2>1. CASE place \in {"resolve", "done"}
    BY <2>1, <1>1 DEF DueOK
  <2>2. CASE place \notin {"resolve", "done"}
    <3>1. Len(held) <= Len(Path)
      <4>1. Len(held) < Len(Path) \/ Len(held) = Len(Path) \/ Len(held) <= Len(Path)
        BY <2>2 DEF GuardInv, GuardTypeOK, Depth
      <4> QED BY <4>1, WhereFacts DEF GuardInv
    <3>2. Entry' = IF Parent = d /\ Here = n THEN entry ELSE Entry
      BY <3>1, <1>7, <1>8 DEF Entry
    <3>3. swapped' <=> swapped \/ (d = Parent /\ n = Here)
      BY <2>2, <1>2, <1>5
    <3>4. Entry' = Entry \/ swapped'
      BY <3>2, <3>3
    <3>5. Entry # File("frozen") => Entry' # File("frozen")
      BY <3>2, <1>4
    <3>6. swapped => swapped'
      BY <3>3
    <3> QED BY <3>4, <3>5, <3>6, <1>1, <1>8 DEF GuardInv, DueOK, OnLinkClear
  <2> QED BY <2>1, <2>2
<1> QED BY <1>7, <1>9, <1>10, <1>11, <1>12 DEF GuardInv

LEMMA JunctionKeeps == ASSUME GuardInv, Junction PROVE GuardInv' /\ meddling' # meddling
<1>1. /\ UNCHANGED <<platform, op, tree, held, place, seen, wanted, got, outcome, swapped>>
      /\ meddling' = meddling + 1
  BY DEF Junction
<1>2. GuardTypeOK' /\ meddling' # meddling
  BY <1>1 DEF GuardInv, GuardTypeOK
<1>3. /\ Rooted' /\ Inside' /\ Parent' = Parent /\ Entry' = Entry /\ Unix' = Unix
  BY <1>1, StillFacts
<1>4. Depth' /\ TempOK' /\ DueOK'
  BY <1>1, <1>3 DEF GuardInv, Depth, TempOK, TempHolds, DueOK, OnLinkClear
<1> QED BY <1>2, <1>3, <1>4 DEF GuardInv

LEMMA GuardStep == ASSUME GuardInv, [GuardNext]_guardVars PROVE GuardInv'
<1>1. CASE OurStep
  BY <1>1, OurStepRight DEF Right
<1>2. CASE Meddle \/ Junction
  BY <1>2, MeddleKeeps, JunctionKeeps
<1>3. CASE UNCHANGED guardVars
  <2>1. UNCHANGED <<platform, op, tree, held, place, seen, wanted, got, outcome, swapped, meddling>>
    BY <1>3 DEF guardVars
  <2>2. /\ Rooted' /\ Inside' /\ Parent' = Parent /\ Entry' = Entry /\ Unix' = Unix
    BY <2>1, StillFacts
  <2>3. GuardTypeOK' /\ Depth'
    BY <2>1 DEF GuardInv, GuardTypeOK, Depth
  <2>4. TempOK'
    BY <2>1, <2>2 DEF GuardInv, TempOK, TempHolds
  <2>5. DueOK'
    BY <2>1, <2>2 DEF GuardInv, DueOK, OnLinkClear
  <2> QED BY <2>2, <2>3, <2>4, <2>5 DEF GuardInv
<1> QED BY <1>1, <1>2, <1>3 DEF GuardNext

LEMMA OursRight ==
  ASSUME GuardInv, [GuardNext]_guardVars, Ours
  PROVE  BeneathStep /\ ElseStep /\ WholeStep
<1>1. CASE OurStep
  BY <1>1, OurStepRight DEF Right
<1>2. CASE Meddle \/ Junction
  BY <1>2, MeddleKeeps, JunctionKeeps DEF Ours
<1>3. CASE UNCHANGED guardVars
  BY <1>3, StillFacts DEF guardVars
<1> QED BY <1>1, <1>2, <1>3 DEF GuardNext

LEMMA NoTempLeft ==
  GuardInv => (place = "done" /\ outcome \notin {"killed", "untidy"} =>
                 \A d \in Folders : tree[d][Temp] = Nothing)
BY DEF GuardInv, TempOK, TempHolds

LEMMA GuardStays == WorkSpec => [][GuardNext]_guardVars /\ []GuardInv
<1>1. WorkInit => GuardInit
  BY DEF WorkInit, GuardAtRest
<1>2. [WorkNext]_workVars => [GuardNext]_guardVars
  BY DEF WorkNext, workVars
<1> QED BY <1>1, <1>2, StartRight, GuardStep, PTL DEF WorkSpec

(* Whatever other programs put in the way: what is held was reached from the root by folders  *)
(* alone, and nothing beyond a link is opened, read or changed (walk_from, step_into,         *)
(* HeldFolder::resolve).                                                                      *)
THEOREM WalksStayBeneath == WorkSpec => StaysBeneath
<1>1. GuardInv /\ [GuardNext]_guardVars =>
        [Ours => /\ tree'[Outside] = tree[Outside]
                 /\ HeldFromRoot'
                 /\ got' # File("elsewhere")]_guardVars
  BY OursRight DEF BeneathStep
<1> QED BY <1>1, GuardStays, PTL DEF StaysBeneath

(* An operation changes its leaf in its own way only, and a file it replaces is the old one or *)
(* all of the new one at every moment (write_with, replace_with, swap_in, delete_by_handle).   *)
THEOREM AccessesLeaveTheRest == WorkSpec => LeavesTheRest
<1>1. GuardInv /\ [GuardNext]_guardVars =>
        [Ours => \A d \in Folders, n \in PathNames :
           \/ tree'[d][n] = tree[d][n]
           \/ Permitted(d, n, tree[d][n], tree'[d][n])
           \/ Unix /\ swapped /\ d = Parent /\ n = Here /\ ~Is(tree[d][n], "folder")]_guardVars
  BY OursRight DEF ElseStep
<1>2. GuardInv /\ [GuardNext]_guardVars =>
        [Ours /\ op \in Writers /\ Walked /\ Is(tree[Parent][Leaf], "file") =>
           tree'[Parent][Leaf] \in {tree[Parent][Leaf], File("new")}]_guardVars
  BY OursRight DEF WholeStep
<1> QED BY <1>1, <1>2, NoTempLeft, GuardStays, PTL DEF LeavesTheRest, TakesNothingElse, ReplacedWhole


-----------------------------------------------------------------------------
(***************************************************************************)
(* Checkouts: no link of the user's is written through or lost.            *)
(*                                                                         *)
(* What was looked at when the operation began still says what it said:    *)
(* nothing that libgit2 may meet on its way can have become a link since,  *)
(* except a link of the target's own, and a commit that was let through    *)
(* has nothing else at that spot (prepare_forced_checkout,                 *)
(* refuse_linked_folders, path_collisions).                                *)
(***************************************************************************)

DiskEntries == CommitEntries \cup {"mine", "folder"}
PathTrees == [Names -> CommitEntries]

JobTypes ==
  [op : SafeOps \cup ForcedOps \cup {"none"}, target : Trees, paths : SUBSET Names,
   pc : {"idle", "clear", "checkout", "undo", "head", "index"},
   outcome : {"none", "refused", "done", "stopped", "undone", "half"},
   todo : SUBSET Names, written : SUBSET Names, hazards : SUBSET Names]

CoTypeOK ==
  /\ caseRule \in {"exact", "folds", "mac", "unreadable"}
  /\ head \in Trees /\ index \in PathTrees /\ disk \in [Names -> DiskEntries]
  /\ beyond \in BOOLEAN /\ merging \in BOOLEAN /\ tried \in Nat
  /\ job \in JobTypes
  /\ before \in [head : Trees, index : PathTrees, disk : [Names -> DiskEntries]]

UnderWay == job.pc \in {"clear", "checkout", "undo"}

(* Who does what: a safe operation works on every path and clears nothing, and the index stays *)
(* what it was until libgit2 is done with the files.                                           *)
Begun ==
  /\ tried = 0 => job = NoJob /\ ~beyond /\ index \in Trees
  /\ tried > 0 => job.op # "none" /\ ~(job.pc = "idle" /\ job.outcome = "none")
  /\ head # before.head => job.pc = "index" \/ (job.pc = "idle" /\ job.outcome = "done")
  /\ job.pc # "idle" => job.outcome = "none"
  /\ job.pc = "clear" => job.written = {}
  /\ UnderWay => index = before.index
  /\ job.op \in SafeOps => job.paths = Names /\ job.hazards = {} /\ job.pc \notin {"clear", "index"}
  /\ job.op \in ForcedOps => job.pc # "head"
  /\ job.pc = "undo" => job.op \in RollsBack \cup {"abort"}
  /\ job.op = "abort" => job.target = head

(* A path the operation is for: selected, and of one of the three commits. *)
OfTheJob(n) ==
  /\ Selected(n, job.paths, IgnoreCase)
  /\ \E t \in {before.head, before.index, job.target} : t[n] # "none"
  /\ job.op \in SafeOps => job.target[n] # before.head[n]

(* The checks made at the start are about the state the job works on. *)
AsChecked ==
  /\ job.op # "none" /\ UnderWay => \A n \in job.todo \cup job.written : OfTheJob(n)
  /\ job.op # "none" /\ UnderWay => ~BringsCollision(job.target, job.paths)
  /\ job.op \in ForcedOps /\ UnderWay =>
       job.hazards = Hazards(job.target, job.paths, before.disk)
  /\ job.pc = "clear" => disk = before.disk
  /\ job.op \in SafeOps /\ UnderWay =>
       /\ FolderLinks(before.head, Names, before.disk) \cup FolderLinks(before.index, Names, before.disk) = {}
       /\ \A p \in FolderLinks(job.target, Names, before.disk) : ~Merges(job.op) /\ IsLink(before.head[p])

(* Each link that stands was there and is no hazard, or is the target's own; and whatever the   *)
(* target does not have is deleted before anything is written.                                 *)
Since ==
  job.pc = "checkout" =>
    /\ \A s \in Names : IsLink(disk[s]) =>
         \/ IsLink(before.disk[s]) /\ \A h \in job.hazards : Spot(h) # s
         \/ \E m \in job.written : Spot(m) = s /\ IsLink(job.target[m])
    /\ (\E m \in job.written : job.target[m] # "none") => \A n \in job.todo : job.target[n] # "none"

(* A link stands in a folder, not below another link or a file. *)
LinksStand(d) ==
  \A n \in Names : IsLink(OnDisk(d, n)) => \A p \in ParentsOf(n) : OnDisk(d, p) = "folder"

(* What is put in its place stands in folders, unless the commit cannot be checked out at all. *)
Shape ==
  ~Impossible =>
    /\ tried = 0 \/ job.op \in ForcedOps => LinksStand(disk) /\ LinksStand(before.disk)
    /\ job.pc \in {"checkout", "undo"} =>
         \A n \in job.written : job.target[n] # "none" => OnDisk(disk, n) # "folder"

(* The inductive invariant. *)
LinksInv == CoTypeOK /\ Begun /\ AsChecked /\ Since /\ Shape /\ LinksAreRespected

LEMMA ParentFacts ==
  ASSUME NEW n \in Names
  PROVE  /\ ParentsOf(n) \subseteq Names
         /\ \A p, q \in ParentsOf(n) : p = q
         /\ \A p \in ParentsOf(n) : ParentsOf(p) = {}
BY NamesAssumption DEF ParentsOf

(* Names of one spot lie in folders of one spot, and no folder lies in another.                *)
LEMMA SpotFacts ==
  ASSUME NEW n \in Names, NEW m \in Names
  PROVE  /\ Spot(n) \in Names /\ Spot(Spot(n)) = Spot(n)
         /\ Twins[Spot(n)] = Twins[n]
         /\ Spot(n) = Spot(m) =>
              /\ n # m => Folding
              /\ Twins[n] = Twins[m]
              /\ \A p \in ParentsOf(n) : \E q \in ParentsOf(m) : Spot(p) = Spot(q)
         /\ \A p \in ParentsOf(n) : Spot(p) = Spot(m) => ParentsOf(m) = {}
<1>1. /\ Spot(n) \in Names /\ Spot(Spot(n)) = Spot(n)
      /\ Twins[Spot(n)] = Twins[n]
  BY NamesAssumption DEF Spot
<1>2. ASSUME NEW k \in Names, NEW l \in Names, Spot(k) = Spot(l)
      PROVE  /\ k # l => Folding
             /\ Twins[k] = Twins[l]
             /\ \A p \in ParentsOf(k) : \E q \in ParentsOf(l) : Spot(p) = Spot(q)
  <2>1. (k # l => Folding) /\ Twins[k] = Twins[l]
    BY <1>2 DEF Spot
  <2>2. CASE k = l
    BY <2>1, <2>2
  <2>3. CASE k # l
    <3>1. {Twins[p] : p \in ParentsOf(k)} = {Twins[p] : p \in ParentsOf(l)}
      BY <2>1, NamesAssumption
    <3> QED BY <2>1, <2>3, <3>1 DEF Spot
  <2> QED BY <2>2, <2>3
<1>3. ASSUME NEW p \in ParentsOf(n), Spot(p) = Spot(m)
      PROVE  ParentsOf(m) = {}
  <2>1. p \in Names /\ ParentsOf(p) = {}
    BY ParentFacts
  <2> QED BY <2>1, <1>3, <1>2
<1> QED BY <1>1, <1>2, <1>3

LEMMA SelectedFacts ==
  ASSUME NEW n \in Names, NEW P \in SUBSET Names
  PROVE  /\ \A ic \in BOOLEAN : Selected(n, P, ic) => Selected(n, P, TRUE)
         /\ n \in P => \A ic \in BOOLEAN : Selected(n, P, ic)
BY DEF Selected

LEMMA SelectedAgain ==
  ASSUME NEW n \in Names, NEW W \in SUBSET Names, NEW P \in SUBSET Names,
         Selected(n, W, TRUE), \A w \in W : Selected(w, P, TRUE)
  PROVE  Selected(n, P, TRUE)
<1>1. PICK w \in W, m \in {n} \cup ParentsOf(n) : Twins[m] = Twins[w]
  BY DEF Selected
<1>2. PICK v \in P, k \in {w} \cup ParentsOf(w) : Twins[k] = Twins[v]
  BY DEF Selected
<1>3. m \in Names /\ w \in Names /\ k \in Names
  BY <1>1, <1>2, ParentFacts
<1>4. CASE k = w
  BY <1>1, <1>2, <1>4 DEF Selected
<1>5. CASE k \in ParentsOf(w)
  <2>1. {Twins[p] : p \in ParentsOf(m)} = {Twins[p] : p \in ParentsOf(w)}
    BY <1>1, <1>3, NamesAssumption
  <2>2. PICK q \in ParentsOf(m) : Twins[q] = Twins[k]
    BY <2>1, <1>5
  <2>3. m = n
    BY <2>2, <1>1, ParentFacts
  <2> QED BY <2>2, <2>3, <1>2 DEF Selected
<1> QED BY <1>2, <1>4, <1>5

-----------------------------------------------------------------------------
(* One commit holds no two things at one spot, unless it has a link and a folder of one name.  *)

LEMMA OneThingThere ==
  ASSUME NEW t \in Trees, NEW P \in SUBSET Names, Folding => Collisions(t, P) = {},
         NEW n \in Names, NEW m \in Names, t[n] # "none", t[m] # "none",
         Selected(n, P, TRUE), Selected(m, P, TRUE)
  PROVE  /\ \A p \in ParentsOf(m) : Spot(p) # Spot(n)
         /\ IsFile(t[n]) /\ IsLink(t[m]) => Spot(m) # Spot(n)
<1>1. t[n] \in CommitEntries /\ t[m] \in CommitEntries
  BY TreesAssumption
<1>2. ASSUME NEW p \in ParentsOf(m), Spot(p) = Spot(n)
      PROVE  FALSE
  <2>1. p \in Names
    BY ParentFacts
  <2>2. p # n
    BY TreesAssumption
  <2>3. Folding /\ Twins[p] = Twins[n]
    BY <1>2, <2>1, <2>2, SpotFacts
  <2>4. CASE t[n] \in {"a", "b"}
    <3>1. n # m
      BY <1>2, <2>1, <2>2, SpotFacts, ParentFacts
    <3>2. Twins[n] \notin {Twins[k] : k \in {m} \cup ParentsOf(m)}
      BY <3>1, <2>4, TreesAssumption
    <3> QED BY <3>2, <2>3, <1>2
  <2>5. CASE IsLink(t[n])
    <3>1. <<n, p>> \in Collisions(t, P)
      BY <2>5, <2>1, <2>3, <1>2 DEF Collisions, Below
    <3> QED BY <3>1, <2>3
  <2> QED BY <2>4, <2>5, <1>1 DEF CommitEntries, IsLink, LinkEntries
<1>3. ASSUME IsFile(t[n]), IsLink(t[m]), Spot(m) = Spot(n)
      PROVE  FALSE
  <2>1. n # m /\ t[n] \in {"a", "b"}
    BY <1>3, <1>1 DEF IsFile, IsLink, LinkEntries, CommitEntries
  <2>2. Twins[n] \notin {Twins[k] : k \in {m} \cup ParentsOf(m)}
    BY <2>1, TreesAssumption
  <2> QED BY <2>2, <1>3, SpotFacts
<1> QED BY <1>2, <1>3

LEMMA NoCollisions ==
  ASSUME ~Impossible, head = before.head, NEW t, NEW P \in SUBSET Names,
         ~BringsCollision(t, P) \/ t = head
  PROVE  Folding => Collisions(t, P) = {}
<1>1. Collisions(head, P) \subseteq Collisions(head, Names)
  <2>1. \A n \in Names : Selected(n, Names, TRUE)
    BY SelectedFacts
  <2> QED BY <2>1, ParentFacts DEF Collisions, Below
<1>2. Folding => Collisions(head, P) = {}
  BY <1>1 DEF Impossible
<1>3. \A c \in Collisions(t, P) : c \in Names \X Names
  BY DEF Collisions
<1> QED BY <1>2, <1>3 DEF BringsCollision

-----------------------------------------------------------------------------
(* What a step does to the work tree. *)

Around(n) == {Spot(k) : k \in {n} \cup ParentsOf(n)}

InOne(t, n) == t[n] # "none" \/ head[n] # "none" \/ index[n] # "none"

LEMMA AroundFacts ==
  ASSUME NEW n \in Names
  PROVE  Around(n) \subseteq Names /\ Spot(n) \in Around(n)
BY SpotFacts, ParentFacts DEF Around

LEMMA WrittenFacts ==
  ASSUME NEW d \in [Names -> DiskEntries], NEW n \in Names, NEW e \in CommitEntries
  PROVE  /\ Written(d, n, e) \in [Names -> DiskEntries]
         /\ \A s \in Names :
              LET w == Written(d, n, e)[s]
              IN  /\ w # d[s] => s \in Around(n) \cup {Spot(m) : m \in BelowSpot(Spot(n))}
                  /\ IsLink(w) => w = d[s] \/ (s = Spot(n) /\ w = e)
                  /\ w = "folder" => \/ d[s] = "folder"
                                     \/ e # "none" /\ \E p \in ParentsOf(n) : s = Spot(p)
                  /\ s = Spot(n) => w = e \/ (e = "none" /\ w = d[s])
<1>1. CASE e = "none"
  <2>1. CASE d[Spot(n)] = "folder" \/ \E p \in ParentsOf(n) : d[Spot(p)] # "folder"
    BY <1>1, <2>1 DEF Written
  <2>2. CASE ~(d[Spot(n)] = "folder" \/ \E p \in ParentsOf(n) : d[Spot(p)] # "folder")
    <3> DEFINE f == [d EXCEPT ![Spot(n)] = "none"]
    <3>1. Written(d, n, e) = Emptied(f, n)
      BY <1>1, <2>2 DEF Written
    <3>2. f \in [Names -> DiskEntries] /\ \A s \in Names : f[s] = IF s = Spot(n) THEN "none" ELSE d[s]
      BY SpotFacts DEF DiskEntries, CommitEntries
    <3> HIDE DEF f
    <3>3. \A s \in Names : /\ Emptied(f, n)[s] \in {"none", f[s]}
                           /\ Emptied(f, n)[s] # f[s] => \E p \in ParentsOf(n) : s = Spot(p)
      BY DEF Emptied
    <3>4. Emptied(f, n) \in [Names -> DiskEntries]
      BY <3>2 DEF Emptied, DiskEntries, CommitEntries
    <3> QED BY <3>1, <3>2, <3>3, <3>4, <1>1 DEF Around, IsLink, LinkEntries
  <2> QED BY <2>1, <2>2
<1>2. CASE e # "none"
  <2>1. Written(d, n, e) =
          [s \in Names |-> CASE s = Spot(n) -> e
                             [] \E p \in ParentsOf(n) : s = Spot(p) -> "folder"
                             [] \E m \in BelowSpot(Spot(n)) : s = Spot(m) -> "none"
                             [] OTHER -> d[s]]
    BY <1>2 DEF Written
  <2>2. ASSUME NEW s \in Names
        PROVE  \/ s = Spot(n) /\ Written(d, n, e)[s] = e
               \/ /\ s # Spot(n) /\ \E p \in ParentsOf(n) : s = Spot(p)
                  /\ Written(d, n, e)[s] = "folder"
               \/ /\ s # Spot(n) /\ \E m \in BelowSpot(Spot(n)) : s = Spot(m)
                  /\ Written(d, n, e)[s] = "none"
               \/ s # Spot(n) /\ Written(d, n, e)[s] = d[s]
    <3>1. ParentsOf(n) # {} => BelowSpot(Spot(n)) = {}
      BY SpotFacts DEF BelowSpot
    <3>2. CASE s = Spot(n)
      <4>1. ~\E p \in ParentsOf(n) : s = Spot(p)
        BY <3>2, SpotFacts
      <4>2. ~\E m \in BelowSpot(Spot(n)) : s = Spot(m)
        BY <3>2, SpotFacts DEF BelowSpot
      <4> QED BY <2>1, <3>2, <4>1, <4>2
    <3>3. CASE s # Spot(n) /\ \E p \in ParentsOf(n) : s = Spot(p)
      BY <2>1, <3>1, <3>3
    <3>4. CASE s # Spot(n) /\ ~\E p \in ParentsOf(n) : s = Spot(p)
      BY <2>1, <3>4
    <3> QED BY <3>2, <3>3, <3>4
  <2>3. Written(d, n, e) \in [Names -> DiskEntries]
    <3>1. \A s \in Names : Written(d, n, e)[s] \in DiskEntries
      BY <2>2 DEF DiskEntries, CommitEntries
    <3> QED BY <2>1, <3>1
  <2>4. e # "folder"
    BY DEF CommitEntries
  <2> QED BY <2>2, <2>3, <2>4, <1>2 DEF Around, IsLink, LinkEntries
<1> QED BY <1>1, <1>2

(* Below what is written nothing is left, and around it there are folders. *)
LEMMA WrittenStands ==
  ASSUME NEW d \in [Names -> DiskEntries], NEW n \in Names, NEW e \in CommitEntries,
         LinksStand(d)
  PROVE  LinksStand(Written(d, n, e))
<1> DEFINE w == Written(d, n, e)
<1> SUFFICES ASSUME NEW k \in Names, IsLink(w[Spot(k)]), NEW q \in ParentsOf(k)
             PROVE  w[Spot(q)] = "folder"
  BY DEF LinksStand, OnDisk
<1>1. q \in Names /\ Spot(q) \in Names /\ Spot(k) \in Names
  BY ParentFacts, SpotFacts
<1>2. CASE e = "none"
  <2>1. w[Spot(k)] = d[Spot(k)] /\ d[Spot(q)] = "folder"
    BY <1>1, <1>2, WrittenFacts DEF LinksStand, OnDisk, IsLink, LinkEntries
  <2>2. CASE d[Spot(n)] = "folder" \/ \E p \in ParentsOf(n) : d[Spot(p)] # "folder"
    BY <1>2, <2>1, <2>2 DEF Written
  <2>3. CASE ~(d[Spot(n)] = "folder" \/ \E p \in ParentsOf(n) : d[Spot(p)] # "folder")
    <3> DEFINE f == [d EXCEPT ![Spot(n)] = "none"]
    <3>1. w = Emptied(f, n)
      BY <1>2, <2>3 DEF Written
    <3>2. f[Spot(q)] = "folder"
      BY <2>1, <2>3, <1>1
    <3>3. k \in BelowSpot(Spot(q))
      BY DEF BelowSpot
    <3>4. IsLink(f[Spot(k)])
      BY <3>1, <1>1 DEF Emptied, IsLink, LinkEntries
    <3>5. f[Spot(k)] # "none"
      BY <3>4 DEF IsLink, LinkEntries
    <3> QED BY <3>1, <3>2, <3>3, <3>5, <1>1 DEF Emptied
  <2> QED BY <2>2, <2>3
<1>3. CASE e # "none"
  <2>1. \A s \in Names : w[s] = CASE s = Spot(n) -> e
                             [] \E p \in ParentsOf(n) : s = Spot(p) -> "folder"
                             [] \E m \in BelowSpot(Spot(n)) : s = Spot(m) -> "none"
                             [] OTHER -> d[s]
    BY <1>3 DEF Written
  <2>2. Spot(q) # Spot(n)
    <3>1. SUFFICES ASSUME Spot(q) = Spot(n) PROVE FALSE
      OBVIOUS
    <3>2. k \in BelowSpot(Spot(n))
      BY <3>1 DEF BelowSpot
    <3>3. ParentsOf(n) = {}
      BY <3>1, SpotFacts
    <3>4. Spot(k) # Spot(n)
      BY <3>3, SpotFacts
    <3>5. w[Spot(k)] = "none"
      BY <2>1, <3>2, <3>3, <3>4, <1>1
    <3> QED BY <3>5 DEF IsLink, LinkEntries
  <2>3. ~\E m \in BelowSpot(Spot(n)) : Spot(q) = Spot(m)
    BY SpotFacts DEF BelowSpot
  <2>4. CASE \E p \in ParentsOf(n) : Spot(q) = Spot(p)
    BY <2>1, <2>2, <2>3, <2>4, <1>1
  <2>5. CASE ~\E p \in ParentsOf(n) : Spot(q) = Spot(p)
    <3>1. w[Spot(q)] = d[Spot(q)]
      BY <2>1, <2>2, <2>3, <2>5, <1>1
    <3>2. Spot(k) # Spot(n)
      BY <2>5, SpotFacts
    <3>3. w[Spot(k)] = d[Spot(k)]
      BY <3>2, <1>1, WrittenFacts
    <3> QED BY <3>1, <3>3 DEF LinksStand, OnDisk
  <2> QED BY <2>4, <2>5
<1> QED BY <1>2, <1>3

LEMMA HazardFacts ==
  ASSUME NEW t, NEW P \in SUBSET Names, NEW d, NEW h \in Hazards(t, P, d)
  PROVE  /\ h \in Names /\ IsLink(OnDisk(d, h)) /\ ~IsLink(head[h])
         /\ \E n \in Names : /\ InOne(t, n) /\ Selected(n, P, TRUE)
                            /\ Spot(h) \in Around(n)
<1>0. IgnoreCase \in BOOLEAN /\ TRUE \in BOOLEAN
  BY DEF IgnoreCase
<1>1. ASSUME NEW source, NEW Q \in SUBSET Names, h \in Scan(source, Q, d)
      PROVE  /\ h \in Names /\ IsLink(OnDisk(d, h))
             /\ \E n \in Names : /\ source[n] # "none" /\ Selected(n, Q, TRUE)
                                 /\ Spot(h) \in Around(n)
  <2>1. CASE h \in FolderLinks(source, Q, d)
    BY <2>1, <1>0, SelectedFacts DEF FolderLinks, Below, Around
  <2>2. CASE h \in LeafLinks(source, Q, d)
    BY <2>2, <1>0, SelectedFacts, AroundFacts DEF LeafLinks, IsFile
  <2> QED BY <1>1, <2>1, <2>2 DEF Scan
<1>2. \E source \in {t, head, index} : h \in Scan(source, P, d)
  BY DEF Hazards
<1>3. ~IsLink(head[h])
  BY DEF Hazards
<1> QED BY <1>1, <1>2, <1>3 DEF InOne

LEMMA ClearedFacts ==
  ASSUME NEW d \in [Names -> DiskEntries], NEW H \in SUBSET Names,
         \A h \in H : IsLink(OnDisk(d, h))
  PROVE  /\ Cleared(d, H) \in [Names -> DiskEntries]
         /\ \A s \in Names : /\ Cleared(d, H)[s] \in {"none", d[s]}
                             /\ Cleared(d, H)[s] # d[s] => \E h \in H : Spot(h) = s
                             /\ d[s] = "folder" => Cleared(d, H)[s] = "folder"
                             /\ \A h \in H : Spot(h) = s => Cleared(d, H)[s] = "none"
         /\ LinksStand(d) => LinksStand(Cleared(d, H))
<1>1. \A s \in Names : Cleared(d, H)[s] = IF \E h \in H : Spot(h) = s THEN "none" ELSE d[s]
  BY DEF Cleared
<1>2. Cleared(d, H) \in [Names -> DiskEntries]
  BY DEF Cleared, DiskEntries, CommitEntries
<1>3. \A s \in Names : d[s] = "folder" => ~\E h \in H : Spot(h) = s
  BY DEF OnDisk, IsLink, LinkEntries
<1>4. ASSUME LinksStand(d), NEW n \in Names, IsLink(Cleared(d, H)[Spot(n)]), NEW p \in ParentsOf(n)
      PROVE  Cleared(d, H)[Spot(p)] = "folder"
  <2>1. Spot(n) \in Names /\ Spot(p) \in Names
    BY ParentFacts, SpotFacts
  <2>2. IsLink(d[Spot(n)])
    BY <1>1, <1>4, <2>1 DEF IsLink, LinkEntries
  <2> QED BY <2>1, <2>2, <1>1, <1>3, <1>4 DEF LinksStand, OnDisk
<1> QED BY <1>1, <1>2, <1>3, <1>4 DEF LinksStand, OnDisk

LEMMA RestoredFacts ==
  ASSUME NEW d \in [Names -> DiskEntries], NEW source \in [Names -> CommitEntries],
         NEW P \in SUBSET Names
  PROVE  /\ Restored(d, source, P) \in [Names -> DiskEntries]
         /\ \A s \in Names : Restored(d, source, P)[s] # d[s] =>
              \E n \in Names : InOne(source, n) /\ Selected(n, P, TRUE) /\ s \in Around(n)
<1> DEFINE H == Hazards(source, P, d)
           R == Restored(d, source, P)
<1>1. H \in SUBSET Names /\ \A h \in H : IsLink(OnDisk(d, h))
  BY HazardFacts
<1>2. \A s \in Names :
        R[s] = IF \E n \in P : Spot(n) = s /\ source[n] # "none"
               THEN source[CHOOSE n \in P : Spot(n) = s /\ source[n] # "none"]
               ELSE IF \E n \in P : source[n] # "none" /\ \E p \in ParentsOf(n) : Spot(p) = s
               THEN "folder" ELSE Cleared(d, H)[s]
  BY DEF Restored
<1>3. ASSUME NEW s \in Names
      PROVE  R[s] \in DiskEntries
  <2>1. CASE \E n \in P : Spot(n) = s /\ source[n] # "none"
    BY <1>2, <2>1 DEF DiskEntries
  <2>2. CASE ~\E n \in P : Spot(n) = s /\ source[n] # "none"
    BY <1>1, <1>2, <2>2, ClearedFacts DEF DiskEntries
  <2> QED BY <2>1, <2>2
<1>4. ASSUME NEW s \in Names, R[s] # d[s]
      PROVE  \E n \in Names : InOne(source, n) /\ Selected(n, P, TRUE) /\ s \in Around(n)
  <2>1. CASE \E n \in P : Spot(n) = s /\ source[n] # "none"
    BY <2>1, SelectedFacts DEF Around, InOne
  <2>2. CASE \E n \in P : source[n] # "none" /\ \E p \in ParentsOf(n) : Spot(p) = s
    BY <2>2, SelectedFacts DEF Around, InOne
  <2>3. CASE R[s] = Cleared(d, H)[s]
    <3>1. PICK h \in H : Spot(h) = s
      BY <1>1, <1>4, <2>3, ClearedFacts
    <3> QED BY <3>1, HazardFacts
  <2> QED BY <1>2, <2>1, <2>2, <2>3
<1>5. R \in [Names -> DiskEntries]
  BY <1>3 DEF Restored
<1> QED BY <1>4, <1>5

(* What an abort puts back stands beside the folders that are there. *)
LEMMA RestoredStands ==
  ASSUME NEW d \in [Names -> DiskEntries], LinksStand(d),
         head \in Trees, Folding => Collisions(head, Names) = {},
         NEW P \in SUBSET Names, \A n \in P : head[n] # "none" /\ OnDisk(d, n) # "folder"
  PROVE  LinksStand(Restored(d, head, P))
<1> DEFINE H == Hazards(head, P, d)
           R == Restored(d, head, P)
<1>1. H \in SUBSET Names /\ \A h \in H : IsLink(OnDisk(d, h))
  BY HazardFacts
<1>2. \A s \in Names :
        R[s] = IF \E n \in P : Spot(n) = s /\ head[n] # "none"
               THEN head[CHOOSE n \in P : Spot(n) = s /\ head[n] # "none"]
               ELSE IF \E n \in P : head[n] # "none" /\ \E p \in ParentsOf(n) : Spot(p) = s
               THEN "folder" ELSE Cleared(d, H)[s]
  BY DEF Restored
<1> HIDE DEF R
<1> SUFFICES ASSUME NEW k \in Names, IsLink(R[Spot(k)]), NEW q \in ParentsOf(k)
             PROVE  R[Spot(q)] = "folder"
  BY DEF LinksStand, OnDisk, R
<1>3. q \in Names /\ Spot(q) \in Names /\ Spot(k) \in Names
  BY ParentFacts, SpotFacts
<1>4. \A n \in Names : Selected(n, Names, TRUE)
  BY SelectedFacts
<1>5. CASE \E n \in P : Spot(n) = Spot(k)
  <2>1. PICK n \in P : Spot(n) = Spot(k)
    BY <1>5
  <2>2. PICK p \in ParentsOf(n) : Spot(p) = Spot(q)
    BY <2>1, SpotFacts
  <2>3. \A m \in P : Spot(m) # Spot(q)
    BY <2>2, <1>4, OneThingThere
  <2> QED BY <1>2, <1>3, <2>2, <2>3
<1>6. CASE ~\E n \in P : Spot(n) = Spot(k)
  <2>1. R[Spot(k)] = Cleared(d, H)[Spot(k)]
    BY <1>2, <1>3, <1>6 DEF IsLink, LinkEntries
  <2>2. Cleared(d, H)[Spot(q)] = "folder"
    BY <1>1, <2>1, ClearedFacts DEF LinksStand, OnDisk
  <2>3. d[Spot(q)] = "folder"
    BY <1>1, <1>3, <2>2, ClearedFacts
  <2>4. ~\E n \in P : Spot(n) = Spot(q)
    BY <2>3 DEF OnDisk
  <2> QED BY <1>2, <1>3, <2>2, <2>4
<1> QED BY <1>5, <1>6

LEMMA RolledBackFacts ==
  ASSUME NEW d \in [Names -> DiskEntries], index \in [Names -> CommitEntries],
         NEW W \in SUBSET Names
  PROVE  /\ RolledBack(d, W) \in [Names -> DiskEntries]
         /\ \A s \in Names : RolledBack(d, W)[s] # d[s] =>
              \/ \E n \in W : s \in Around(n)
              \/ \E n \in Names : InOne(index, n) /\ s \in Around(n)
<1> DEFINE T == {n \in W : index[n] # "none"}
           F == Restored(d, index, T)
           G == Without(F, W \ T)
<1>1. T \in SUBSET Names /\ W \ T \in SUBSET Names
  OBVIOUS
<1>2. F \in [Names -> DiskEntries]
  BY <1>1, RestoredFacts
<1>3. /\ G \in [Names -> DiskEntries]
      /\ \A s \in Names : G[s] # F[s] => \E n \in W : s \in Around(n)
  <2> HIDE DEF F
  <2> DEFINE g == [s \in Names |->
                 IF \E n \in W \ T : Spot(n) = s /\ F[s] # "folder" THEN "none" ELSE F[s]]
  <2>1. /\ g \in [Names -> DiskEntries]
        /\ \A s \in Names : g[s] # F[s] => \E n \in W : s \in Around(n)
    BY <1>1, <1>2, AroundFacts DEF DiskEntries, CommitEntries
  <2>2. G = [s \in Names |->
         IF /\ g[s] = "folder"
            /\ \E n \in W \ T : \E p \in ParentsOf(n) : Spot(p) = s
            /\ \A m \in BelowSpot(s) : g[Spot(m)] = "none"
         THEN "none" ELSE g[s]]
    BY DEF Without
  <2> HIDE DEF g
  <2>3. G \in [Names -> DiskEntries]
    BY <2>1, <2>2 DEF DiskEntries, CommitEntries
  <2>4. \A s \in Names : G[s] # g[s] => \E n \in W : s \in Around(n)
    BY <2>2 DEF Around
  <2> QED BY <2>1, <2>3, <2>4
<1> HIDE DEF G
<1>4. RolledBack(d, W) = Restored(G, index, T)
  BY DEF RolledBack, G
<1> HIDE DEF F, T
<1>5. Restored(G, index, T) \in [Names -> DiskEntries]
  BY <1>1, <1>3, RestoredFacts
<1>7. ASSUME NEW e \in [Names -> DiskEntries], NEW s \in Names, Restored(e, index, T)[s] # e[s]
      PROVE  \E n \in Names : InOne(index, n) /\ s \in Around(n)
  BY <1>1, <1>7, RestoredFacts
<1>6. ASSUME NEW s \in Names, RolledBack(d, W)[s] # d[s]
      PROVE  \/ \E n \in W : s \in Around(n)
             \/ \E n \in Names : InOne(index, n) /\ s \in Around(n)
  <2>1. CASE F[s] # d[s]
    BY <2>1, <1>7 DEF F
  <2>2. CASE G[s] # F[s]
    BY <2>2, <1>3
  <2>3. CASE Restored(G, index, T)[s] # G[s]
    BY <2>3, <1>3, <1>7
  <2> QED BY <1>4, <1>6, <2>1, <2>2, <2>3
<1> QED BY <1>4, <1>5, <1>6

-----------------------------------------------------------------------------
(* Nothing is written through a link. *)

LEMMA FollowsNothing ==
  ASSUME LinksInv, job.pc = "checkout", job.op # "none", ~Impossible, NEW n \in job.todo
  PROVE  ~Follows(n, disk, Merges(job.op))
<1>1. SUFFICES ASSUME NEW p \in ParentsOf(n), IsLink(OnDisk(disk, p)),
                      Merges(job.op) \/ ~IsLink(head[p])
               PROVE  FALSE
  BY DEF Follows
<1>2. /\ n \in Names /\ p \in Names /\ Spot(p) \in Names /\ job.op \in SafeOps \cup ForcedOps
      /\ job.target \in Trees /\ job.paths \in SUBSET Names /\ job.written \in SUBSET Names
  BY ParentFacts, SpotFacts DEF LinksInv, CoTypeOK, JobTypes
<1>3. /\ head = before.head /\ index = before.index
      /\ ~BringsCollision(job.target, job.paths)
      /\ \A k \in job.todo \cup job.written : OfTheJob(k)
  BY DEF LinksInv, Begun, AsChecked, UnderWay
<1>4. Folding => Collisions(job.target, job.paths) = {}
  BY <1>2, <1>3, NoCollisions
<1>5. IgnoreCase \in BOOLEAN
  BY DEF IgnoreCase
<1>6. CASE \E m \in job.written : Spot(m) = Spot(p) /\ IsLink(job.target[m])
  <2>1. PICK m \in job.written : Spot(m) = Spot(p) /\ IsLink(job.target[m])
    BY <1>6
  <2>2. job.target[m] # "none" /\ job.target[n] # "none"
    BY <2>1 DEF LinksInv, Since, IsLink, LinkEntries
  <2>3. Selected(m, job.paths, TRUE) /\ Selected(n, job.paths, TRUE)
    BY <1>2, <1>3, <1>5, SelectedFacts DEF OfTheJob
  <2> QED BY <1>2, <1>4, <2>1, <2>2, <2>3, OneThingThere
<1>7. CASE IsLink(before.disk[Spot(p)]) /\ \A h \in job.hazards : Spot(h) # Spot(p)
  <2>1. PICK t \in {before.head, before.index, job.target} : t[n] # "none"
    BY <1>3 DEF OfTheJob
  <2>2. CASE job.op \in ForcedOps
    <3>1. p \in FolderLinks(t, job.paths, before.disk)
      BY <1>2, <1>3, <1>7, <2>1 DEF FolderLinks, Below, OfTheJob, OnDisk
    <3>2. ~IsLink(head[p])
      BY <1>1, <2>2 DEF Merges, ForcedOps
    <3>3. p \in Hazards(job.target, job.paths, before.disk)
      BY <1>3, <2>1, <3>1, <3>2 DEF Hazards, Scan
    <3> QED BY <2>2, <3>3, <1>7 DEF LinksInv, AsChecked, UnderWay
  <2>3. CASE job.op \in SafeOps
    <3>1. before.head[n] # "none" \/ job.target[n] # "none"
      BY <1>3, <2>3 DEF OfTheJob
    <3>2. \A b \in BOOLEAN : Selected(n, Names, b)
      BY <1>2, SelectedFacts
    <3>3. \A u : u[n] # "none" => p \in FolderLinks(u, Names, before.disk)
      BY <1>2, <1>5, <1>7, <3>2 DEF FolderLinks, Below, OnDisk
    <3> QED BY <1>1, <1>3, <2>3, <3>1, <3>3 DEF LinksInv, AsChecked, UnderWay
  <2> QED BY <1>2, <2>2, <2>3
<1> QED BY <1>1, <1>2, <1>6, <1>7 DEF LinksInv, Since, OnDisk

LEMMA WritesThroughNothing ==
  ASSUME LinksInv, job.pc = "checkout", job.op # "none", ~Impossible, NEW n \in job.todo
  PROVE  ~WritesThrough(disk, n, job.target[n], Merges(job.op))
<1>1. SUFFICES ASSUME job.op \in ForcedOps, IsFile(job.target[n]), IsLink(OnDisk(disk, n)),
                      ~IsLink(head[n])
               PROVE  FALSE
  BY FollowsNothing DEF WritesThrough
<1>2. /\ n \in Names /\ Spot(n) \in Names
      /\ job.target \in Trees /\ job.paths \in SUBSET Names /\ job.written \in SUBSET Names
  BY ParentFacts, SpotFacts DEF LinksInv, CoTypeOK, JobTypes
<1>3. /\ head = before.head /\ ~BringsCollision(job.target, job.paths)
      /\ \A k \in job.todo \cup job.written : OfTheJob(k)
  BY <1>1 DEF LinksInv, Begun, AsChecked, UnderWay
<1>4. CASE \E m \in job.written : Spot(m) = Spot(n) /\ IsLink(job.target[m])
  <2>1. PICK m \in job.written : Spot(m) = Spot(n) /\ IsLink(job.target[m])
    BY <1>4
  <2>2. job.target[m] # "none" /\ job.target[n] # "none"
    BY <2>1, <1>1 DEF IsLink, LinkEntries, IsFile
  <2>3. Selected(m, job.paths, TRUE) /\ Selected(n, job.paths, TRUE)
    BY <1>2, <1>3, SelectedFacts DEF OfTheJob, IgnoreCase
  <2>4. Folding => Collisions(job.target, job.paths) = {}
    BY <1>2, <1>3, NoCollisions
  <2> QED BY <1>1, <1>2, <2>1, <2>2, <2>3, <2>4, OneThingThere
<1>5. CASE IsLink(before.disk[Spot(n)]) /\ \A h \in job.hazards : Spot(h) # Spot(n)
  <2>1. \A p \in ParentsOf(n) : OnDisk(before.disk, p) = "folder"
    BY <1>1, <1>2, <1>5 DEF LinksInv, Shape, LinksStand, OnDisk
  <2>2. n \in LeafLinks(job.target, job.paths, before.disk)
    BY <1>1, <1>2, <1>3, <1>5, <2>1 DEF LeafLinks, OfTheJob, OnDisk
  <2>3. n \in job.hazards
    BY <1>1, <2>2 DEF Hazards, Scan, LinksInv, AsChecked, UnderWay
  <2> QED BY <1>5, <2>3
<1> QED BY <1>1, <1>2, <1>4, <1>5 DEF LinksInv, Since, OnDisk

-----------------------------------------------------------------------------
(* What the platform takes for one name never changes. *)

LEMMA RulesStay ==
  ASSUME caseRule' = caseRule
  PROVE  /\ \A n : Spot(n)' = Spot(n)
         /\ \A d, n : OnDisk(d, n)' = OnDisk(d, n)
         /\ (IgnoreCase' <=> IgnoreCase) /\ (Folding' <=> Folding)
         /\ \A n, P : Selected(n, P, IgnoreCase)' <=> Selected(n, P, IgnoreCase)
         /\ \A t, P, d : FolderLinks(t, P, d)' = FolderLinks(t, P, d)
         /\ \A d : LinksStand(d)' <=> LinksStand(d)
BY DEF Spot, OnDisk, Folding, IgnoreCase, Selected, FolderLinks, LinksStand

LEMMA HazardsStay ==
  ASSUME caseRule' = caseRule, head' = head, index' = index
  PROVE  /\ \A t, P, d : Hazards(t, P, d)' = Hazards(t, P, d)
         /\ \A t, P : BringsCollision(t, P)' <=> BringsCollision(t, P)
BY DEF Hazards, Scan, FolderLinks, LeafLinks, OnDisk, Spot, Folding, Selected, IgnoreCase,
       BringsCollision, Collisions

LEMMA ImpossibleStays ==
  ASSUME caseRule' = caseRule, before'.head = before.head
  PROVE  Impossible' <=> Impossible
BY DEF Impossible, Collisions, Folding, Selected

LEMMA WantedStays ==
  ASSUME caseRule' = caseRule, before' = before,
         job'.target = job.target, job'.paths = job.paths
  PROVE  \A s : Wanted(s)' <=> Wanted(s)
BY DEF Wanted, Selected, Spot, Folding, BelowSpot

LEMMA OfTheJobStays ==
  ASSUME caseRule' = caseRule, before' = before, job'.op = job.op,
         job'.target = job.target, job'.paths = job.paths
  PROVE  \A n : OfTheJob(n)' <=> OfTheJob(n)
BY DEF OfTheJob, Selected, IgnoreCase

LEMMA JobStartKeeps ==
  ASSUME LinksInv, NEW o \in SafeOps \cup ForcedOps, NEW t \in Trees, NEW P \in SUBSET Names,
         NEW f, f.pc \in {"idle", "clear", "checkout"}, f.outcome \in {"none", "refused"},
         f.todo \in SUBSET Names, f.hazards \in SUBSET Names,
         f.pc = "idle" => f.outcome = "refused", f.outcome = "refused" => f.pc = "idle",
         MayBegin(o, t, P), Start(o, t, P, f),
         o \in SafeOps => P = Names /\ f.hazards = {} /\ f.pc # "clear",
         o \in ForcedOps => f.pc # "checkout",
         o = "abort" => t = head,
         f.pc # "idle" =>
           /\ ~BringsCollision(t, P)
           /\ \A n \in f.todo : /\ Selected(n, P, IgnoreCase) /\ InOne(t, n)
                                /\ o \in SafeOps => t[n] # head[n]
           /\ o \in ForcedOps => f.hazards = Hazards(t, P, disk)
           /\ o \in SafeOps =>
                /\ FolderLinks(head, Names, disk) \cup FolderLinks(index, Names, disk) = {}
                /\ \A p \in FolderLinks(t, Names, disk) : ~Merges(o) /\ IsLink(head[p])
  PROVE  LinksInv'
<1>1. /\ job' = [op |-> o, target |-> t, paths |-> P, pc |-> f.pc, outcome |-> f.outcome,
                 todo |-> f.todo, written |-> {}, hazards |-> f.hazards]
      /\ before' = [head |-> head, index |-> index, disk |-> disk]
      /\ tried' = tried + 1
      /\ UNCHANGED <<caseRule, locked, head, index, disk, beyond, merging>>
  BY DEF Start, NoJob
<1>2. tried \in Nat /\ tried' > 0 /\ tried' \in Nat /\ tried' # 0
  BY <1>1 DEF LinksInv, CoTypeOK, JobTypes
<1>3. head = before.head
  BY DEF MayBegin, Idle, LinksInv, Begun, NoJob, CoTypeOK, JobTypes
<1>4. CoTypeOK'
  BY <1>1, <1>2 DEF LinksInv, CoTypeOK, JobTypes
<1>5. Impossible' <=> Impossible
  BY <1>1, <1>3, ImpossibleStays
<1>6. Begun'
  BY <1>1, <1>2 DEF Begun, UnderWay, SafeOps, ForcedOps
<1>7. AsChecked'
  <2>1. \A n : OfTheJob(n)' <=>
          /\ Selected(n, P, IgnoreCase) /\ InOne(t, n)
          /\ o \in SafeOps => t[n] # head[n]
    BY <1>1 DEF OfTheJob, Selected, IgnoreCase, InOne
  <2>2. UnderWay' => f.pc # "idle"
    BY <1>1 DEF UnderWay
  <2>3. Hazards(job.target, job.paths, before.disk)' = Hazards(t, P, disk)
    BY <1>1, HazardsStay
  <2>4. BringsCollision(job.target, job.paths)' <=> BringsCollision(t, P)
    BY <1>1, HazardsStay
  <2>5. /\ FolderLinks(before.head, Names, before.disk)' = FolderLinks(head, Names, disk)
        /\ FolderLinks(before.index, Names, before.disk)' = FolderLinks(index, Names, disk)
        /\ FolderLinks(job.target, Names, before.disk)' = FolderLinks(t, Names, disk)
    BY <1>1, RulesStay
  <2> QED BY <1>1, <2>1, <2>2, <2>3, <2>4, <2>5 DEF AsChecked, Merges
<1>8. Since'
  BY <1>1, RulesStay DEF Since, SafeOps, ForcedOps
<1>9. Shape'
  <2>1. ASSUME ~Impossible, o \in ForcedOps PROVE LinksStand(disk)
    BY <2>1 DEF LinksInv, Shape, MayBegin, CoTypeOK, JobTypes
  <2> QED BY <1>1, <1>2, <1>5, <2>1, RulesStay DEF Shape
<1>10. LinksAreRespected'
  BY <1>1, <1>5 DEF LinksInv, LinksAreRespected, ThroughNoLink, LinksOfTheUserStay
<1> QED BY <1>4, <1>6, <1>7, <1>8, <1>9, <1>10 DEF LinksInv

LEMMA FolderLinksAre ==
  \A t, P, d : FolderLinks(t, P, d) \subseteq Names
BY DEF FolderLinks

LEMMA BeginSafeKeeps ==
  ASSUME LinksInv, NEW o \in SafeOps, NEW t \in Trees, BeginSafe(o, t)
  PROVE  LinksInv'
<1> DEFINE bad == \/ LinkedFolder(t, Merges(o)) \/ SettingUnreadable \/ BringsCollision(t, Names)
                  \/ Conflicts(o, t)
           f == IF bad THEN Refused
                ELSE [pc |-> "checkout", outcome |-> "none", hazards |-> {},
                      todo |-> {n \in Names : t[n] # head[n]}]
<1>1. MayBegin(o, t, Names) /\ Start(o, t, Names, f)
  BY DEF BeginSafe
<1>2. /\ f.pc \in {"idle", "checkout"} /\ f.outcome \in {"none", "refused"}
      /\ f.todo \in SUBSET Names /\ f.hazards = {}
      /\ f.pc = "idle" <=> f.outcome = "refused"
      /\ f.pc # "idle" => ~bad /\ f.todo = {n \in Names : t[n] # head[n]}
  BY DEF Refused
<1>3. ASSUME f.pc # "idle"
      PROVE  /\ ~BringsCollision(t, Names)
             /\ \A n \in f.todo : /\ Selected(n, Names, IgnoreCase) /\ InOne(t, n)
                                  /\ t[n] # head[n]
             /\ FolderLinks(head, Names, disk) \cup FolderLinks(index, Names, disk) = {}
             /\ \A p \in FolderLinks(t, Names, disk) : ~Merges(o) /\ IsLink(head[p])
  <2>1. \A n \in Names : Selected(n, Names, IgnoreCase)
    BY SelectedFacts DEF IgnoreCase
  <2> QED BY <1>2, <1>3, <2>1 DEF LinkedFolder, InOne
<1>4. o \notin ForcedOps /\ o # "abort"
  BY DEF SafeOps, ForcedOps
<1> HIDE DEF f
<1> QED BY <1>1, <1>2, <1>3, <1>4, JobStartKeeps

LEMMA BeginForcedKeeps ==
  ASSUME LinksInv, NEW o \in ForcedOps, NEW t \in Trees, NEW P \in SUBSET Names,
         BeginForced(o, t, P), o = "abort" => t = head
  PROVE  LinksInv'
<1> DEFINE bad == \/ o = "abort" /\ WouldDiscard
                  \/ o = "discard" /\ \E n \in P : DiscardRefuses(n)
                  \/ PrepareRefuses(t, P)
           f == IF bad THEN Refused
                ELSE [pc |-> "clear", outcome |-> "none", hazards |-> Hazards(t, P, disk),
                      todo |-> {n \in Names : /\ Selected(n, P, IgnoreCase)
                                              /\ t[n] # "none" \/ head[n] # "none" \/ index[n] # "none"}]
<1>1. MayBegin(o, t, P) /\ Start(o, t, P, f)
  BY DEF BeginForced
<1>2. /\ f.pc \in {"idle", "clear"} /\ f.outcome \in {"none", "refused"}
      /\ f.todo \in SUBSET Names
      /\ f.pc = "idle" <=> f.outcome = "refused"
      /\ f.pc # "idle" => ~bad /\ f.hazards = Hazards(t, P, disk)
      /\ f.pc = "idle" => f.hazards = {}
      /\ f.pc # "idle" => \A n \in f.todo : Selected(n, P, IgnoreCase) /\ InOne(t, n)
  BY DEF Refused, InOne
<1>3. f.hazards \in SUBSET Names
  BY <1>2, HazardFacts
<1>4. f.pc # "idle" => ~BringsCollision(t, P)
  BY <1>2 DEF PrepareRefuses
<1>5. o \notin SafeOps
  BY DEF SafeOps, ForcedOps
<1> HIDE DEF f
<1> QED BY <1>1, <1>2, <1>3, <1>4, <1>5, JobStartKeeps

LEMMA BeginKeeps ==
  ASSUME LinksInv, Begin
  PROVE  LinksInv'
<1>1. head \in Trees
  BY DEF LinksInv, CoTypeOK, JobTypes
<1>2. ASSUME NEW t \in Trees, NEW o \in SafeOps, BeginSafe(o, t)
      PROVE  LinksInv'
  BY <1>2, BeginSafeKeeps
<1>3. ASSUME NEW t \in Trees, BeginForced("hard", t, Names)
      PROVE  LinksInv'
  BY <1>3, BeginForcedKeeps DEF ForcedOps
<1>4. ASSUME NEW n \in Names, BeginForced("discard", index, {n})
      PROVE  LinksInv'
  <2>1. index \in Trees
    BY <1>4 DEF BeginForced, MayBegin, LinksInv, Begun, CoTypeOK, JobTypes
  <2> QED BY <1>4, <2>1, BeginForcedKeeps DEF ForcedOps
<1>5. ASSUME BeginForced("abort", head, Touched)
      PROVE  LinksInv'
  <2>1. Touched \in SUBSET Names
    BY DEF Touched
  <2> QED BY <1>1, <1>5, <2>1, BeginForcedKeeps DEF ForcedOps
<1> QED BY <1>2, <1>3, <1>4, <1>5 DEF Begin

(* What a step has changed at a spot is what the job was for. *)
LEMMA RespectedStep ==
  ASSUME LinksInv, caseRule' = caseRule, before' = before,
         job'.target = job.target, job'.paths = job.paths, job'.outcome # "refused",
         beyond' => beyond \/ Impossible,
         \A s \in Names : disk'[s] # disk[s] => Wanted(s)
  PROVE  LinksAreRespected'
<1>1. Impossible' <=> Impossible
  BY ImpossibleStays
<1>2. \A s \in Names : Wanted(s)' <=> Wanted(s)
  BY WantedStays
<1>3. ThroughNoLink'
  BY <1>1 DEF ThroughNoLink, LinksInv, LinksAreRespected
<1>4. ASSUME NEW s \in Names, IsLink(before.disk[s]), disk'[s] # before.disk[s]
      PROVE  Wanted(s)
  BY <1>4 DEF LinksInv, LinksAreRespected, LinksOfTheUserStay
<1>5. \A s \in Names : IsLink(before'.disk[s]) /\ disk'[s] # before'.disk[s] => Wanted(s)'
  BY <1>2, <1>4
<1> QED BY <1>3, <1>5 DEF LinksAreRespected, LinksOfTheUserStay

LEMMA WantedAround ==
  ASSUME NEW n \in Names, Selected(n, job.paths, TRUE),
         \E t \in {before.head, before.index, job.target} : t[n] # "none"
  PROVE  /\ \A s \in Around(n) : Wanted(s)
         /\ \A m \in BelowSpot(Spot(n)) : Wanted(Spot(m))
BY DEF Wanted, Around

LEMMA ClearLinksKeeps ==
  ASSUME LinksInv, ClearLinks
  PROVE  LinksInv'
<1>1. /\ job.pc = "clear"
      /\ job' = [job EXCEPT !.pc = "checkout"] /\ disk' = Cleared(disk, job.hazards)
      /\ UNCHANGED <<caseRule, head, index, beyond, merging, locked, before, tried>>
      /\ disk = before.disk /\ head = before.head /\ index = before.index
      /\ disk \in [Names -> DiskEntries] /\ tried > 0 /\ tried # 0
      /\ job.outcome = "none" /\ job.written = {} /\ job.hazards \in SUBSET Names
  BY DEF LinksInv, CoTypeOK, JobTypes, Begun, AsChecked, UnderWay, NoJob, ClearLinks
<1>2. /\ job' \in JobTypes
      /\ job'.op = job.op /\ job'.target = job.target /\ job'.paths = job.paths
      /\ job'.pc = "checkout" /\ job'.outcome = job.outcome /\ job'.todo = job.todo
      /\ job'.written = {} /\ job'.hazards = job.hazards
  BY <1>1 DEF LinksInv, CoTypeOK, JobTypes
<1>3. /\ job.op \in ForcedOps
      /\ job.hazards = Hazards(job.target, job.paths, disk)
  <2>1. job.op \in ForcedOps
    BY <1>1 DEF LinksInv, Begun, NoJob, CoTypeOK, JobTypes
  <2> QED BY <1>1, <2>1 DEF LinksInv, AsChecked, UnderWay
<1>4. \A h \in job.hazards : IsLink(OnDisk(disk, h))
  <2>1. job.paths \in SUBSET Names
    BY DEF LinksInv, CoTypeOK, JobTypes
  <2> QED BY <1>3, <2>1, HazardFacts
<1>5. /\ disk' \in [Names -> DiskEntries]
      /\ LinksStand(disk) => LinksStand(disk')
      /\ \A s \in Names : /\ disk'[s] # disk[s] => \E h \in job.hazards : Spot(h) = s
                          /\ IsLink(disk'[s]) => disk'[s] = disk[s]
                          /\ IsLink(disk'[s]) => \A h \in job.hazards : Spot(h) # s
  BY <1>1, <1>4, ClearedFacts DEF IsLink, LinkEntries
<1>6. CoTypeOK'
  BY <1>1, <1>2, <1>5 DEF LinksInv, CoTypeOK, JobTypes
<1>7. Begun'
  BY <1>1, <1>2, <1>3 DEF LinksInv, Begun, UnderWay, SafeOps, ForcedOps, RollsBack
<1>8. AsChecked'
  <2>1. Hazards(job.target, job.paths, before.disk)' = Hazards(job.target, job.paths, before.disk)
    BY <1>1, <1>2, HazardsStay
  <2>2. BringsCollision(job.target, job.paths)' <=> BringsCollision(job.target, job.paths)
    BY <1>1, <1>2, HazardsStay
  <2>3. \A n : OfTheJob(n)' <=> OfTheJob(n)
    BY <1>1, <1>2, OfTheJobStays
  <2>4. job.op \notin SafeOps
    BY <1>3 DEF SafeOps, ForcedOps
  <2> QED BY <1>1, <1>2, <1>3, <2>1, <2>2, <2>3, <2>4 DEF LinksInv, AsChecked, UnderWay
<1>9. Since'
  BY <1>1, <1>2, <1>5, RulesStay DEF Since
<1>10. Shape'
  <2>1. Impossible' <=> Impossible
    BY <1>1, ImpossibleStays
  <2> QED BY <1>1, <1>2, <1>3, <1>5, <2>1, RulesStay DEF LinksInv, Shape
<1>11. LinksAreRespected'
  <2>1. ASSUME NEW s \in Names, disk'[s] # disk[s]
        PROVE  Wanted(s)
    <3>1. PICK h \in job.hazards : Spot(h) = s
      BY <1>5, <2>1
    <3>2. job.paths \in SUBSET Names
      BY DEF LinksInv, CoTypeOK, JobTypes
    <3>3. PICK n \in Names : InOne(job.target, n) /\ Selected(n, job.paths, TRUE) /\ s \in Around(n)
      BY <1>3, <3>1, <3>2, HazardFacts
    <3> QED BY <1>1, <3>3, WantedAround DEF InOne
  <2> QED BY <1>1, <1>2, <2>1, RespectedStep
<1> QED BY <1>6, <1>7, <1>8, <1>9, <1>10, <1>11 DEF LinksInv

LEMMA CheckoutFileKeeps ==
  ASSUME LinksInv, CheckoutFile
  PROVE  LinksInv'
<1>1. PICK n \in Ready : Reached(n)
  BY DEF CheckoutFile
<1> DEFINE e == job.target[n]
           twin == e = "none" /\ \E m \in Names \ {n} : Spot(m) = Spot(n) /\ job.target[m] # "none"
           through == WritesThrough(disk, n, e, Merges(job.op))
<1>2. /\ job.pc = "checkout" /\ n \in job.todo /\ n \in Names
      /\ UNCHANGED <<caseRule, head, index, merging, locked, before, tried>>
      /\ head = before.head /\ index = before.index
      /\ disk \in [Names -> DiskEntries] /\ tried > 0 /\ tried # 0 /\ tried \in Nat
      /\ job.outcome = "none" /\ job.op # "none" /\ job.op \in SafeOps \cup ForcedOps
      /\ job.target \in Trees /\ job.paths \in SUBSET Names /\ job.written \in SUBSET Names
      /\ e \in CommitEntries
  <2>1. /\ job.pc = "checkout" /\ n \in job.todo /\ n \in Names
        /\ UNCHANGED <<caseRule, head, index, merging, locked, before, tried>>
        /\ disk \in [Names -> DiskEntries] /\ tried \in Nat
        /\ job.op \in SafeOps \cup ForcedOps \cup {"none"}
        /\ job.target \in Trees /\ job.paths \in SUBSET Names /\ job.written \in SUBSET Names
    BY <1>1 DEF LinksInv, CoTypeOK, JobTypes, CheckoutFile, Ready
  <2>2. tried # 0
    BY <2>1 DEF LinksInv, Begun, NoJob
  <2>3. tried > 0
    BY <2>1, <2>2
  <2>4. job.op # "none" /\ job.outcome = "none" /\ index = before.index /\ head = before.head
    BY <2>1, <2>3 DEF LinksInv, Begun, UnderWay
  <2> QED BY <2>1, <2>2, <2>3, <2>4, TreesAssumption
<1>3. /\ job' \in JobTypes
      /\ job'.op = job.op /\ job'.target = job.target /\ job'.paths = job.paths
      /\ job'.pc = "checkout" /\ job'.outcome = job.outcome /\ job'.todo = job.todo \ {n}
      /\ job'.written = job.written \cup {n} /\ job'.hazards = job.hazards
  <2>1. job' = [job EXCEPT !.todo = @ \ {n}, !.written = @ \cup {n}]
    BY <1>1 DEF Reached
  <2> QED BY <1>2, <2>1 DEF LinksInv, CoTypeOK, JobTypes
<1>4. /\ OfTheJob(n) /\ Selected(n, job.paths, TRUE)
      /\ \A m \in job.written : OfTheJob(m) /\ Selected(m, job.paths, TRUE)
      /\ ~BringsCollision(job.target, job.paths)
  BY <1>2, SelectedFacts DEF LinksInv, AsChecked, UnderWay, OfTheJob, IgnoreCase
<1>5. /\ disk' \in {disk, Written(disk, n, e)}
      /\ disk' # Written(disk, n, e) => through \/ twin
      /\ beyond' => beyond \/ through
      /\ beyond' \in BOOLEAN
  BY <1>1 DEF Reached, LinksInv, CoTypeOK, JobTypes
<1>6. through => Impossible
  BY <1>2, WritesThroughNothing
<1> HIDE DEF through, twin
<1>7. /\ disk' \in [Names -> DiskEntries]
      /\ LinksStand(disk) => LinksStand(disk')
      /\ \A s \in Names :
           /\ disk'[s] # disk[s] => s \in Around(n) \cup {Spot(m) : m \in BelowSpot(Spot(n))}
           /\ IsLink(disk'[s]) => disk'[s] = disk[s] \/ (s = Spot(n) /\ disk'[s] = e)
           /\ disk'[s] = "folder" => \/ disk[s] = "folder"
                                     \/ e # "none" /\ \E p \in ParentsOf(n) : s = Spot(p)
  BY <1>2, <1>5, WrittenFacts, WrittenStands
<1>8. CoTypeOK'
  BY <1>2, <1>3, <1>5, <1>7 DEF LinksInv, CoTypeOK, JobTypes
<1>9. Begun'
  BY <1>2, <1>3 DEF LinksInv, Begun, UnderWay, SafeOps, ForcedOps, RollsBack
<1>10. AsChecked'
  <2>1. Hazards(job.target, job.paths, before.disk)' = Hazards(job.target, job.paths, before.disk)
    BY <1>2, <1>3, HazardsStay
  <2>2. BringsCollision(job.target, job.paths)' <=> BringsCollision(job.target, job.paths)
    BY <1>2, <1>3, HazardsStay
  <2>3. \A m : OfTheJob(m)' <=> OfTheJob(m)
    BY <1>2, <1>3, OfTheJobStays
  <2>4. \A t, P, d : FolderLinks(t, P, d)' = FolderLinks(t, P, d)
    BY <1>2, RulesStay
  <2> QED BY <1>2, <1>3, <1>4, <2>1, <2>2, <2>3, <2>4 DEF LinksInv, AsChecked, UnderWay, Merges
<1>11. Since'
  <2>1. ASSUME NEW s \in Names, IsLink(disk'[s])
        PROVE  \/ IsLink(before.disk[s]) /\ \A h \in job.hazards : Spot(h) # s
               \/ \E m \in job.written \cup {n} : Spot(m) = s /\ IsLink(job.target[m])
    BY <1>2, <1>7, <2>1 DEF LinksInv, Since
  <2>2. (\E m \in job.written \cup {n} : job.target[m] # "none") =>
          \A k \in job.todo \ {n} : job.target[k] # "none"
    BY <1>1, <1>2 DEF LinksInv, Since, Ready
  <2> QED BY <1>2, <1>3, <2>1, <2>2, RulesStay DEF Since
<1>12. Shape'
  <2>1. Impossible' <=> Impossible
    BY <1>2, ImpossibleStays
  <2>2. ASSUME ~Impossible, NEW m \in job.written \cup {n}, job.target[m] # "none"
        PROVE  OnDisk(disk', m) # "folder"
    <3>1. Folding => Collisions(job.target, job.paths) = {}
      BY <1>2, <1>4, <2>2, NoCollisions
    <3>2. m \in Names /\ Spot(m) \in Names /\ Selected(m, job.paths, TRUE)
      BY <1>2, <1>4, SpotFacts
    <3>3. e # "none" => \A p \in ParentsOf(n) : Spot(m) # Spot(p)
      BY <1>2, <1>4, <2>2, <3>1, <3>2, OneThingThere
    <3>4. CASE m \in job.written
      <4>1. OnDisk(disk, m) # "folder"
        BY <1>2, <2>2, <3>4 DEF LinksInv, Shape
      <4> QED BY <1>7, <3>2, <3>3, <4>1 DEF OnDisk
    <3>5. CASE m = n
      <4>1. disk' = Written(disk, n, e)
        BY <1>5, <1>6, <2>2, <3>5 DEF twin
      <4>2. disk'[Spot(n)] = e
        BY <1>2, <2>2, <3>2, <3>5, <4>1, WrittenFacts
      <4>3. e # "folder"
        BY <1>2 DEF CommitEntries
      <4> QED BY <3>5, <4>2, <4>3 DEF OnDisk
    <3> QED BY <3>4, <3>5
  <2> QED BY <1>2, <1>3, <1>7, <2>1, <2>2, RulesStay DEF LinksInv, Shape
<1>13. LinksAreRespected'
  <2>1. \E t \in {before.head, before.index, job.target} : t[n] # "none"
    BY <1>4 DEF OfTheJob
  <2>2. ASSUME NEW s \in Names, disk'[s] # disk[s]
        PROVE  Wanted(s)
    BY <1>2, <1>4, <1>7, <2>1, <2>2, WantedAround
  <2> QED BY <1>2, <1>3, <1>5, <1>6, <2>2, RespectedStep
<1> QED BY <1>8, <1>9, <1>10, <1>11, <1>12, <1>13 DEF LinksInv

(* A step that leaves the work tree alone. *)
LEMMA RestKeeps ==
  ASSUME LinksInv, UNCHANGED <<caseRule, disk, beyond, before, tried>>, CoTypeOK', Begun',
         job'.op = job.op, job'.target = job.target, job'.paths = job.paths,
         job'.outcome # "refused", job'.pc \notin {"clear", "checkout"},
         job'.pc = "undo" =>
           /\ job.pc = "checkout" /\ UNCHANGED <<head, index>>
           /\ job'.todo = job.todo /\ job'.written = job.written /\ job'.hazards = job.hazards
  PROVE  LinksInv'
<1>1. AsChecked'
  <2>1. CASE job'.pc = "undo"
    <3>1. Hazards(job.target, job.paths, before.disk)' = Hazards(job.target, job.paths, before.disk)
      BY <2>1, HazardsStay
    <3>2. BringsCollision(job.target, job.paths)' <=> BringsCollision(job.target, job.paths)
      BY <2>1, HazardsStay
    <3>3. \A n : OfTheJob(n)' <=> OfTheJob(n)
      BY OfTheJobStays
    <3>4. \A t, P, d : FolderLinks(t, P, d)' = FolderLinks(t, P, d)
      BY RulesStay
    <3> QED BY <2>1, <3>1, <3>2, <3>3, <3>4 DEF LinksInv, AsChecked, UnderWay, Merges
  <2>2. CASE job'.pc # "undo"
    BY <2>2 DEF AsChecked, UnderWay
  <2> QED BY <2>1, <2>2
<1>2. Since'
  BY DEF Since
<1>3. Shape'
  <2>1. Impossible' <=> Impossible
    BY ImpossibleStays
  <2> QED BY <2>1, RulesStay DEF LinksInv, Shape
<1>4. LinksAreRespected'
  BY RespectedStep
<1> QED BY <1>1, <1>2, <1>3, <1>4 DEF LinksInv

LEMMA Busy ==
  ASSUME LinksInv, job.pc # "idle"
  PROVE  /\ job \in JobTypes
         /\ tried > 0 /\ tried # 0 /\ tried \in Nat
         /\ job.op # "none" /\ job.op \in SafeOps \cup ForcedOps
         /\ job.outcome = "none"
         /\ job.pc # "index" => head = before.head
         /\ UnderWay => index = before.index
         /\ head \in Trees /\ index \in [Names -> CommitEntries] /\ disk \in [Names -> DiskEntries]
<1>1. /\ job \in JobTypes /\ tried \in Nat
      /\ head \in Trees /\ index \in [Names -> CommitEntries] /\ disk \in [Names -> DiskEntries]
  BY DEF LinksInv, CoTypeOK, JobTypes, PathTrees
<1>2. tried # 0
  BY DEF LinksInv, Begun, NoJob
<1>3. tried > 0
  BY <1>1, <1>2
<1> QED BY <1>1, <1>2, <1>3 DEF LinksInv, Begun, JobTypes

LEMMA StopKeeps ==
  ASSUME LinksInv, CheckoutStops
  PROVE  LinksInv'
<1>1. /\ job.pc = "checkout"
      /\ job' = IF job.op \in RollsBack \cup {"abort"} THEN [job EXCEPT !.pc = "undo"]
                ELSE [job EXCEPT !.pc = "idle", !.outcome = "stopped"]
      /\ UNCHANGED <<caseRule, head, index, disk, beyond, merging, before, tried>>
  BY DEF CheckoutStops
<1>2. /\ job' \in JobTypes
      /\ job'.op = job.op /\ job'.target = job.target /\ job'.paths = job.paths
      /\ job'.todo = job.todo /\ job'.written = job.written /\ job'.hazards = job.hazards
      /\ \/ job'.pc = "undo" /\ job'.outcome = "none" /\ job.op \in RollsBack \cup {"abort"}
         \/ job'.pc = "idle" /\ job'.outcome = "stopped"
  BY <1>1, Busy DEF JobTypes
<1>3. CoTypeOK'
  BY <1>1, <1>2 DEF LinksInv, CoTypeOK, JobTypes
<1>4. Begun'
  BY <1>1, <1>2, Busy DEF LinksInv, Begun, UnderWay
<1> QED BY <1>1, <1>2, <1>3, <1>4, RestKeeps

LEMMA JobEndKeeps ==
  ASSUME LinksInv, CheckoutEnds \/ MoveHead \/ ResetIndex
  PROVE  LinksInv'
<1>1. /\ job.pc \in {"checkout", "head", "index"}
      /\ UNCHANGED <<caseRule, disk, beyond, before, tried>> /\ merging' \in BOOLEAN
  BY DEF CheckoutEnds, MoveHead, ResetIndex, End, LinksInv, CoTypeOK, JobTypes
<1>2. /\ job \in JobTypes /\ job.outcome = "none" /\ tried > 0 /\ tried # 0
      /\ head \in Trees /\ index \in [Names -> CommitEntries]
      /\ job.pc # "index" => head = before.head
      /\ job.op # "none" /\ job.op \in SafeOps \cup ForcedOps
  BY <1>1, Busy
<1>3. /\ job' \in JobTypes
      /\ job'.op = job.op /\ job'.target = job.target /\ job'.paths = job.paths
      /\ job'.hazards = job.hazards
      /\ \/ job'.pc = "head" /\ job'.outcome = "none" /\ job.op \in SafeOps /\ head' = head
         \/ job'.pc = "index" /\ job'.outcome = "none" /\ job.op = "hard"
         \/ job'.pc = "idle" /\ job'.outcome = "done" /\ (job.op = "abort" => head' = head)
  <2>1. CASE CheckoutEnds
    <3>1. CASE job.op \in SafeOps
      <4>1. job' = [job EXCEPT !.pc = "head"] /\ head' = head
        BY <2>1, <3>1 DEF CheckoutEnds, SafeOps
      <4> QED BY <1>2, <3>1, <4>1 DEF JobTypes
    <3>2. CASE job.op = "hard"
      <4>1. job' = [job EXCEPT !.pc = "index"]
        BY <2>1, <3>2 DEF CheckoutEnds, SafeOps
      <4> QED BY <1>2, <3>2, <4>1 DEF JobTypes
    <3>3. CASE job.op \in {"abort", "discard"}
      <4>1. job' = [job EXCEPT !.pc = "idle", !.outcome = "done"] /\ head' = head
        BY <2>1, <3>3 DEF CheckoutEnds, SafeOps, End
      <4> QED BY <1>2, <4>1 DEF JobTypes
    <3> QED BY <1>2, <3>1, <3>2, <3>3 DEF ForcedOps
  <2>2. CASE MoveHead
    <3>1. job' = [job EXCEPT !.pc = "idle", !.outcome = "done"] /\ job.pc = "head"
      BY <2>2 DEF MoveHead, End
    <3>2. job.op # "abort"
      BY <3>1 DEF LinksInv, Begun, ForcedOps
    <3> QED BY <1>2, <3>1, <3>2 DEF JobTypes
  <2>3. CASE ResetIndex
    <3>1. job' = [job EXCEPT !.pc = "idle", !.outcome = "done"] /\ head' = head
      BY <2>3 DEF ResetIndex, End
    <3> QED BY <1>2, <3>1 DEF JobTypes
  <2> QED BY <2>1, <2>2, <2>3
<1>4. head' \in Trees /\ index' \in [Names -> CommitEntries]
  <2>1. head \in [Names -> CommitEntries] /\ job.target \in [Names -> CommitEntries]
    BY <1>2, TreesAssumption DEF JobTypes
  <2>2. [n \in Names |-> IF n \in job.written THEN job.target[n] ELSE index[n]]
          \in [Names -> CommitEntries]
    BY <1>2, <2>1
  <2> QED BY <1>2, <2>1, <2>2 DEF CheckoutEnds, MoveHead, ResetIndex, End, JobTypes
<1>5. CoTypeOK'
  BY <1>1, <1>3, <1>4 DEF LinksInv, CoTypeOK, JobTypes, PathTrees
<1>6. Begun'
  BY <1>1, <1>2, <1>3 DEF LinksInv, Begun, UnderWay, SafeOps, ForcedOps
<1> QED BY <1>1, <1>3, <1>5, <1>6, RestKeeps

LEMMA ClosedKeeps ==
  ASSUME LinksInv, FileClosed \/ UNCHANGED coVars
  PROVE  LinksInv'
<1>1. UNCHANGED <<caseRule, head, index, disk, beyond, merging, job, before, tried>>
  BY DEF FileClosed, coVars
<1>2. CoTypeOK' /\ Begun'
  BY <1>1 DEF LinksInv, CoTypeOK, JobTypes, Begun, UnderWay, NoJob
<1>3. AsChecked'
  <2>1. Hazards(job.target, job.paths, before.disk)' = Hazards(job.target, job.paths, before.disk)
    BY <1>1, HazardsStay
  <2>2. BringsCollision(job.target, job.paths)' <=> BringsCollision(job.target, job.paths)
    BY <1>1, HazardsStay
  <2>3. \A n : OfTheJob(n)' <=> OfTheJob(n)
    BY <1>1, OfTheJobStays
  <2>4. \A t, P, d : FolderLinks(t, P, d)' = FolderLinks(t, P, d)
    BY <1>1, RulesStay
  <2> QED BY <1>1, <2>1, <2>2, <2>3, <2>4 DEF LinksInv, AsChecked, UnderWay, Merges
<1>4. Since' /\ Shape'
  <2>1. Impossible' <=> Impossible
    BY <1>1, ImpossibleStays
  <2> QED BY <1>1, <2>1, RulesStay DEF LinksInv, Since, Shape
<1>5. LinksAreRespected'
  <2>1. \A s : Wanted(s)' <=> Wanted(s)
    BY <1>1, WantedStays
  <2>2. Impossible' <=> Impossible
    BY <1>1, ImpossibleStays
  <2> QED BY <1>1, <2>1, <2>2 DEF LinksInv, LinksAreRespected, ThroughNoLink, LinksOfTheUserStay
<1> QED BY <1>2, <1>3, <1>4, <1>5 DEF LinksInv

LEMMA RollBackKeeps ==
  ASSUME LinksInv, RollBack
  PROVE  LinksInv'
<1>1. PICK failed \in SUBSET job.written :
        /\ disk' = RolledBack(disk, job.written \ failed)
        /\ End(IF failed = {} THEN "undone" ELSE "half")
  BY DEF RollBack
<1>2. /\ job.pc = "undo" /\ job.op \in RollsBack
      /\ UNCHANGED <<caseRule, head, index, beyond, merging, before, tried>>
  BY DEF RollBack
<1>3. /\ job \in JobTypes /\ tried > 0 /\ tried # 0 /\ tried \in Nat
      /\ head \in Trees /\ index \in [Names -> CommitEntries] /\ disk \in [Names -> DiskEntries]
      /\ head = before.head /\ index = before.index
  BY <1>2, Busy DEF UnderWay
<1>4. /\ job' \in JobTypes
      /\ job'.op = job.op /\ job'.target = job.target /\ job'.paths = job.paths
      /\ job'.pc = "idle" /\ job'.outcome \in {"undone", "half"} /\ job'.hazards = job.hazards
  <2>1. \E o \in {"undone", "half"} : job' = [job EXCEPT !.pc = "idle", !.outcome = o]
    BY <1>1 DEF End
  <2> QED BY <1>3, <2>1 DEF JobTypes
<1>5. job.op \in SafeOps /\ job.paths = Names /\ job.op \notin ForcedOps
  BY <1>2 DEF RollsBack, SafeOps, ForcedOps, LinksInv, Begun
<1>6. job.written \ failed \in SUBSET Names
  BY <1>3 DEF JobTypes
<1>7. disk' \in [Names -> DiskEntries]
  BY <1>1, <1>3, <1>6, RolledBackFacts
<1>8. CoTypeOK'
  BY <1>2, <1>4, <1>7 DEF LinksInv, CoTypeOK, JobTypes
<1>9. Begun'
  BY <1>2, <1>3, <1>4, <1>5 DEF LinksInv, Begun, UnderWay
<1>10. AsChecked' /\ Since'
  BY <1>4 DEF AsChecked, Since, UnderWay
<1>11. Shape'
  BY <1>2, <1>3, <1>4, <1>5 DEF Shape
<1>12. LinksAreRespected'
  <2>1. ASSUME NEW s \in Names, disk'[s] # disk[s]
        PROVE  Wanted(s)
    <3>1. \/ \E n \in job.written \ failed : s \in Around(n)
          \/ \E n \in Names : InOne(index, n) /\ s \in Around(n)
      BY <1>1, <1>3, <1>6, <2>1, RolledBackFacts
    <3>2. \A n \in job.written : OfTheJob(n)
      BY <1>2, <1>5 DEF LinksInv, AsChecked, UnderWay, SafeOps
    <3>3. \A n \in Names : Selected(n, job.paths, TRUE)
      BY <1>5, SelectedFacts
    <3>4. \A n \in job.written : n \in Names /\ \E t \in {before.head, before.index, job.target} : t[n] # "none"
      BY <1>3, <3>2 DEF OfTheJob, JobTypes
    <3>5. \A n \in Names : InOne(index, n) => \E t \in {before.head, before.index, job.target} : t[n] # "none"
      BY <1>3 DEF InOne
    <3>6. PICK n \in Names : /\ s \in Around(n)
                             /\ \E t \in {before.head, before.index, job.target} : t[n] # "none"
      BY <3>1, <3>4, <3>5
    <3> QED BY <3>3, <3>6, WantedAround
  <2> QED BY <1>2, <1>4, <2>1, RespectedStep
<1> QED BY <1>8, <1>9, <1>10, <1>11, <1>12 DEF LinksInv

LEMMA RollForwardKeeps ==
  ASSUME LinksInv, RollForward
  PROVE  LinksInv'
<1> DEFINE W == {n \in job.written : head[n] # "none"}
<1>1. /\ job.pc = "undo" /\ job.op = "abort"
      /\ UNCHANGED <<caseRule, head, beyond, merging, before, tried>>
  BY DEF RollForward
<1>2. /\ job \in JobTypes /\ tried > 0 /\ tried # 0 /\ tried \in Nat
      /\ head \in Trees /\ index \in [Names -> CommitEntries] /\ disk \in [Names -> DiskEntries]
      /\ head = before.head /\ index = before.index /\ job.target = head
      /\ head \in [Names -> CommitEntries]
  <2>1. job.target = head
    BY <1>1 DEF LinksInv, Begun
  <2> QED BY <1>1, <2>1, Busy, TreesAssumption DEF UnderWay
<1>3. /\ job' \in JobTypes
      /\ job'.op = job.op /\ job'.target = job.target /\ job'.paths = job.paths
      /\ job'.pc = "idle" /\ job'.outcome \in {"undone", "half"} /\ job'.hazards = job.hazards
  <2>1. \E o \in {"undone", "half"} : job' = [job EXCEPT !.pc = "idle", !.outcome = o]
    BY DEF RollForward, End
  <2> QED BY <1>2, <2>1 DEF JobTypes
<1>4. /\ disk' = disk \/ disk' = Restored(disk, head, W)
      /\ index' = index \/ index' = Forwarded(job.written)
  BY DEF RollForward
<1>5. W \in SUBSET Names
  BY <1>2 DEF JobTypes
<1>6. disk' \in [Names -> DiskEntries] /\ index' \in [Names -> CommitEntries]
  <2>1. Forwarded(job.written) \in [Names -> CommitEntries]
    BY <1>2 DEF Forwarded
  <2>2. Restored(disk, head, W) \in [Names -> DiskEntries]
    <3> HIDE DEF W
    <3> QED BY <1>2, <1>5, RestoredFacts
  <2>3. disk' \in [Names -> DiskEntries]
    <3>1. CASE disk' = disk
      BY <1>2, <3>1
    <3>2. CASE disk' = Restored(disk, head, W)
      <4> HIDE DEF W
      <4> QED BY <2>2, <3>2
    <3> QED BY <1>4, <3>1, <3>2
  <2>4. index' \in [Names -> CommitEntries]
    BY <1>2, <1>4, <2>1
  <2> QED BY <2>3, <2>4
<1>7. job.op \in ForcedOps /\ job.op \notin SafeOps
  BY <1>1 DEF SafeOps, ForcedOps
<1>8. CoTypeOK'
  BY <1>1, <1>3, <1>6 DEF LinksInv, CoTypeOK, JobTypes, PathTrees
<1>9. Begun'
  BY <1>1, <1>2, <1>3, <1>7 DEF LinksInv, Begun, UnderWay
<1>10. AsChecked' /\ Since'
  BY <1>3 DEF AsChecked, Since, UnderWay
<1>11. Shape'
  <2>1. Impossible' <=> Impossible
    BY <1>1, ImpossibleStays
  <2>2. ASSUME ~Impossible
        PROVE  LinksStand(disk') /\ LinksStand(before.disk)
    <3>1. LinksStand(disk) /\ LinksStand(before.disk)
      BY <1>7, <2>2 DEF LinksInv, Shape
    <3>2. \A n \in W : head[n] # "none" /\ OnDisk(disk, n) # "folder"
      BY <1>1, <1>2, <2>2 DEF LinksInv, Shape
    <3>3. Folding => Collisions(head, Names) = {}
      BY <1>2, <2>2 DEF Impossible
    <3>4. LinksStand(Restored(disk, head, W))
      BY <1>2, <1>5, <3>1, <3>2, <3>3, RestoredStands
    <3> QED BY <1>4, <3>1, <3>4
  <2> QED BY <1>1, <1>3, <2>1, <2>2, RulesStay DEF Shape
<1>12. LinksAreRespected'
  <2>1. ASSUME NEW s \in Names, disk'[s] # disk[s]
        PROVE  Wanted(s)
    <3>1. PICK n \in Names : InOne(head, n) /\ Selected(n, W, TRUE) /\ s \in Around(n)
      BY <1>2, <1>4, <1>5, <2>1, RestoredFacts
    <3>2. job.paths \in SUBSET Names /\ IgnoreCase \in BOOLEAN
      BY <1>2 DEF JobTypes, IgnoreCase
    <3>3. \A w \in W : Selected(w, job.paths, TRUE)
      <4>1. \A w \in job.written : OfTheJob(w)
        BY <1>1 DEF LinksInv, AsChecked, UnderWay
      <4> QED BY <1>5, <3>2, <4>1, SelectedFacts DEF OfTheJob
    <3>4. Selected(n, job.paths, TRUE)
      BY <1>5, <3>1, <3>2, <3>3, SelectedAgain
    <3>5. \E t \in {before.head, before.index, job.target} : t[n] # "none"
      BY <1>2, <3>1 DEF InOne
    <3> QED BY <3>1, <3>4, <3>5, WantedAround
  <2> QED BY <1>1, <1>3, <2>1, RespectedStep
<1> QED BY <1>8, <1>9, <1>10, <1>11, <1>12 DEF LinksInv

LEMMA LinksAtFirst ==
  ASSUME CoInit
  PROVE  LinksInv
<1>1. /\ head \in Trees /\ index \in Trees /\ disk \in Disks /\ beyond = FALSE
      /\ job = NoJob /\ before = [head |-> head, index |-> index, disk |-> disk] /\ tried = 0
      /\ caseRule \in {"exact", "folds", "mac", "unreadable"} /\ merging \in BOOLEAN
  BY DEF CoInit
<1>2. /\ disk \in [Names -> DiskEntries]
      /\ \A n \in Names : disk[n] # "none" => \A p \in ParentsOf(n) : OnDisk(disk, p) = "folder"
  <2>1. \A t \in Trees : t \in [Names -> CommitEntries]
    BY TreesAssumption
  <2>2. /\ disk \in [Names -> DiskEntries]
    <3> DEFINE MayStand(n) == {"none", "link"} \cup {t[n] : t \in Trees}
                   \cup (IF Twins[n] = n THEN {"mine"} ELSE {})
                   \cup (IF Below(n) # {} THEN {"folder"} ELSE {})
    <3>1. \A n \in Names : MayStand(n) \subseteq DiskEntries
      BY <2>1 DEF DiskEntries, CommitEntries
    <3>2. disk \in [Names -> UNION {MayStand(n) : n \in Names}]
      BY <1>1 DEF Disks
    <3>3. \A n \in Names : disk[n] \in MayStand(n)
      BY <1>1 DEF Disks
    <3> HIDE DEF MayStand
    <3> QED BY <3>1, <3>2, <3>3
  <2> QED BY <1>1, <2>2 DEF Disks
<1>3. LinksStand(disk)
  <2>1. ASSUME NEW n \in Names, IsLink(OnDisk(disk, n)), NEW p \in ParentsOf(n)
        PROVE  OnDisk(disk, p) = "folder"
    <3>1. /\ Spot(n) \in Names /\ disk[Spot(n)] # "none"
          /\ \E q \in ParentsOf(Spot(n)) : Spot(p) = Spot(q)
      BY <2>1, SpotFacts DEF OnDisk, IsLink, LinkEntries
    <3> QED BY <1>2, <3>1 DEF OnDisk
  <2> QED BY <2>1 DEF LinksStand
<1>4. CoTypeOK
  BY <1>1, <1>2, TreesAssumption DEF CoTypeOK, JobTypes, NoJob, PathTrees
<1>5. Begun /\ AsChecked /\ Since
  BY <1>1 DEF Begun, AsChecked, Since, UnderWay, NoJob, SafeOps, ForcedOps
<1>6. Shape
  BY <1>1, <1>3 DEF Shape, NoJob
<1>7. LinksAreRespected
  BY <1>1 DEF LinksAreRespected, ThroughNoLink, LinksOfTheUserStay, NoJob
<1> QED BY <1>4, <1>5, <1>6, <1>7 DEF LinksInv

LEMMA LinksStep == LinksInv /\ [CoNext]_coVars => LinksInv'
BY BeginKeeps, ClearLinksKeeps, CheckoutFileKeeps, StopKeeps, RollBackKeeps, RollForwardKeeps,
   JobEndKeeps, ClosedKeeps DEF CoNext

LEMMA LinksStay == WorkSpec => []LinksInv
<1>1. WorkInit => CoInit
  BY DEF WorkInit, CheckoutsAtRest
<1>2. [WorkNext]_workVars => [CoNext]_coVars
  BY DEF WorkNext, workVars
<1>3. WorkInit => LinksInv
  BY <1>1, LinksAtFirst
<1>4. LinksInv /\ [WorkNext]_workVars => LinksInv'
  BY <1>2, LinksStep
<1> QED BY <1>3, <1>4, PTL DEF WorkSpec

(* Whatever a checkout, a reset, a discard or an abort does, and wherever it stops: nothing is *)
(* written through a link unless the commit itself cannot be checked out, and a link of the    *)
(* user's is only ever replaced where one of the commits has something at that spot, above it  *)
(* or below it; an operation that refuses has changed nothing (prepare_forced_checkout,        *)
(* clear_hazard, refuse_linked_folders, roll_back).                                            *)
THEOREM LinksStayRespected == WorkSpec => []LinksAreRespected
<1>1. LinksInv => LinksAreRespected
  BY DEF LinksInv
<1> QED BY <1>1, LinksStay, PTL

=============================================================================
