----------------------------- MODULE ChangesProofs -----------------------------
(***************************************************************************)
(* Proofs about what becomes of the user's changes: staging by path, the    *)
(* list of stashes and what a stash gives back, conflicts resolved, and     *)
(* what an Undo or Redo writes.                                             *)
(***************************************************************************)
EXTENDS Changes, FiniteSetTheorems, SequenceTheorems, TLAPS

-----------------------------------------------------------------------------
(* Staging and unstaging *)

(* The index and HEAD's tree are trees, and no entry is below another. *)
WellFormed ==
  /\ base \in Commits /\ entries = [p \in Paths |-> entries[p]]
  /\ \A p \in Paths : Whole(entries, p) => \A f \in FoldersOf[p] : ~Whole(entries, f)

(* A path that was staged is as it stands, one that was unstaged as in HEAD, or there is a    *)
(* conflict.                                                                                 *)
AsStands(p) == IF Standing(p) = "folder" THEN "none" ELSE Standing(p)
NoConflict == \A p \in Paths : entries[p] # "conflict"

StagingInv ==
  /\ WellFormed
  /\ staged \subseteq Paths /\ unstaged \subseteq Paths
  /\ \A p \in staged : entries[p] \in {AsStands(p), "conflict"}
  /\ NoConflict => \A p \in unstaged : entries[p] = base[p]

(* The root of a pair is the outermost folder that is a file on one side, or the path. *)
LEMMA PairRootFacts ==
  ASSUME NEW p \in Paths
  PROVE  /\ PairRoot(p) = {} => Replaced(p) = {} /\ ~IsPair(p)
         /\ \A r \in PairRoot(p) :
              /\ r \in FoldersOf[p] \cup {p} /\ FoldersOf[r] \cap Replaced(p) = {}
              /\ r = p => Replaced(p) = {}
<1>1. FoldersOf[p] \in SUBSET Paths /\ p \notin FoldersOf[p]
  BY StagingAssumption
<1>2. Replaced(p) \subseteq FoldersOf[p]
  BY DEF Replaced
<1>3. CASE Replaced(p) = {}
  BY <1>3 DEF PairRoot
<1>4. CASE Replaced(p) # {}
  <2>1. PairRoot(p) = {f \in Replaced(p) : FoldersOf[f] \cap Replaced(p) = {}}
    BY <1>4 DEF PairRoot
  <2>2. \E f \in Replaced(p) : FoldersOf[f] \cap Replaced(p) = {}
    BY <1>2, <1>4, StagingAssumption
  <2> QED
    BY <1>1, <1>2, <2>1, <2>2
<1> QED
  BY <1>3, <1>4

LEMMA UnitFacts ==
  ASSUME NEW p \in Paths
  PROVE  /\ p \in Unit(p) /\ Unit(p) \subseteq Paths
         /\ PairRoot(p) = {} => Unit(p) = {p}
         /\ \A q \in Unit(p) : PairRoot(p) # {} =>
              \E r \in PairRoot(p) : (q = r \/ q \in Inside(r)) /\ {r} \cup Inside(r) \subseteq Unit(p)
<1>1. FoldersOf[p] \subseteq Paths
  BY StagingAssumption
<1>2. CASE PairRoot(p) = {}
  BY <1>2 DEF Unit
<1>3. CASE PairRoot(p) # {}
  <2>1. Unit(p) = UNION {{r} \cup Inside(r) : r \in PairRoot(p)}
    BY <1>3 DEF Unit
  <2>2. \A r \in PairRoot(p) : r \in Paths /\ (p = r \/ p \in Inside(r))
    BY <1>1, PairRootFacts DEF Inside
  <2>3. \A r \in PairRoot(p) : {r} \cup Inside(r) \subseteq Unit(p)
    BY <2>1
  <2> QED
    BY <1>3, <2>1, <2>2, <2>3 DEF Inside
<1> QED
  BY <1>2, <1>3

(* Nothing that is reset is over or under a file that stays: the unit holds both. *)
LEMMA NothingStaysAcross ==
  ASSUME StagingInv, NEW p \in Paths, NEW sources \in SUBSET RenameSources(Unit(p)),
         NEW q \in Paths, NEW f \in FoldersOf[q]
  PROVE  /\ q \in Unit(p) \cup sources /\ base[q] # "none" /\ Whole(entries, f)
              => f \in Unit(p) \cup sources
         /\ f \in Unit(p) \cup sources /\ base[f] # "none" /\ Whole(entries, q)
              => q \in Unit(p) \cup sources
<1>1. f \in Paths /\ FoldersOf[f] \subseteq FoldersOf[q] /\ FoldersOf[q] \subseteq Paths
  BY StagingAssumption
<1>2. ASSUME q \in Unit(p) \cup sources, base[q] # "none", Whole(entries, f), f \notin Unit(p) \cup sources
      PROVE  FALSE
  <2>1. CASE q \in sources
    <3>1. PairRoot(q) = {}
      BY <2>1 DEF RenameSources
    <3> QED
      BY <1>2, <3>1, PairRootFacts DEF Replaced
  <2>2. CASE q \in Unit(p) /\ PairRoot(p) = {}
    BY <1>2, <2>2, UnitFacts, PairRootFacts DEF Replaced
  <2>3. CASE q \in Unit(p) /\ PairRoot(p) # {}
    <3>1. PICK r \in PairRoot(p) : (q = r \/ q \in Inside(r)) /\ {r} \cup Inside(r) \subseteq Unit(p)
      BY <2>3, UnitFacts
    <3>2. r \in Paths /\ f # r /\ f \notin Inside(r)
      BY <1>2, <3>1, UnitFacts
    <3>3. f \in FoldersOf[r]
      BY <1>1, <3>1, <3>2, StagingAssumption DEF Inside
    <3>4. r \in FoldersOf[p] \cup {p} /\ FoldersOf[r] \cap Replaced(p) = {}
      BY PairRootFacts
    <3>5. f \in FoldersOf[p]
      BY <3>3, <3>4, StagingAssumption
    <3> QED
      BY <1>2, <3>3, <3>4, <3>5 DEF Replaced
  <2> QED
    BY <1>2, <2>1, <2>2, <2>3
<1>3. ASSUME f \in Unit(p) \cup sources, base[f] # "none", Whole(entries, q), q \notin Unit(p) \cup sources
      PROVE  FALSE
  <2>1. q \in Inside(f)
    BY DEF Inside
  <2>2. IsPair(f)
    BY <1>3, <2>1 DEF IsPair, IsFolderOf, Whole
  <2>3. CASE f \in sources
    BY <1>1, <2>2, <2>3, PairRootFacts DEF RenameSources
  <2>4. CASE f \in Unit(p) /\ PairRoot(p) = {}
    BY <2>2, <2>4, UnitFacts, PairRootFacts
  <2>5. CASE f \in Unit(p) /\ PairRoot(p) # {}
    <3>1. PICK r \in PairRoot(p) : (f = r \/ f \in Inside(r)) /\ {r} \cup Inside(r) \subseteq Unit(p)
      BY <2>5, UnitFacts
    <3>2. q \in Inside(r)
      BY <1>1, <3>1 DEF Inside
    <3> QED
      BY <1>3, <3>1, <3>2
  <2> QED
    BY <1>3, <2>3, <2>4, <2>5
<1> QED
  BY <1>2, <1>3

LEMMA UnstageKeepsStagingInv ==
  ASSUME StagingInv, NEW p \in Paths, UnstageFile(p)
  PROVE  StagingInv'
<1>1. PICK sources \in SUBSET RenameSources(Unit(p)) :
        entries' = IF \E q \in Unit(p) \cup sources : entries[q] = "conflict" THEN entries
                   ELSE [q \in Paths |-> IF q \in Unit(p) \cup sources THEN base[q] ELSE entries[q]]
  BY DEF UnstageFile
<1>2. unstaged' = unstaged \cup {p} /\ staged' = {} /\ base' = base /\ base \in Commits
  BY DEF UnstageFile, StagingInv, WellFormed
<1>3. CASE \E q \in Unit(p) \cup sources : entries[q] = "conflict"
  <2>1. entries' = entries
    BY <1>1, <1>3
  <2>2. Unit(p) \cup sources \subseteq Paths
    BY UnitFacts DEF RenameSources
  <2>3. ~NoConflict'
    BY <1>3, <2>1, <2>2 DEF NoConflict
  <2> QED
    BY <1>2, <2>1, <2>3 DEF StagingInv, WellFormed, Whole
<1>4. CASE ~\E q \in Unit(p) \cup sources : entries[q] = "conflict"
  <2>1. entries' = [q \in Paths |-> IF q \in Unit(p) \cup sources THEN base[q] ELSE entries[q]]
    BY <1>1, <1>4
  <2>2. \A q \in Paths : entries'[q] = IF q \in Unit(p) \cup sources THEN base[q] ELSE entries[q]
    BY <2>1
  <2>3. WellFormed'
    <3> SUFFICES ASSUME NEW q \in Paths, Whole(entries', q), NEW f \in FoldersOf[q], Whole(entries', f)
                 PROVE  FALSE
      BY <1>2, <2>1 DEF WellFormed
    <3>1. f \in Paths
      BY StagingAssumption
    <3>2. \A x \in Paths : base[x] # "none" => \A y \in FoldersOf[x] : base[y] = "none"
      BY <1>2, StagingAssumption
    <3>3. CASE q \in Unit(p) \cup sources /\ f \in Unit(p) \cup sources
      BY <2>2, <3>1, <3>2, <3>3 DEF Whole
    <3>4. CASE q \notin Unit(p) \cup sources /\ f \notin Unit(p) \cup sources
      BY <2>2, <3>1, <3>4 DEF Whole, StagingInv, WellFormed
    <3>5. CASE q \in Unit(p) \cup sources /\ f \notin Unit(p) \cup sources
      BY <2>2, <3>1, <3>5, NothingStaysAcross DEF Whole
    <3>6. CASE q \notin Unit(p) \cup sources /\ f \in Unit(p) \cup sources
      BY <2>2, <3>1, <3>6, NothingStaysAcross DEF Whole
    <3> QED
      BY <3>3, <3>4, <3>5, <3>6
  <2>4. ASSUME NoConflict', NEW q \in unstaged' PROVE entries'[q] = base'[q]
    <3>1. NoConflict
      BY <1>4, <2>2, <2>4 DEF NoConflict
    <3>2. q \in Paths /\ (q = p \/ q \in unstaged)
      BY <1>2 DEF StagingInv
    <3>3. q = p => q \in Unit(p)
      BY UnitFacts
    <3> QED
      BY <1>2, <2>2, <3>1, <3>2, <3>3 DEF StagingInv
  <2> QED
    BY <1>2, <2>3, <2>4 DEF StagingInv
<1> QED
  BY <1>3, <1>4

(* What is staged drops only entries that do not stand: beside a file nothing can be. *)
LEMMA WithEntryFacts ==
  ASSUME StagingInv, NEW p \in Paths, Standing(p) \notin {"none", "folder"}
  PROVE  LET after == WithEntry(entries, p, Standing(p)) IN
         /\ after = [q \in Paths |-> after[q]] /\ after[p] = Standing(p)
         /\ \A q \in Paths \ {p} :
              \/ after[q] = entries[q] /\ (q \in Inside(p) \cup FoldersOf[p] => ~Whole(entries, q))
              \/ after[q] = "none" /\ AsStands(q) = "none"
<1> DEFINE after == WithEntry(entries, p, Standing(p))
<1>1. after = [q \in Paths |-> after[q]] /\ after[p] = Standing(p)
  <2> DEFINE held(q) == CASE q = p -> Standing(p)
                           [] q \in Inside(p) \cup FoldersOf[p] /\ Whole(entries, q) -> "none"
                           [] OTHER -> entries[q]
  <2>1. after = [q \in Paths |-> held(q)]
    BY DEF WithEntry
  <2>2. p \notin FoldersOf[p]
    BY StagingAssumption
  <2>3. held(p) = Standing(p)
    BY <2>2 DEF Inside
  <2> HIDE DEF held, after
  <2> QED
    BY <2>1, <2>3
<1>2. ASSUME NEW q \in Paths \ {p}, after[q] # entries[q]
      PROVE  after[q] = "none" /\ AsStands(q) = "none"
  <2>1. q \in Inside(p) \cup FoldersOf[p] /\ after[q] = "none"
    BY <1>2 DEF WithEntry
  <2>2. \A f \in FoldersOf[p] : worktree[f] = "folder"
    BY DEF Standing
  <2>3. CASE q \in FoldersOf[p]
    BY <2>1, <2>2, <2>3 DEF AsStands, Standing
  <2>4. CASE q \in Inside(p)
    <3>1. p \in FoldersOf[q] /\ worktree[p] # "folder"
      BY <2>2, <2>4 DEF Inside, Standing
    <3> QED
      BY <2>1, <3>1 DEF AsStands, Standing
  <2> QED
    BY <2>1, <2>3, <2>4
<1>3. \A q \in Paths \ {p} :
        after[q] = entries[q] /\ q \in Inside(p) \cup FoldersOf[p] /\ Whole(entries, q) => FALSE
  BY DEF WithEntry, Whole
<1> QED
  BY <1>1, <1>2, <1>3

LEMMA StageKeepsStagingInv ==
  ASSUME StagingInv, NEW p \in Paths, StageFile(p)
  PROVE  StagingInv'
<1>1. staged' = staged \cup {p} /\ unstaged' = {} /\ UNCHANGED <<base, worktree>>
  BY DEF StageFile
<1>2. \A q \in Paths : AsStands(q)' = AsStands(q)
  BY <1>1 DEF AsStands, Standing
<1>3. base \in Commits /\ entries = [q \in Paths |-> entries[q]] /\ p \notin FoldersOf[p]
  BY StagingAssumption DEF StagingInv, WellFormed
<1>4. CASE entries' = entries /\ entries[p] \in {AsStands(p), "conflict"}
  BY <1>1, <1>2, <1>4 DEF StagingInv, WellFormed, Whole
<1>5. CASE entries' = [entries EXCEPT ![p] = "none"] /\ Standing(p) \in {"none", "folder"}
  <2>1. entries'[p] = "none" /\ \A q \in Paths \ {p} : entries'[q] = entries[q]
    BY <1>3, <1>5
  <2>2. entries' = [q \in Paths |-> entries'[q]] /\ AsStands(p) = "none"
    BY <1>3, <1>5 DEF AsStands
  <2>3. \A q \in Paths : Whole(entries', q) => Whole(entries, q)
    BY <2>1 DEF Whole
  <2>4. WellFormed'
    BY <1>1, <1>3, <2>2, <2>3, StagingAssumption DEF StagingInv, WellFormed
  <2> QED
    BY <1>1, <1>2, <2>1, <2>2, <2>4 DEF StagingInv
<1>6. CASE entries' = WithEntry(entries, p, Standing(p)) /\ Standing(p) \notin {"none", "folder"}
  <2>1. /\ entries' = [q \in Paths |-> entries'[q]] /\ entries'[p] = Standing(p)
        /\ \A q \in Paths \ {p} :
              \/ entries'[q] = entries[q] /\ (q \in Inside(p) \cup FoldersOf[p] => ~Whole(entries, q))
              \/ entries'[q] = "none" /\ AsStands(q) = "none"
    BY <1>6, WithEntryFacts
  <2>2. \A q \in Paths \ {p} :
          Whole(entries', q) => Whole(entries, q) /\ q \notin Inside(p) \cup FoldersOf[p]
    BY <2>1 DEF Whole
  <2>3. WellFormed'
    <3> SUFFICES ASSUME NEW q \in Paths, Whole(entries', q), NEW f \in FoldersOf[q], Whole(entries', f)
                 PROVE  FALSE
      BY <1>1, <1>3, <2>1 DEF WellFormed
    <3>1. f \in Paths /\ f # q
      BY StagingAssumption
    <3>2. CASE q = p
      BY <2>2, <3>1, <3>2
    <3>3. CASE f = p
      BY <2>2, <3>1, <3>3 DEF Inside
    <3>4. CASE q # p /\ f # p
      BY <2>2, <3>1, <3>4 DEF StagingInv, WellFormed
    <3> QED
      BY <3>2, <3>3, <3>4
  <2>4. \A q \in staged' : entries'[q] \in {AsStands(q), "conflict"}
    BY <1>1, <1>6, <2>1 DEF StagingInv, AsStands
  <2> QED
    BY <1>1, <1>2, <2>3, <2>4 DEF StagingInv
<1>7. BeyondLink(p) => Standing(p) = "none"
  BY DEF BeyondLink, Standing
<1>8. ASSUME Standing(p) = "folder", ~FolderReplacedAFile(p)
      PROVE  entries[p] = AsStands(p)
  BY <1>8 DEF FolderReplacedAFile, AsStands
<1> QED
  BY <1>4, <1>5, <1>6, <1>7, <1>8 DEF StageFile

LEMMA StagingInvHoldsAtFirst == StagingInit => StagingInv
<1> SUFFICES ASSUME StagingInit PROVE StagingInv
  OBVIOUS
<1>1. entries = [p \in Paths |-> entries[p]]
  BY DEF StagingInit
<1>2. WellFormed
  BY <1>1 DEF StagingInit, WellFormed, Whole
<1> QED
  BY <1>2 DEF StagingInit, StagingInv

LEMMA StagingStep == StagingInv /\ [StagingNext]_stagingVars => StagingInv'
<1> SUFFICES ASSUME StagingInv, [StagingNext]_stagingVars PROVE StagingInv'
  OBVIOUS
<1>1. CASE UNCHANGED stagingVars
  BY <1>1 DEF stagingVars, StagingInv, WellFormed, Whole, AsStands, Standing, NoConflict
<1> QED
  BY <1>1, StageKeepsStagingInv, UnstageKeepsStagingInv DEF StagingNext

LEMMA StagingInvIsThePromise == StagingInv => IndexFollowsEveryPath
<1> SUFFICES ASSUME StagingInv, NoConflict
             PROVE  /\ staged = Paths => \A p \in Paths : entries[p] = AsStands(p)
                    /\ unstaged = Paths => entries = base
  BY DEF StagingInv, WellFormed, IndexFollowsEveryPath, AsStands, NoConflict
<1>1. staged = Paths => \A p \in Paths : entries[p] = AsStands(p)
  BY DEF StagingInv, NoConflict
<1>2. entries = [p \in Paths |-> entries[p]] /\ base = [p \in Paths |-> base[p]]
  BY StagingAssumption DEF StagingInv, WellFormed
<1>3. unstaged = Paths => \A p \in Paths : entries[p] = base[p]
  BY DEF StagingInv
<1> QED
  BY <1>1, <1>2, <1>3

(* What else becomes of the user's changes in the same behaviour is not in the index here. *)
LEMMA ChangesStepsOfStaging == [ChangesNext]_changeVars => [StagingNext]_stagingVars
BY DEF ChangesNext, changeVars

(* Whatever paths are staged and unstaged, in whatever order, folders in the place of files   *)
(* among them and at any depth, no entry of the index is below another; once every path has   *)
(* been staged the index is the work tree, and once every path has been unstaged it is HEAD's *)
(* tree (stage_file, unstage_file, pair_root).                                               *)
THEOREM IndexAlwaysFollows == ChangesSpec => []IndexFollowsEveryPath
<1>1. ChangesInit => StagingInv
  BY StagingInvHoldsAtFirst DEF ChangesInit, StagingAtRest
<1>2. StagingInv /\ [ChangesNext]_changeVars => StagingInv'
  BY StagingStep, ChangesStepsOfStaging
<1> QED
  BY <1>1, <1>2, StagingInvIsThePromise, PTL DEF ChangesSpec

-----------------------------------------------------------------------------
(* The list of stashes *)

(* No two stashes of the list are the same one; and the pop that is about to drop a stash     *)
(* left no conflict, and finds the one it applied where the user saw it, unless another tool  *)
(* changed the list since.                                                                   *)
Distinct(l) == \A i, j \in DOMAIN l : l[i].id = l[j].id => i = j

StashListInv ==
  /\ list \in Seq(ToSet(list)) /\ listed \in Seq(ToSet(listed))
  /\ Distinct(list)
  /\ "pc" \in DOMAIN stashing
  /\ stashing.pc = "drop" =>
       /\ stashing.kind = "pop" /\ ~Conflicted(idx) /\ stashing.at \in Nat \ {0}
       /\ ~raced => stashing.at <= Len(list) /\ list[stashing.at].id = stashing.id

LEMMA OwnElements ==
  ASSUME NEW S, NEW s \in Seq(S)
  PROVE  s \in Seq(ToSet(s))
BY DEF ToSet

LEMMA RemoveAtFacts ==
  ASSUME NEW S, NEW s \in Seq(S), NEW k \in 1..Len(s)
  PROVE  /\ RemoveAt(s, k) \in Seq(S) /\ Len(RemoveAt(s, k)) = Len(s) - 1
         /\ \A i \in 1..(Len(s) - 1) : RemoveAt(s, k)[i] = s[IF i < k THEN i ELSE i + 1]
<1> DEFINE front == SubSeq(s, 1, k - 1)
           back == SubSeq(s, k + 1, Len(s))
<1>1. Len(s) \in Nat /\ k \in Nat /\ 1 <= k /\ k <= Len(s)
  OBVIOUS
<1>2. \A i \in 1..Len(s) : s[i] \in S
  OBVIOUS
<1>3. /\ front \in Seq(S) /\ Len(front) = k - 1
      /\ \A i \in 1..(k - 1) : front[i] = s[i]
  <2>1. \A i \in 1..(k - 1) : s[i] \in S
    BY <1>1, <1>2
  <2>2. 1 \in Int /\ k - 1 \in Int
    BY <1>1
  <2>3. /\ SubSeq(s, 1, k - 1) \in Seq(S)
        /\ Len(SubSeq(s, 1, k - 1)) = IF 1 <= k - 1 THEN (k - 1) - 1 + 1 ELSE 0
        /\ \A i \in 1..((k - 1) - 1 + 1) : SubSeq(s, 1, k - 1)[i] = s[1 + i - 1]
    BY <2>1, <2>2, SubSeqProperties
  <2> QED BY <2>3, <1>1
<1>4. /\ back \in Seq(S) /\ Len(back) = Len(s) - k
      /\ \A i \in 1..(Len(s) - k) : back[i] = s[k + i]
  <2>1. \A i \in (k + 1)..Len(s) : s[i] \in S
    BY <1>1, <1>2
  <2>2. k + 1 \in Int /\ Len(s) \in Int
    BY <1>1
  <2>3. /\ SubSeq(s, k + 1, Len(s)) \in Seq(S)
        /\ Len(SubSeq(s, k + 1, Len(s))) = IF k + 1 <= Len(s) THEN Len(s) - (k + 1) + 1 ELSE 0
        /\ \A i \in 1..(Len(s) - (k + 1) + 1) : SubSeq(s, k + 1, Len(s))[i] = s[(k + 1) + i - 1]
    BY <2>1, <2>2, SubSeqProperties
  <2> QED BY <2>3, <1>1
<1>5. RemoveAt(s, k) = front \o back
  BY DEF RemoveAt
<1> HIDE DEF front, back
<1>6. front \o back \in Seq(S) /\ Len(front \o back) = Len(s) - 1
  BY <1>1, <1>3, <1>4
<1>7. ASSUME NEW i \in 1..(Len(s) - 1)
      PROVE  (front \o back)[i] = s[IF i < k THEN i ELSE i + 1]
  <2>1. i \in Nat /\ i <= Len(s) - 1 /\ 1 <= i
    BY <1>1
  <2>2. CASE i < k
    <3>1. i \in 1..Len(front)
      BY <2>1, <2>2, <1>1, <1>3
    <3>2. (front \o back)[i] = front[i]
      BY <3>1, <1>3, <1>4
    <3> QED BY <3>1, <3>2, <2>2, <1>3
  <2>3. CASE ~(i < k)
    <3>1. i - Len(front) \in 1..(Len(s) - k) /\ i > Len(front) /\ i <= Len(front) + Len(back)
          /\ k + (i - Len(front)) = i + 1
      BY <2>1, <2>3, <1>1, <1>3, <1>4
    <3>2. (front \o back)[i] = back[i - Len(front)]
      BY <3>1, <2>1, <1>3, <1>4
    <3> QED BY <3>1, <3>2, <2>3, <1>4
  <2> QED BY <2>2, <2>3
<1> QED BY <1>5, <1>6, <1>7

(* Dropping one stash of a list takes its identity from the list and leaves the others. *)
LEMMA DropFacts ==
  ASSUME list \in Seq(ToSet(list)), Distinct(list), NEW k \in 1..Len(list),
         list' = RemoveAt(list, k)
  PROVE  /\ list' \in Seq(ToSet(list')) /\ Distinct(list')
         /\ StashesThere \ StashesThere' = {list[k].id}
<1>1. PICK S : list \in Seq(S)
  OBVIOUS
<1>2. /\ list' \in Seq(S) /\ Len(list') = Len(list) - 1
      /\ \A i \in 1..(Len(list) - 1) : list'[i] = list[IF i < k THEN i ELSE i + 1]
  BY <1>1, RemoveAtFacts
<1>3. /\ DOMAIN list = 1..Len(list) /\ DOMAIN list' = 1..(Len(list) - 1) /\ Len(list) \in Nat
      /\ k \in Nat /\ 1 <= k /\ k <= Len(list)
  BY <1>1, <1>2
<1>4. list' \in Seq(ToSet(list'))
  BY <1>2, OwnElements
<1>5. \A i \in 1..(Len(list) - 1) :
        /\ (IF i < k THEN i ELSE i + 1) \in 1..Len(list)
        /\ (IF i < k THEN i ELSE i + 1) # k
  BY <1>3
<1>6. Distinct(list')
  <2> SUFFICES ASSUME NEW i \in 1..(Len(list) - 1), NEW j \in 1..(Len(list) - 1),
                      list'[i].id = list'[j].id
               PROVE  i = j
    BY <1>3 DEF Distinct
  <2>1. PICK fi, fj \in 1..Len(list) :
          fi = (IF i < k THEN i ELSE i + 1) /\ fj = (IF j < k THEN j ELSE j + 1)
    BY <1>5
  <2>2. list[fi].id = list[fj].id
    BY <1>2, <2>1
  <2>3. fi = fj
    BY <2>2, <1>3 DEF Distinct
  <2> QED BY <2>1, <2>3, <1>3
<1>7. list[k].id \in StashesThere /\ list[k].id \notin StashesThere'
  <2>1. list[k].id \in StashesThere
    BY <1>3 DEF StashesThere
  <2>2. ASSUME NEW i \in 1..(Len(list) - 1), list'[i].id = list[k].id PROVE FALSE
    BY <2>2, <1>2, <1>3, <1>5 DEF Distinct
  <2> QED BY <2>1, <2>2, <1>3 DEF StashesThere
<1>8. \A j \in 1..Len(list) : j # k => list[j].id \in StashesThere'
  <2> SUFFICES ASSUME NEW j \in 1..Len(list), j # k PROVE list[j].id \in StashesThere'
    OBVIOUS
  <2>1. PICK i \in 1..(Len(list) - 1) : (IF i < k THEN i ELSE i + 1) = j
    <3>1. CASE j < k
      <4>1. j \in 1..(Len(list) - 1)
        BY <3>1, <1>3
      <4> QED BY <4>1, <3>1
    <3>2. CASE ~(j < k)
      <4>1. j - 1 \in 1..(Len(list) - 1) /\ ~(j - 1 < k) /\ (j - 1) + 1 = j
        BY <3>2, <1>3
      <4> QED BY <4>1
    <3> QED BY <3>1, <3>2
  <2> QED BY <2>1, <1>2, <1>3 DEF StashesThere
<1> QED BY <1>3, <1>4, <1>6, <1>7, <1>8 DEF StashesThere

(* The identities of a list are as many as it is long, or fewer. *)
LEMMA FewElements ==
  ASSUME NEW n \in Nat, NEW f, DOMAIN f = 1..n
  PROVE  LET T == {f[i] : i \in 1..n} IN IsFiniteSet(T) /\ Cardinality(T) \in Nat /\ Cardinality(T) <= n
<1> DEFINE T == {f[i] : i \in 1..n}
           g == [i \in 1..n |-> f[i]]
<1>1. g \in Surjection(1..n, T)
  <2>1. g \in [1..n -> T]
    OBVIOUS
  <2>2. \A t \in T : \E i \in 1..n : g[i] = t
    OBVIOUS
  <2> HIDE DEF g, T
  <2> QED BY <2>1, <2>2 DEF Surjection
<1>2. IsFiniteSet(1..n) /\ Cardinality(1..n) = n
  BY FS_Interval
<1>3. IsFiniteSet(T) /\ Cardinality(T) <= Cardinality(1..n)
  <2> HIDE DEF g, T
  <2>1. Surjection(1..n, T) # {}
    BY <1>1
  <2> QED BY <2>1, <1>1, <1>2, FS_Surjection
<1>4. Cardinality(T) \in Nat
  BY <1>3, FS_CardinalityType
<1> QED BY <1>2, <1>3, <1>4

LEMMA NewIdIsNew ==
  ASSUME list \in Seq(ToSet(list)), listed \in Seq(ToSet(listed))
  PROVE  NewId \notin StashesThere
<1> DEFINE ids == {list[i].id : i \in 1..Len(list)}
           seen == {listed[i] : i \in 1..Len(listed)}
           L == Len(list) + Len(listed)
<1>1. /\ DOMAIN list = 1..Len(list) /\ DOMAIN listed = 1..Len(listed)
      /\ Len(list) \in Nat /\ Len(listed) \in Nat
  OBVIOUS
<1>2. IsFiniteSet(ids) /\ Cardinality(ids) \in Nat /\ Cardinality(ids) <= Len(list)
  <2> DEFINE f == [i \in 1..Len(list) |-> list[i].id]
  <2>1. DOMAIN f = 1..Len(list) /\ ids = {f[i] : i \in 1..Len(list)}
    OBVIOUS
  <2> HIDE DEF f, ids
  <2> QED BY <1>1, <2>1, FewElements
<1>3. IsFiniteSet(seen) /\ Cardinality(seen) \in Nat /\ Cardinality(seen) <= Len(listed)
  BY <1>1, FewElements
<1> HIDE DEF ids, seen
<1>4. IsFiniteSet(ids \cup seen) /\ Cardinality(ids \cup seen) \in Nat /\ Cardinality(ids \cup seen) <= L
  <2>1. /\ IsFiniteSet(ids \cup seen)
        /\ Cardinality(ids \cup seen) = Cardinality(ids) + Cardinality(seen) - Cardinality(ids \cap seen)
    BY <1>2, <1>3, FS_Union
  <2>2. Cardinality(ids \cap seen) \in Nat
    <3>1. ids \cap seen \in SUBSET ids
      OBVIOUS
    <3>2. IsFiniteSet(ids \cap seen)
      BY <3>1, <1>2, FS_Subset
    <3> QED BY <3>2, FS_CardinalityType
  <2>3. Cardinality(ids \cup seen) \in Nat
    BY <2>1, FS_CardinalityType
  <2> QED BY <1>1, <1>2, <1>3, <2>1, <2>2, <2>3
<1>5. \E n \in 1..(L + 1) : n \notin ids \cup seen
  <2> SUFFICES ASSUME 1..(L + 1) \subseteq ids \cup seen PROVE FALSE
    OBVIOUS
  <2>1. L \in Nat /\ 1..(L + 1) \in SUBSET (ids \cup seen)
    BY <1>1
  <2>2. Cardinality(1..(L + 1)) <= Cardinality(ids \cup seen)
    BY <2>1, <1>4, FS_Subset
  <2>3. Cardinality(1..(L + 1)) = L + 1
    <3>1. 1 \in Int /\ L + 1 \in Int /\ ~(1 > L + 1)
      BY <2>1
    <3>2. Cardinality(1..(L + 1)) = (L + 1) - 1 + 1
      BY <3>1, FS_Interval
    <3> QED BY <3>2, <2>1
  <2> QED BY <1>4, <2>1, <2>2, <2>3
<1>6. {list[i].id : i \in DOMAIN list} \cup ToSet(listed) = ids \cup seen /\ StashesThere = ids
  BY <1>1 DEF ToSet, StashesThere, ids, seen
<1>7. NewId = CHOOSE n \in 1..(L + 1) : n \notin ids \cup seen
  BY <1>6 DEF NewId
<1> QED BY <1>5, <1>6, <1>7

LEMMA PushFacts ==
  ASSUME list \in Seq(ToSet(list)), listed \in Seq(ToSet(listed)), Distinct(list),
         NEW new, new.id = NewId, Push(new)
  PROVE  list' \in Seq(ToSet(list')) /\ Distinct(list') /\ Len(list') = Len(list) + 1
<1>1. new.id = NewId
  OBVIOUS
<1>2. NewId \notin StashesThere
  BY NewIdIsNew
<1>3. list' = <<new>> \o list
  BY DEF Push
<1>4. PICK S : list \in Seq(S) /\ new \in S
  <2>1. list \in Seq(ToSet(list) \cup {new})
    OBVIOUS
  <2> QED BY <2>1
<1>5. /\ list' \in Seq(S) /\ Len(list') = Len(list) + 1 /\ Len(list) \in Nat
      /\ list'[1] = new /\ \A i \in 2..(Len(list) + 1) : list'[i] = list[i - 1]
  BY <1>3, <1>4
<1>6. list' \in Seq(ToSet(list'))
  BY <1>5, OwnElements
<1>7. Distinct(list')
  <2>1. DOMAIN list' = 1..(Len(list) + 1) /\ DOMAIN list = 1..Len(list)
    BY <1>4, <1>5
  <2> SUFFICES ASSUME NEW i \in 1..(Len(list) + 1), NEW j \in 1..(Len(list) + 1),
                      list'[i].id = list'[j].id
               PROVE  i = j
    BY <2>1 DEF Distinct
  <2>2. \A k \in 2..(Len(list) + 1) : k - 1 \in 1..Len(list) /\ list'[k].id \in StashesThere
    <3> SUFFICES ASSUME NEW k \in 2..(Len(list) + 1)
                 PROVE  k - 1 \in 1..Len(list) /\ list'[k].id \in StashesThere
      OBVIOUS
    <3>1. k - 1 \in 1..Len(list)
      BY <1>5
    <3>2. list'[k].id = list[k - 1].id
      BY <1>5
    <3> QED BY <3>1, <3>2, <2>1 DEF StashesThere
  <2>3. CASE i = 1
    <3>1. j = 1 \/ j \in 2..(Len(list) + 1)
      BY <1>5
    <3> QED BY <2>3, <3>1, <2>2, <1>1, <1>2, <1>5
  <2>4. CASE j = 1
    <3>1. i = 1 \/ i \in 2..(Len(list) + 1)
      BY <1>5
    <3> QED BY <2>4, <3>1, <2>2, <1>1, <1>2, <1>5
  <2>5. CASE i # 1 /\ j # 1
    <3>1. i \in 2..(Len(list) + 1) /\ j \in 2..(Len(list) + 1)
      BY <2>5, <1>5
    <3>2. list[i - 1].id = list[j - 1].id /\ i - 1 \in DOMAIN list /\ j - 1 \in DOMAIN list
      BY <3>1, <2>1, <2>2, <1>5
    <3>3. i - 1 = j - 1
      BY <3>2 DEF Distinct
    <3> QED BY <3>3, <3>1, <1>5
  <2> QED BY <2>3, <2>4, <2>5
<1> QED BY <1>5, <1>6, <1>7

(* The newest of a list is the one another tool drops. *)
LEMMA TailFacts ==
  ASSUME list \in Seq(ToSet(list)), Distinct(list), list # <<>>, list' = Tail(list)
  PROVE  list' \in Seq(ToSet(list')) /\ Distinct(list')
<1>1. PICK S : list \in Seq(S)
  OBVIOUS
<1>2. /\ list' \in Seq(S) /\ Len(list') = Len(list) - 1
      /\ \A i \in 1..Len(list') : list'[i] = list[i + 1]
  BY <1>1, HeadTailProperties
<1>3. /\ DOMAIN list = 1..Len(list) /\ DOMAIN list' = 1..Len(list')
      /\ Len(list) \in Nat /\ Len(list') \in Nat
  BY <1>1, <1>2
<1>4. list' \in Seq(ToSet(list'))
  BY <1>2, OwnElements
<1>5. \A i \in 1..Len(list') : i + 1 \in 1..Len(list)
  BY <1>2, <1>3
<1>6. Distinct(list')
  <2> SUFFICES ASSUME NEW i \in 1..Len(list'), NEW j \in 1..Len(list'), list'[i].id = list'[j].id
               PROVE  i = j
    BY <1>3 DEF Distinct
  <2>1. list[i + 1].id = list[j + 1].id
    BY <1>2
  <2>2. i + 1 = j + 1
    BY <2>1, <1>3, <1>5 DEF Distinct
  <2> QED BY <2>2, <1>3
<1> QED BY <1>4, <1>6

LEMMA StashListInit ==
  ASSUME StashInit
  PROVE  StashListInv
<1>1. list = <<>> /\ listed = <<>> /\ stashing.pc = "idle" /\ "pc" \in DOMAIN stashing
  BY DEF StashInit, None
<1>2. list \in Seq(ToSet(list)) /\ listed \in Seq(ToSet(listed)) /\ DOMAIN list = {}
  BY <1>1
<1> QED BY <1>1, <1>2 DEF StashListInv, Distinct

(* A save adds a stash of its own, or none, and is no drop. *)
LEMMA SaveFacts ==
  ASSUME StashListInv, NEW keep, NEW untracked, NEW pick, Save(keep, untracked, pick)
  PROVE  /\ StashListInv'
         /\ list' = list \/ Len(list') = Len(list) + 1
<1>1. listed' = listed
  BY DEF Save
<1>2. list' = list \/ \E new : new.id = NewId /\ Push(new)
  BY DEF Save, PathStash, WholeStash
<1>3. stashing'.pc \in {"idle", "untracked"} /\ "pc" \in DOMAIN stashing'
  BY DEF Save, Begins, None
<1>4. /\ list' \in Seq(ToSet(list')) /\ Distinct(list')
      /\ list' = list \/ Len(list') = Len(list) + 1
  <2>1. CASE list' = list
    BY <2>1 DEF StashListInv, Distinct, ToSet
  <2>2. CASE list' # list
    <3>1. PICK new : new.id = NewId /\ Push(new)
      BY <2>2, <1>2
    <3> QED BY <3>1, PushFacts DEF StashListInv
  <2> QED BY <2>1, <2>2
<1>5. listed' \in Seq(ToSet(listed'))
  BY <1>1 DEF StashListInv, ToSet
<1> QED BY <1>3, <1>4, <1>5 DEF StashListInv

(* A pop is about to drop the stash it applied, which left no conflict. *)
LEMMA ApplyFacts ==
  ASSUME StashListInv, NEW kind \in {"apply", "pop"}, NEW restore \in BOOLEAN,
         NEW at \in DOMAIN listed, Apply(kind, at, restore)
  PROVE  StashListInv' /\ list' = list
<1> DEFINE operation ==
             [None EXCEPT !.kind = kind, !.restore = restore, !.at = at, !.id = listed[at]]
           index == AppliedIndex(list[at], restore)
<1>1. list' = list /\ listed' = listed
  BY DEF Apply
<1>2. /\ operation.kind = kind /\ operation.at = at /\ operation.id = listed[at]
      /\ operation.pc = "idle"
      /\ \A o : /\ [operation EXCEPT !.outcome = o].pc = "idle"
               /\ "pc" \in DOMAIN [operation EXCEPT !.outcome = o]
      /\ "pc" \in DOMAIN [operation EXCEPT !.pc = "drop"]
      /\ [operation EXCEPT !.pc = "drop"].kind = kind /\ [operation EXCEPT !.pc = "drop"].at = at
      /\ [operation EXCEPT !.pc = "drop"].id = listed[at]
  BY DEF None
<1>3. \/ \E o : stashing' = [operation EXCEPT !.outcome = o]
      \/ /\ stashing' = [operation EXCEPT !.pc = "drop"] /\ IsListed(at)
         /\ kind = "pop" /\ ~Conflicted(index) /\ idx' = index
  BY DEF Apply, Begins, KeepsAfter
<1> HIDE DEF operation, index
<1>4. CASE \E o : stashing' = [operation EXCEPT !.outcome = o]
  <2>1. stashing'.pc = "idle" /\ "pc" \in DOMAIN stashing'
    BY <1>2, <1>4
  <2> QED BY <2>1, <1>1 DEF StashListInv, Distinct, ToSet
<1>5. CASE /\ stashing' = [operation EXCEPT !.pc = "drop"] /\ IsListed(at)
           /\ kind = "pop" /\ ~Conflicted(index) /\ idx' = index
  <2>1. at \in Nat \ {0}
    <3>1. DOMAIN listed = 1..Len(listed)
      BY DEF StashListInv
    <3> QED BY <3>1
  <2>2. at <= Len(list) /\ list[at].id = listed[at]
    BY <1>5 DEF IsListed
  <2>3. /\ stashing'.kind = "pop" /\ stashing'.at = at /\ stashing'.id = listed[at]
        /\ "pc" \in DOMAIN stashing'
    BY <1>2, <1>5
  <2>4. ~Conflicted(idx')
    BY <1>5
  <2>5. ~Conflicted(idx)'
    BY <2>4 DEF Conflicted
  <2> QED BY <2>1, <2>2, <2>3, <2>5, <1>1 DEF StashListInv, Distinct, ToSet
<1> QED BY <1>1, <1>3, <1>4, <1>5

LEMMA AtRestAgain ==
  ASSUME NEW outcome, stashing.pc = "drop", StashListInv,
         stashing' = [stashing EXCEPT !.pc = "idle", !.outcome = outcome]
  PROVE  /\ stashing'.pc # "drop" /\ stashing'.id = stashing.id
         /\ "pc" \in DOMAIN stashing'
BY DEF StashListInv

(* The step that ends a pop takes the stash it applied from the list. *)
LEMMA DropAfterPopFacts ==
  ASSUME StashListInv, DropAfterPop
  PROVE  /\ StashListInv'
         /\ ~raced => /\ StashesThere \ StashesThere' = {stashing'.id}
                      /\ ~Conflicted(idx')
<1>1. /\ stashing.pc = "drop" /\ listed' = listed /\ idx' = idx
      /\ list' = IF stashing.at <= Len(list) THEN RemoveAt(list, stashing.at) ELSE list
      /\ stashing' = [stashing EXCEPT !.pc = "idle", !.outcome = "done"]
  BY DEF DropAfterPop, Ends
<1>2. stashing.at \in Nat \ {0} /\ Len(list) \in Nat
  BY <1>1 DEF StashListInv
<1>3. CASE stashing.at <= Len(list)
  <2>1. stashing.at \in 1..Len(list)
    BY <1>2, <1>3
  <2>2. list' = RemoveAt(list, stashing.at)
    BY <1>1, <1>3
  <2>3. /\ list' \in Seq(ToSet(list')) /\ Distinct(list')
        /\ StashesThere \ StashesThere' = {list[stashing.at].id}
    BY <2>1, <2>2, DropFacts DEF StashListInv
  <2> QED BY <2>3, <1>1, AtRestAgain DEF StashListInv
<1>4. CASE ~(stashing.at <= Len(list))
  <2>1. raced /\ list' = list
    BY <1>1, <1>4 DEF StashListInv
  <2> QED BY <2>1, <1>1, AtRestAgain DEF StashListInv, Distinct, ToSet
<1> QED BY <1>3, <1>4

(* Dropping a stash of the list the user saw takes that one. *)
LEMMA DropStepFacts ==
  ASSUME StashListInv, NEW at \in DOMAIN listed, Drop(at)
  PROVE  /\ StashListInv'
         /\ \/ list' = list
            \/ StashesThere \ StashesThere' = {stashing'.id} /\ stashing'.kind = "drop"
<1>1. /\ listed' = listed
      /\ list' = IF IsListed(at) THEN RemoveAt(list, at) ELSE list
      /\ stashing' = [None EXCEPT !.kind = "drop", !.at = at, !.id = listed[at],
                          !.outcome = IF IsListed(at) THEN "done" ELSE "refused"]
  BY DEF Drop, Begins
<1>2. /\ stashing'.pc = "idle" /\ stashing'.kind = "drop" /\ stashing'.id = listed[at]
      /\ "pc" \in DOMAIN stashing'
  BY <1>1 DEF None
<1>3. CASE IsListed(at)
  <2>1. at \in 1..Len(list)
    <3>1. DOMAIN listed = 1..Len(listed) /\ Len(list) \in Nat
      BY DEF StashListInv
    <3> QED BY <3>1, <1>3 DEF IsListed
  <2>2. /\ list' \in Seq(ToSet(list')) /\ Distinct(list')
        /\ StashesThere \ StashesThere' = {list[at].id}
    BY <2>1, <1>1, <1>3, DropFacts DEF StashListInv
  <2> QED BY <2>2, <1>1, <1>2, <1>3 DEF StashListInv, IsListed, ToSet
<1>4. CASE ~IsListed(at)
  <2>1. list' = list
    BY <1>1, <1>4
  <2> QED BY <2>1, <1>1, <1>2 DEF StashListInv, Distinct, ToSet
<1> QED BY <1>3, <1>4

LEMMA ListsFacts ==
  ASSUME StashListInv, Lists
  PROVE  StashListInv' /\ list' = list
<1>1. /\ list' = list /\ stashing' = stashing /\ stashing.pc = "idle"
      /\ listed' = [i \in DOMAIN list |-> list[i].id]
  BY DEF Lists
<1>2. listed' \in Seq(ToSet(listed'))
  <2>1. DOMAIN list = 1..Len(list) /\ Len(list) \in Nat
    BY DEF StashListInv
  <2>2. PICK n \in Nat : listed' = [i \in 1..n |-> list[i].id]
    BY <1>1, <2>1
  <2>3. PICK S : S = {list[i].id : i \in 1..n}
    OBVIOUS
  <2>5. listed' \in [1..n -> S]
    BY <2>2, <2>3
  <2>4. listed' \in Seq(S)
    BY <2>5, SeqDef, Zenon
  <2> QED BY <2>4, OwnElements
<1> QED BY <1>1, <1>2 DEF StashListInv, Distinct, ToSet

LEMMA OtherToolFacts ==
  ASSUME StashListInv, OtherTool
  PROVE  StashListInv' /\ stashing' = stashing
<1>1. /\ listed' = listed /\ stashing' = stashing /\ idx' = idx
      /\ raced' = (stashing.pc = "drop")
      /\ \/ \E new : new.id = NewId /\ Push(new)
         \/ list # <<>> /\ list' = Tail(list)
  BY DEF OtherTool
<1>2. list' \in Seq(ToSet(list')) /\ Distinct(list')
  BY <1>1, PushFacts, TailFacts DEF StashListInv
<1> QED BY <1>1, <1>2 DEF StashListInv, Conflicted, ToSet

(* The other steps leave the list alone and reach no drop. *)
LEMMA OtherStepsFacts ==
  ASSUME StashListInv, RemoveUntracked \/ ClearLeafLinks \/ CheckOut \/ Stops \/ Meanwhile
  PROVE  StashListInv' /\ list' = list
<1>1. list' = list /\ listed' = listed
  BY DEF RemoveUntracked, ClearLeafLinks, CheckOut, Stops, Meanwhile
<1>2. \/ stashing' = stashing /\ stashing.pc = "idle"
      \/ \E pc \in {"links", "checkout"} : stashing' = [stashing EXCEPT !.pc = pc]
      \/ \E outcome : stashing' = [stashing EXCEPT !.pc = "idle", !.outcome = outcome]
  BY DEF RemoveUntracked, ClearLeafLinks, CheckOut, Stops, Meanwhile, Ends
<1>3. stashing.pc \in {"idle", "untracked", "links", "checkout"}
  BY DEF RemoveUntracked, ClearLeafLinks, CheckOut, Stops, Meanwhile
<1>4. stashing'.pc # "drop" /\ "pc" \in DOMAIN stashing'
  <2>1. CASE stashing' = stashing /\ stashing.pc = "idle"
    BY <2>1 DEF StashListInv
  <2>2. CASE \E pc \in {"links", "checkout"} : stashing' = [stashing EXCEPT !.pc = pc]
    BY <2>2 DEF StashListInv
  <2>3. CASE \E outcome : stashing' = [stashing EXCEPT !.pc = "idle", !.outcome = outcome]
    BY <2>3 DEF StashListInv
  <2> QED BY <1>2, <2>1, <2>2, <2>3
<1> QED BY <1>1, <1>4 DEF StashListInv, Distinct, ToSet

LEMMA StashListStep ==
  ASSUME StashListInv, [StashNext]_stashVars
  PROVE  /\ StashListInv'
         /\ stashing' # stashing /\ Len(list') < Len(list) /\ ~raced =>
              /\ StashesThere \ StashesThere' = {stashing'.id}
              /\ stashing'.kind = "pop" => ~Conflicted(idx')
<1>1. Len(list) \in Nat
  BY DEF StashListInv
<1>2. ASSUME NEW keep \in BOOLEAN, NEW untracked \in BOOLEAN, NEW pick \in Picks,
             Save(keep, untracked, pick)
      PROVE  StashListInv' /\ ~(Len(list') < Len(list))
  <2>1. StashListInv' /\ (list' = list \/ Len(list') = Len(list) + 1)
    BY <1>2, SaveFacts
  <2> QED BY <2>1, <1>1
<1>3. ASSUME NEW kind \in {"apply", "pop"}, NEW restore \in BOOLEAN, NEW at \in DOMAIN listed,
             Apply(kind, at, restore)
      PROVE  StashListInv' /\ ~(Len(list') < Len(list))
  BY <1>1, <1>3, ApplyFacts
<1>4. ASSUME NEW at \in DOMAIN listed, Drop(at)
      PROVE  /\ StashListInv'
             /\ Len(list') < Len(list) => /\ StashesThere \ StashesThere' = {stashing'.id}
                                          /\ stashing'.kind # "pop"
  BY <1>1, <1>4, DropStepFacts
<1>5. CASE RemoveUntracked \/ ClearLeafLinks \/ CheckOut \/ Stops \/ Meanwhile
  BY <1>1, <1>5, OtherStepsFacts
<1>6. CASE DropAfterPop
  BY <1>6, DropAfterPopFacts
<1>7. CASE Lists
  BY <1>1, <1>7, ListsFacts
<1>8. CASE OtherTool
  BY <1>8, OtherToolFacts
<1>9. CASE UNCHANGED stashVars
  BY <1>1, <1>9 DEF stashVars, StashListInv, Distinct, Conflicted, ToSet
<1> QED BY <1>2, <1>3, <1>4, <1>5, <1>6, <1>7, <1>8, <1>9 DEF StashNext

LEMMA ChangesStepsOfStash == [ChangesNext]_changeVars => [StashNext]_stashVars
BY DEF ChangesNext, changeVars

(* Whatever stashes are saved, applied, popped and dropped, and whatever another tool does to *)
(* the list in between, only the stash the user chose in the list he saw is dropped, and by a *)
(* pop only once it left no conflict, unless the list is changed within the pop itself        *)
(* (ensure_stash_at, pop_stash, drop_stash).                                                 *)
THEOREM OnlyTheChosenEverIsDropped == ChangesSpec => OnlyTheChosenIsDropped
<1> DEFINE TakesTheChosen ==
      stashing' # stashing /\ Len(list') < Len(list) /\ ~raced =>
        /\ StashesThere \ StashesThere' = {stashing'.id}
        /\ stashing'.kind = "pop" => ~Conflicted(idx')
<1>1. ChangesInit => StashListInv
  BY StashListInit DEF ChangesInit, StashAtRest
<1>2. StashListInv /\ [ChangesNext]_changeVars => StashListInv'
  BY StashListStep, ChangesStepsOfStash
<1>3. StashListInv /\ [ChangesNext]_changeVars => [TakesTheChosen]_stashVars
  BY StashListStep, ChangesStepsOfStash
<1> QED BY <1>1, <1>2, <1>3, PTL DEF ChangesSpec, OnlyTheChosenIsDropped

-----------------------------------------------------------------------------
(* What a stash gives back *)

AtSave == saved.there
PickedOnes == stashing.sel.tracked
NewOnes == stashing.sel.untracked

(* A stash holds an entry. *)
InStash(s, p, e) == e \in {s.work[p], s.untracked[p], s.index[p]}

(* What there was of a path is there, or in the stash.  *)
StillHeld(s, p) ==
  /\ Has(AtSave.wt, p) => wt[p] = AtSave.wt[p] \/ InStash(s, p, AtSave.wt[p]) \/ PassedOver(AtSave, p)
  /\ Has(AtSave.idx, p) =>
       idx[p] = AtSave.idx[p] \/ InStash(s, p, AtSave.idx[p]) \/ AtSave.idx[p] = top[p] \/ Displaced(p)

(* What an apply to HEAD makes of a path is what there was. *)
Gives(s, p) ==
  /\ Has(s.untracked, p) =>
       s.untracked[p] = AtSave.wt[p] /\ ~Has(top, p) /\ ~Has(s.work, p) /\ ~IsIgnored(p)
  /\ ~Has(s.untracked, p) /\ s.work[p] # top[p] =>
       s.work[p] = AtSave.wt[p] /\ (Has(top, p) \/ ~Has(wt, p))
  /\ ~Has(s.untracked, p) /\ s.work[p] = top[p] => wt[p] = AtSave.wt[p] \/ PassedOver(AtSave, p)
  /\ s.index[p] = AtSave.idx[p] \/ Displaced(p)

(* A stash of some paths, and what its checks have found out about them. *)
PathSaved(s) ==
  /\ PickedOnes \subseteq StashPaths /\ NewOnes \subseteq StashPaths /\ stashing.sel = saved.sel
  /\ IsTree(top)
  /\ \A p \in StashPaths :
       /\ s.index[p] = IF p \in PickedOnes THEN AtSave.idx[p] ELSE top[p]
       /\ s.work[p] = IF p \in PickedOnes THEN Unrepo(AtSave.wt[p]) ELSE top[p]
       /\ s.untracked[p] = IF p \in NewOnes THEN Unrepo(AtSave.wt[p]) ELSE "none"
       /\ AtSave.wt[p] = "repo" => ~IsDir(AtSave.idx, p) /\ ~IsDir(top, p)
       /\ AtSave.idx[p] # "repo"
  /\ \A p \in PickedOnes :
       /\ AtSave.idx[p] # top[p] \/ (Has(AtSave.idx, p) /\ AtSave.wt[p] # AtSave.idx[p])
       /\ IsDir(AtSave.wt, p) \/ AtSave.wt[p] = "repo" =>
            ~Has(IF stashing.keep THEN AtSave.idx ELSE top, p)
       /\ \A f \in Holders(p) : /\ Plain(AtSave.wt[f]) => f \in NewOnes
                                /\ AtSave.wt[f] # "link"
       /\ \A q \in Held(p) :
            \/ q \in PickedOnes
            \/ AtSave.idx[q] = top[q] /\ (Has(AtSave.idx, q) => AtSave.wt[q] = AtSave.idx[q])
            \/ ~Has(AtSave.idx, q) /\ ~Has(top, q)
  /\ \A p \in NewOnes :
       /\ ~Has(AtSave.idx, p) /\ ~Has(top, p) /\ AtSave.wt[p] \notin {"none", "repo"} /\ ~IsIgnored(p)
       /\ \A f \in Holders(p) : AtSave.wt[f] # "link"

(* How far the revert is. *)
Reverted(p) ==
  wt[p] = IF \/ stashing.pc # "untracked" /\ p \in NewOnes
             \/ stashing.pc = "checkout" /\ p \in PickedOnes /\ AtSave.wt[p] = "link"
          THEN "none" ELSE AtSave.wt[p]

Reverting == {"untracked", "links", "checkout"}

SaveOK ==
  /\ stashing.pc \in Reverting \cup {"idle"}
  /\ top = AtSave.top /\ AtSave.list = <<>> /\ was = AtSave
  /\ list = <<>> => stashing.pc = "idle" /\ wt = AtSave.wt /\ idx = AtSave.idx
  /\ list # <<>> =>
       /\ list = <<list[1]>> /\ list[1].base = top
       /\ \A p \in StashPaths : StillHeld(list[1], p)
       /\ idx = top => \A p \in StashPaths : Gives(list[1], p)
  /\ stashing.pc \in Reverting =>
       /\ list # <<>> /\ PathSaved(list[1]) /\ idx = AtSave.idx
       /\ \A p \in StashPaths : Reverted(p)

(* The stash a pop applied is about to be dropped. *)
DropOK ==
  /\ list # <<>> /\ list = <<list[1]>> /\ list[1].base = top /\ was.list = list /\ was.top = top
  /\ \A p \in StashPaths :
       /\ Has(list[1].work, p) => list[1].work[p] \in {wt[p], top[p]}
       /\ Has(list[1].untracked, p) => list[1].untracked[p] \in {wt[p], top[p]}
       /\ stashing.restore => idx[p] = list[1].index[p]
       /\ Has(was.wt, p) => was.wt[p] \in {wt[p], top[p]} \/ wt[p] = "marked"
       /\ was.idx[p] = top[p]
       /\ wt[p] = AtSave.wt[p] \/ PassedOver(AtSave, p)
       /\ stashing.restore => idx[p] = AtSave.idx[p] \/ Displaced(p)

StashFields == {"kind", "pc", "outcome", "keep", "id", "restore", "at", "sel"}

GivesInv ==
  /\ ~wroteBeyond
  /\ stashing.kind \in {"none", "save", "apply", "pop", "drop"}
  /\ DOMAIN stashing = StashFields /\ DOMAIN saved = {"there", "sel", "since"}
  /\ stashing.kind = "none" =>
       /\ stashing.pc = "idle" /\ list = <<>>
       /\ \A p \in StashPaths : wt[p] = "repo" => ~IsDir(top, p) /\ ~IsDir(idx, p)
       /\ IsTree(top)
  /\ stashing.pc \in Reverting => stashing.kind = "save"
  /\ stashing.pc = "drop" => stashing.kind = "pop"
  /\ stashing.kind = "save" /\ ~saved.since => SaveOK
  /\ stashing.pc = "drop" /\ ~saved.since => DropOK
  /\ StashGivesBack

LEMMA HolderFacts ==
  ASSUME NEW p \in StashPaths
  PROVE  /\ Holders(p) \subseteq StashPaths /\ Held(p) \subseteq StashPaths
         /\ \A f \in Holders(p) : Holders(f) = {} /\ p \in Held(f)
         /\ \A q \in Held(p) : Holders(q) = {p} /\ Held(q) = {}
BY StashAssumption DEF Holders, Held

(* Where Stash all takes libgit2's way, what a reset takes out of the work tree is in the       *)
(* stash.                                                                                    *)
LEMMA ChecksOfWhole ==
  ASSUME NEW keep \in BOOLEAN, NEW untracked \in BOOLEAN,
         ~InTheWay(keep, untracked), ~OwnWay(untracked), NEW p \in StashPaths
  PROVE  /\ ~(IndexDeleted(p) /\ WtNew(p))
         /\ Has(top, p) => ~IgnoredOverwritten(p)
         /\ IgnoredEntry(p) \/ NewRepo(p) \/ (~untracked /\ Untracked(p) /\ wt[p] # "link") =>
              /\ wt[p] = "repo" => ~Has(top, p) /\ ~(keep /\ Has(idx, p))
              /\ wt[p] # "repo" => ~IsDir(top, p) /\ ~(keep /\ IsDir(idx, p))
              /\ \A f \in Holders(p) : ~Has(top, f) /\ ~(keep /\ Has(idx, f))
         /\ wt[p] = "link" => ~IsDir(top, p) /\ ~IsDir(idx, p)
         /\ untracked /\ (IgnoredEntry(p) \/ NewRepo(p)) =>
              \A f \in Holders(p) : ~TakenWhole(f, top) /\ ~TakenWhole(f, idx)
<1>1. \A q \in StashPaths : ~(IndexDeleted(q) /\ WtNew(q))
  BY DEF OwnWay, EditRemovedFromIndex
<1>2. Has(top, p) => ~IgnoredOverwritten(p)
  BY DEF InTheWay
<1>3. IgnoredEntry(p) \/ NewRepo(p) \/ (~untracked /\ Untracked(p) /\ wt[p] # "link") =>
              /\ wt[p] = "repo" => ~Has(top, p) /\ ~(keep /\ Has(idx, p))
              /\ wt[p] # "repo" => ~IsDir(top, p) /\ ~(keep /\ IsDir(idx, p))
              /\ \A f \in Holders(p) : ~Has(top, f) /\ ~(keep /\ Has(idx, f))
  BY DEF InTheWay, IsDir
<1>4. wt[p] = "link" => ~IsDir(top, p) /\ ~IsDir(idx, p)
  BY DEF OwnWay, HasHazard
<1>5. ASSUME untracked, IgnoredEntry(p) \/ NewRepo(p), NEW f \in Holders(p)
      PROVE  ~TakenWhole(f, top) /\ ~TakenWhole(f, idx)
  <2>1. SUFFICES ASSUME NEW u \in Held(f), WtNew(u), ~IsDir(idx, f)
                 PROVE  FALSE
    BY DEF TakenWhole
  <2>2. u \in StashPaths
    BY DEF Held
  <2>3. Untracked(u)
    BY <1>1, <2>1, <2>2 DEF Untracked, IndexDeleted, WtNew
  <2>4. KeptInUntrackedFolder
    BY <1>5, <2>1, <2>3 DEF KeptInUntrackedFolder, IsDir
  <2> QED BY <1>5, <2>4 DEF OwnWay
<1> QED BY <1>1, <1>2, <1>3, <1>4, <1>5

LEMMA WholeKeeps ==
  ASSUME NEW keep \in BOOLEAN, NEW untracked \in BOOLEAN,
         ~InTheWay(keep, untracked), ~OwnWay(untracked), NEW p \in StashPaths, Has(wt, p),
         wt[p] = "repo" => ~IsDir(top, p) /\ ~IsDir(idx, p)
  PROVE  \/ ResetTo(IF keep THEN idx ELSE top, untracked)[p] = wt[p]
         \/ InStash(WholeStash(untracked), p, wt[p])
         \/ PassedOver(There, p)
<1> DEFINE target == IF keep THEN idx ELSE top
           w == ResetTo(target, untracked)[p]
<1>1. w = IF Has(target, p) THEN target[p]
          ELSE IF \/ IsDir(target, p) \/ \E f \in Holders(p) : Has(target, f)
                  \/ wt[p] # "repo" /\ (Has(idx, p) \/ Has(top, p))
                  \/ untracked /\ (WtNew(p) \/ \E f \in Holders(p) : TakenWhole(f, target))
          THEN "none" ELSE wt[p]
  BY DEF ResetTo
<1>2. /\ WholeStash(untracked).work[p] =
             IF Has(idx, p) THEN Unrepo(wt[p])
             ELSE IF IndexDeleted(p) /\ WtNew(p) /\ \A f \in Holders(p) : IsDir(idx, f)
             THEN wt[p] ELSE "none"
      /\ WholeStash(untracked).untracked[p] = IF untracked /\ WtNew(p) THEN wt[p] ELSE "none"
  BY DEF WholeStash
<1>3. CASE wt[p] = "repo"
  <2>1. IgnoredEntry(p) \/ NewRepo(p)
    BY <1>3 DEF IgnoredEntry, NewRepo
  <2>2. ~Has(target, p) /\ ~IsDir(target, p) /\ \A f \in Holders(p) : ~Has(target, f)
    BY <1>3, <2>1, ChecksOfWhole
  <2>3. ~(untracked /\ \E f \in Holders(p) : TakenWhole(f, target))
    BY <2>1, ChecksOfWhole
  <2>4. ~WtNew(p)
    BY <1>3 DEF WtNew
  <2> QED BY <1>1, <1>3, <2>2, <2>3, <2>4
<1>4. CASE wt[p] # "repo" /\ Has(idx, p)
  BY <1>2, <1>4 DEF InStash, Unrepo
<1>5. CASE wt[p] # "repo" /\ ~Has(idx, p) /\ ~IsIgnored(p)
  <2>1. WtNew(p) /\ ~Has(top, p)
    BY <1>5, ChecksOfWhole DEF WtNew, IndexDeleted, Has
  <2>2. CASE untracked
    BY <1>2, <2>1, <2>2 DEF InStash
  <2>3. CASE ~untracked
    <3>1. Untracked(p) /\ ~Has(target, p)
      BY <1>5, <2>1 DEF Untracked
    <3>2. ~IsDir(target, p)
      BY <1>5, <2>3, <3>1, ChecksOfWhole
    <3>3. (\E f \in Holders(p) : Has(target, f)) => PassedOver(There, p)
      BY <2>3, <3>1, ChecksOfWhole DEF PassedOver, There
    <3> QED BY <1>1, <1>5, <2>1, <2>3, <3>1, <3>2, <3>3
  <2> QED BY <2>2, <2>3
<1>6. CASE wt[p] # "repo" /\ ~Has(idx, p) /\ IsIgnored(p)
  <2>1. ~Has(top, p)
    BY <1>6, ChecksOfWhole DEF IgnoredOverwritten, IndexDeleted, WtNew, Has
  <2>2. IgnoredEntry(p) /\ ~WtNew(p) /\ ~Has(target, p)
    BY <1>6, <2>1 DEF IgnoredEntry, WtNew
  <2>3. ~IsDir(target, p) /\ \A f \in Holders(p) : ~Has(target, f)
    BY <1>6, <2>2, ChecksOfWhole
  <2>4. ~(untracked /\ \E f \in Holders(p) : TakenWhole(f, target))
    BY <2>2, ChecksOfWhole
  <2> QED BY <1>1, <1>6, <2>1, <2>2, <2>3, <2>4
<1> QED BY <1>3, <1>4, <1>5, <1>6

(* And a pop on HEAD gives back what there was. *)
LEMMA WholeGives ==
  ASSUME NEW keep \in BOOLEAN, NEW untracked \in BOOLEAN,
         ~InTheWay(keep, untracked), ~OwnWay(untracked), NEW p \in StashPaths,
         wt[p] = "repo" => ~IsDir(top, p) /\ ~IsDir(idx, p),
         (IF keep THEN idx ELSE top) = top
  PROVE  LET s == WholeStash(untracked)
             w == ResetTo(top, untracked)[p]
         IN  /\ Has(s.untracked, p) =>
                  s.untracked[p] = wt[p] /\ ~Has(top, p) /\ ~Has(s.work, p) /\ ~IsIgnored(p)
             /\ ~Has(s.untracked, p) /\ s.work[p] # top[p] =>
                  s.work[p] = wt[p] /\ (Has(top, p) \/ w = "none")
             /\ ~Has(s.untracked, p) /\ s.work[p] = top[p] => w = wt[p] \/ PassedOver(There, p)
<1> DEFINE s == WholeStash(untracked)
           w == ResetTo(top, untracked)[p]
<1>1. w = IF Has(top, p) THEN top[p]
          ELSE IF \/ IsDir(top, p) \/ \E f \in Holders(p) : Has(top, f)
                  \/ wt[p] # "repo" /\ (Has(idx, p) \/ Has(top, p))
                  \/ untracked /\ (WtNew(p) \/ \E f \in Holders(p) : TakenWhole(f, top))
          THEN "none" ELSE wt[p]
  BY DEF ResetTo
<1>2. /\ s.work[p] = IF Has(idx, p) THEN Unrepo(wt[p]) ELSE "none"
      /\ s.untracked[p] = IF untracked /\ WtNew(p) THEN wt[p] ELSE "none"
  BY ChecksOfWhole DEF WholeStash
<1> HIDE DEF s, w
<1>3. ~Has(idx, p) /\ Has(top, p) => wt[p] = "none"
  <2>1. SUFFICES ASSUME ~Has(idx, p), Has(top, p), wt[p] # "none" PROVE FALSE
    OBVIOUS
  <2>2. CASE wt[p] = "repo"
    BY <2>1, <2>2, ChecksOfWhole DEF IgnoredEntry, NewRepo
  <2>3. CASE wt[p] # "repo"
    BY <2>1, <2>3, ChecksOfWhole DEF IgnoredOverwritten, IndexDeleted
  <2> QED BY <2>2, <2>3
<1>4. Has(s.untracked, p) => s.untracked[p] = wt[p] /\ ~Has(top, p) /\ ~Has(s.work, p) /\ ~IsIgnored(p)
  BY <1>2, ChecksOfWhole DEF WtNew, IndexDeleted, Has
<1>5. ASSUME ~Has(s.untracked, p), s.work[p] # top[p]
      PROVE  s.work[p] = wt[p] /\ (Has(top, p) \/ w = "none")
  <2>1. CASE Has(idx, p) /\ wt[p] = "repo"
    BY <1>2, <1>5, <2>1, ChecksOfWhole DEF IgnoredEntry, NewRepo, Unrepo, Has
  <2>2. CASE Has(idx, p) /\ wt[p] # "repo"
    BY <1>1, <1>2, <2>2 DEF Unrepo
  <2>3. CASE ~Has(idx, p)
    BY <1>2, <1>3, <1>5, <2>3 DEF Has
  <2> QED BY <2>1, <2>2, <2>3
<1>6. ASSUME ~Has(s.untracked, p), s.work[p] = top[p]
      PROVE  w = wt[p] \/ PassedOver(There, p)
  <2>1. CASE Has(top, p)
    <3>1. w = top[p]
      BY <1>1, <2>1 DEF Has
    <3>2. Has(idx, p)
      BY <1>2, <1>6, <2>1 DEF Has
    <3>3. Unrepo(wt[p]) = top[p] /\ top[p] # "none"
      BY <1>2, <1>6, <2>1, <3>2 DEF Has
    <3> QED BY <3>1, <3>3 DEF Unrepo
  <2>2. CASE ~Has(top, p) /\ ~Has(wt, p)
    <3>1. w = "none" \/ w = wt[p]
      BY <1>1, <2>2
    <3> QED BY <2>2, <3>1 DEF Has
  <2>3. CASE ~Has(top, p) /\ Has(wt, p)
    <3>1. ~InStash(s, p, wt[p]) \/ s.index[p] = wt[p]
      BY <1>6, <2>3 DEF InStash, Has
    <3>2. CASE ~Has(idx, p) \/ wt[p] = "repo"
      <4>1. w = wt[p] \/ wt[p] \in {s.work[p], s.untracked[p], idx[p]} \/ PassedOver(There, p)
        BY <2>3, WholeKeeps DEF InStash, WholeStash, s, w
      <4>2. wt[p] # s.work[p] /\ wt[p] # s.untracked[p]
        BY <1>6, <2>3 DEF Has
      <4>3. CASE ~Has(idx, p)
        BY <4>1, <4>2, <4>3, <2>3 DEF Has
      <4>4. CASE Has(idx, p) /\ wt[p] = "repo"
        <5>1. IgnoredEntry(p) \/ NewRepo(p)
          BY <4>4 DEF IgnoredEntry, NewRepo
        <5>2. ~IsDir(top, p) /\ \A f \in Holders(p) : ~Has(top, f)
          BY <4>4, <5>1, ChecksOfWhole
        <5>3. ~(untracked /\ (WtNew(p) \/ \E f \in Holders(p) : TakenWhole(f, top)))
          BY <4>4, <5>1, ChecksOfWhole DEF WtNew
        <5> QED BY <1>1, <2>3, <4>4, <5>2, <5>3
      <4> QED BY <3>2, <4>3, <4>4
    <3>3. CASE Has(idx, p) /\ wt[p] # "repo"
      BY <1>2, <1>6, <2>3, <3>3 DEF Unrepo, Has
    <3> QED BY <3>2, <3>3
  <2> QED BY <2>1, <2>2, <2>3
<1> QED BY <1>4, <1>5, <1>6 DEF s, w

(* While the stash stands as saved, nothing is lost. *)
LEMMA SavedIsEnough ==
  ASSUME SaveOK', stashing'.kind = "save", ~wroteBeyond'
  PROVE  StashGivesBack'
<1>1. BackAsItWas'
  BY DEF BackAsItWas
<1>2. SUFFICES ASSUME NEW c \in Entries(was'.wt) \cup Entries(was'.idx)
               PROVE  \/ c \in (Entries(wt) \cup Entries(idx) \cup Stashed(list) \cup Entries(top))'
                      \/ PassedOver(was', c[1])
                      \/ Displaced(c[1])' /\ c \notin Entries(was'.wt)
  <2>1. Stashed(was'.list) = {}
    BY DEF SaveOK, Stashed
  <2> QED BY <1>1, <1>2, <2>1 DEF StashGivesBack, NothingIsLost
<1>3. was' = AtSave' /\ AtSave'.top = top'
  BY DEF SaveOK
<1>4. CASE list' = <<>>
  BY <1>3, <1>4 DEF SaveOK
<1>5. CASE list' # <<>>
  <2>0. PICK s : s = list'[1]
    OBVIOUS
  <2>1. list' = <<s>> /\ s.base = top' /\ \A p \in StashPaths : StillHeld(s, p)'
    BY <1>5, <2>0 DEF SaveOK, StillHeld
  <2>2. Changes(s) \subseteq Stashed(list') \cup Entries(top')
    BY <2>1 DEF Stashed
  <2>3. ASSUME NEW p \in StashPaths, NEW e, e # "none", InStash(s, p, e)
        PROVE  <<p, e>> \in Changes(s)
    BY <2>3 DEF InStash, Changes, Entries, Has
  <2>4. CASE c \in Entries(was'.wt)
    <3>1. PICK p \in StashPaths : Has(was'.wt, p) /\ c = <<p, was'.wt[p]>>
      BY <2>4 DEF Entries
    <3>2. \/ wt'[p] = was'.wt[p] \/ InStash(s, p, was'.wt[p]) \/ PassedOver(was', p)
      BY <1>3, <2>1, <3>1 DEF StillHeld
    <3>3. wt'[p] = was'.wt[p] => c \in Entries(wt')
      BY <3>1 DEF Entries, Has
    <3>4. InStash(s, p, was'.wt[p]) => c \in Changes(s)
      BY <2>3, <3>1 DEF Has
    <3> QED BY <2>2, <3>1, <3>2, <3>3, <3>4
  <2>5. CASE c \in Entries(was'.idx) \ Entries(was'.wt)
    <3>1. PICK p \in StashPaths : Has(was'.idx, p) /\ c = <<p, was'.idx[p]>>
      BY <2>5 DEF Entries
    <3>2. \/ idx'[p] = was'.idx[p] \/ InStash(s, p, was'.idx[p]) \/ was'.idx[p] = top'[p]
          \/ Displaced(p)'
      BY <1>3, <2>1, <3>1 DEF StillHeld
    <3>3. /\ idx'[p] = was'.idx[p] => c \in Entries(idx')
          /\ was'.idx[p] = top'[p] => c \in Entries(top')
      BY <3>1 DEF Entries, Has
    <3>4. InStash(s, p, was'.idx[p]) => c \in Changes(s)
      BY <2>3, <3>1 DEF Has
    <3> QED BY <2>2, <2>5, <3>1, <3>2, <3>3, <3>4
  <2> QED BY <2>4, <2>5
<1> QED BY <1>4, <1>5

(* Once something else changed, only links are in question. *)
LEMMA SinceExcuses ==
  ASSUME saved'.since, ~wroteBeyond'
  PROVE  StashGivesBack'
BY DEF StashGivesBack, NothingIsLost, BackAsItWas

(* A revert under way has taken only what the stash holds. *)
LEMMA RevertingKeeps ==
  ASSUME NEW s, PathSaved(s)', idx' = AtSave'.idx, NEW p \in StashPaths, Reverted(p)'
  PROVE  StillHeld(s, p)' /\ (idx' = top' => Gives(s, p)')
<1>1. /\ s.index[p] = IF p \in PickedOnes' THEN AtSave'.idx[p] ELSE top'[p]
      /\ s.work[p] = IF p \in PickedOnes' THEN Unrepo(AtSave'.wt[p]) ELSE top'[p]
      /\ s.untracked[p] = IF p \in NewOnes' THEN Unrepo(AtSave'.wt[p]) ELSE "none"
  BY DEF PathSaved
<1>2. p \in PickedOnes' =>
        /\ AtSave'.idx[p] # top'[p] \/ (Has(AtSave'.idx, p) /\ AtSave'.wt[p] # AtSave'.idx[p])
        /\ AtSave'.wt[p] = "repo" => ~Has(IF stashing'.keep THEN AtSave'.idx ELSE top', p)
  BY DEF PathSaved
<1>3. p \in NewOnes' =>
        ~Has(AtSave'.idx, p) /\ ~Has(top', p) /\ AtSave'.wt[p] \notin {"none", "repo"} /\ ~IsIgnored(p)'
  BY DEF PathSaved
<1>4. p \in NewOnes' => p \notin PickedOnes' \/ idx' # top'
  BY <1>2, <1>3 DEF Has
<1>5. wt'[p] = AtSave'.wt[p]
      \/ (wt'[p] = "none" /\ (p \in NewOnes' \/ (p \in PickedOnes' /\ AtSave'.wt[p] = "link")))
  BY DEF Reverted
<1>6. StillHeld(s, p)'
  BY <1>1, <1>3, <1>5 DEF StillHeld, InStash, Unrepo
<1>7. ASSUME idx' = top' PROVE Gives(s, p)'
  <2>1. CASE p \in NewOnes'
    BY <1>1, <1>3, <1>4, <1>7, <2>1 DEF Gives, Unrepo, Has
  <2>2. CASE p \notin NewOnes' /\ p \in PickedOnes'
    <3>1. Has(top', p) /\ AtSave'.wt[p] # top'[p] /\ AtSave'.wt[p] # "repo"
      BY <1>2, <1>7, <2>2
    <3> QED BY <1>1, <2>2, <3>1 DEF Gives, Unrepo, Has
  <2>3. CASE p \notin NewOnes' /\ p \notin PickedOnes'
    BY <1>1, <1>5, <1>7, <2>3 DEF Gives, Has
  <2> QED BY <2>1, <2>2, <2>3
<1> QED BY <1>6, <1>7

(* What the checks of a stash of some paths have found out. *)
LEMMA PathsOfSave ==
  ASSUME NEW keep \in BOOLEAN, NEW untracked \in BOOLEAN, NEW checked, NEW chosen, NEW sel,
         sel = SelectedPaths(chosen, untracked), ~PathsRefused(keep, checked, sel),
         NEW p \in StashPaths
  PROVE  /\ p \in sel.tracked =>
              /\ TrackedChange(p)
              /\ IsDir(wt, p) \/ wt[p] = "repo" => ~Has(IF keep THEN idx ELSE top, p)
              /\ \A f \in Holders(p) : /\ Plain(wt[f]) => f \in sel.untracked
                                       /\ wt[f] # "link"
              /\ \A q \in Held(p) : q \in sel.tracked \/ ~TrackedChange(q)
         /\ p \in sel.untracked => Untracked(p) /\ \A f \in Holders(p) : wt[f] # "link"
<1>1. sel.tracked = {q \in StashPaths : Selects(chosen, q) /\ TrackedChange(q)}
      /\ sel.untracked = {q \in StashPaths : Selects(chosen, q) /\ untracked /\ Untracked(q)}
  BY DEF SelectedPaths
<1>2. \A q \in sel.tracked \cup sel.untracked : \A f \in Holders(q) : wt[f] # "link"
  BY DEF PathsRefused, BelowLink
<1>3. \A q \in sel.tracked :
        /\ IsDir(wt, q) \/ wt[q] = "repo" => ~Has(IF keep THEN idx ELSE top, q)
        /\ \A f \in Holders(q) : Plain(wt[f]) => f \in sel.untracked
  BY DEF PathsRefused
<1>4. ASSUME p \in sel.tracked, NEW q \in Held(p)
      PROVE  q \in sel.tracked \/ ~TrackedChange(q)
  <2>1. q \in StashPaths /\ p \in Holders(q)
    BY DEF Held
  <2>2. Holders(p) = {}
    BY <2>1, HolderFacts
  <2>3. p \in chosen
    BY <1>1, <1>4, <2>2 DEF Selects
  <2>4. Selects(chosen, q)
    BY <2>1, <2>3 DEF Selects
  <2> QED BY <1>1, <2>1, <2>4
<1> QED BY <1>1, <1>2, <1>3, <1>4

LEMMA SaveGives ==
  ASSUME GivesInv, NEW keep \in BOOLEAN, NEW untracked \in BOOLEAN, NEW pick,
         Save(keep, untracked, pick)
  PROVE  GivesInv'
<1> DEFINE whole == pick = {}
           own == whole /\ OwnWay(untracked)
           paths == IF whole
               THEN {p \in StashPaths : TrackedChange(p) \/ (untracked /\ Untracked(p))}
               ELSE WithPartners(pick)
           sel == SelectedPaths(IF whole THEN WithPartners(paths) ELSE paths, untracked)
           refused == \/ \E p \in StashPaths : idx[p] \in {"conflict", "repo"}
                      \/ whole /\ InTheWay(keep, untracked)
                      \/ whole /\ paths = {}
                      \/ ~whole /\ SourceRecreated(pick)
                      \/ (own \/ ~whole) /\ PathsRefused(keep, paths, sel)
           operation == [None EXCEPT !.kind = "save", !.keep = keep, !.sel = sel]
<1>1. /\ stashing.kind = "none"
      /\ saved' = [there |-> There, sel |-> sel, since |-> FALSE]
      /\ UNCHANGED <<top, rules, listed>>
      /\ IF refused
         THEN /\ Begins([operation EXCEPT !.outcome = "refused"])
              /\ UNCHANGED <<list, wt, idx, wroteBeyond>>
         ELSE IF own \/ ~whole
         THEN /\ Push(PathStash(sel))
              /\ Begins([operation EXCEPT !.pc = "untracked"])
              /\ UNCHANGED <<wt, idx, wroteBeyond>>
         ELSE /\ Push(WholeStash(untracked))
              /\ wt' = ResetTo(IF keep THEN idx ELSE top, untracked)
              /\ idx' = IF keep THEN idx ELSE top
              /\ wroteBeyond' = (wroteBeyond \/ HasHazard)
              /\ Begins([operation EXCEPT !.outcome = "done"])
  BY DEF Save
<1> HIDE DEF whole, own, paths, sel, refused
<1>2. /\ list = <<>> /\ ~wroteBeyond
      /\ \A p \in StashPaths : wt[p] = "repo" => ~IsDir(top, p) /\ ~IsDir(idx, p)
      /\ IsTree(top)
  BY <1>1 DEF GivesInv
<1>3. /\ saved' = [there |-> There, sel |-> sel, since |-> FALSE] /\ was' = There
      /\ AtSave' = There /\ saved'.sel = sel /\ ~saved'.since
      /\ AtSave'.wt = wt /\ AtSave'.idx = idx /\ AtSave'.top = top /\ AtSave'.list = <<>>
      /\ top' = top /\ rules' = rules
  BY <1>1, <1>2 DEF Begins, AtSave, There
<1>4. /\ DOMAIN stashing' = StashFields /\ DOMAIN saved' = {"there", "sel", "since"}
      /\ stashing'.kind = "save" /\ stashing'.sel = sel /\ stashing'.keep = keep
      /\ stashing'.pc = IF ~refused /\ (own \/ ~whole) THEN "untracked" ELSE "idle"
  BY <1>1, <1>3 DEF Begins, None, StashFields
<1>5. ~wroteBeyond'
  BY <1>1, <1>2 DEF own, OwnWay
<1>6. SUFFICES SaveOK'
  BY <1>4, <1>5, <1>6, SavedIsEnough DEF GivesInv, Reverting
<1>7. CASE refused
  BY <1>1, <1>2, <1>3, <1>4, <1>7 DEF SaveOK, Reverting
<1>8. CASE ~refused /\ ~(own \/ ~whole)
  <2>1. ~InTheWay(keep, untracked) /\ ~OwnWay(untracked)
    BY <1>8 DEF refused, own
  <2>2. PICK s : s = WholeStash(untracked)
    OBVIOUS
  <2>3. list' = <<s>> /\ list'[1] = s /\ s.base = top
    BY <1>1, <1>2, <1>8, <2>2 DEF Push, WholeStash
  <2>4. /\ wt' = ResetTo(IF keep THEN idx ELSE top, untracked)
        /\ idx' = IF keep THEN idx ELSE top
    BY <1>1, <1>8
  <2>5. \A p \in StashPaths : s.index[p] = idx[p]
    BY <2>2 DEF WholeStash
  <2>6. ASSUME NEW p \in StashPaths PROVE StillHeld(s, p)'
    <3>1. Has(wt, p) => wt'[p] = wt[p] \/ InStash(s, p, wt[p]) \/ PassedOver(There, p)
      BY <1>2, <2>1, <2>2, <2>4, WholeKeeps
    <3>2. InStash(s, p, idx[p])
      BY <2>5 DEF InStash
    <3> QED BY <1>3, <3>1, <3>2 DEF StillHeld
  <2>7. ASSUME idx' = top', NEW p \in StashPaths PROVE Gives(s, p)'
    <3>1. (IF keep THEN idx ELSE top) = top
      BY <1>3, <2>4, <2>7
    <3>2. wt'[p] = ResetTo(top, untracked)[p]
      BY <2>4, <3>1
    <3>3. /\ Has(s.untracked, p) =>
               s.untracked[p] = wt[p] /\ ~Has(top, p) /\ ~Has(s.work, p) /\ ~IsIgnored(p)
          /\ ~Has(s.untracked, p) /\ s.work[p] # top[p] =>
               s.work[p] = wt[p] /\ (Has(top, p) \/ wt'[p] = "none")
          /\ ~Has(s.untracked, p) /\ s.work[p] = top[p] => wt'[p] = wt[p] \/ PassedOver(There, p)
      BY <1>2, <2>1, <2>2, <3>1, <3>2, WholeGives
    <3>4. IsIgnored(p)' = IsIgnored(p)
      BY <1>3 DEF IsIgnored, Holders
    <3> QED BY <1>3, <2>5, <3>3, <3>4 DEF Gives, Has
  <2> QED BY <1>3, <1>4, <1>8, <2>3, <2>6, <2>7 DEF SaveOK, Reverting, StillHeld, Gives
<1>9. CASE ~refused /\ (own \/ ~whole)
  <2>1. PICK s : s = PathStash(sel)
    OBVIOUS
  <2>2. list' = <<s>> /\ list'[1] = s /\ s.base = top
    BY <1>1, <1>2, <1>9, <2>1 DEF Push, PathStash
  <2>3. wt' = wt /\ idx' = idx /\ stashing'.pc = "untracked"
    BY <1>1, <1>4, <1>9
  <2>4. PICK chosen : sel = SelectedPaths(chosen, untracked)
    BY DEF sel
  <2>5. ~PathsRefused(keep, paths, sel) /\ \A p \in StashPaths : idx[p] \notin {"conflict", "repo"}
    BY <1>9 DEF refused
  <2>6. PathSaved(s)'
    <3>1. sel.tracked \subseteq StashPaths /\ sel.untracked \subseteq StashPaths
      BY <2>4 DEF SelectedPaths
    <3>2. ASSUME NEW p \in StashPaths
          PROVE  /\ s.index[p] = IF p \in sel.tracked THEN idx[p] ELSE top[p]
                 /\ s.work[p] = IF p \in sel.tracked THEN Unrepo(wt[p]) ELSE top[p]
                 /\ s.untracked[p] = IF p \in sel.untracked THEN Unrepo(wt[p]) ELSE "none"
      BY <2>1 DEF PathStash, Overlay, Recordable, Empty
    <3>3. ASSUME NEW p \in sel.tracked
          PROVE  /\ idx[p] # top[p] \/ (Has(idx, p) /\ wt[p] # idx[p])
                 /\ IsDir(wt, p) \/ wt[p] = "repo" => ~Has(IF keep THEN idx ELSE top, p)
                 /\ \A f \in Holders(p) : /\ Plain(wt[f]) => f \in sel.untracked
                                          /\ wt[f] # "link"
                 /\ \A q \in Held(p) :
                      \/ q \in sel.tracked
                      \/ idx[q] = top[q] /\ (Has(idx, q) => wt[q] = idx[q])
                      \/ ~Has(idx, q) /\ ~Has(top, q)
      BY <2>4, <2>5, <3>1, PathsOfSave DEF TrackedChange, Untracked, WtNew
    <3>4. ASSUME NEW p \in sel.untracked
          PROVE  /\ ~Has(idx, p) /\ ~Has(top, p) /\ wt[p] \notin {"none", "repo"} /\ ~IsIgnored(p)
                 /\ \A f \in Holders(p) : wt[f] # "link"
      BY <2>4, <2>5, <3>1, PathsOfSave DEF Untracked, WtNew
    <3>5. \A p \in StashPaths : IsIgnored(p)' = IsIgnored(p)
      BY <1>3 DEF IsIgnored, Holders
    <3>6. PickedOnes' = sel.tracked /\ NewOnes' = sel.untracked
      BY <1>4 DEF PickedOnes, NewOnes
    <3> QED BY <1>2, <1>3, <1>4, <2>5, <3>1, <3>2, <3>3, <3>4, <3>5, <3>6 DEF PathSaved
  <2>7. \A p \in StashPaths : Reverted(p)'
    BY <1>3, <2>3 DEF Reverted
  <2>8. \A p \in StashPaths : StillHeld(s, p)' /\ (idx' = top' => Gives(s, p)')
    BY <1>3, <2>3, <2>6, <2>7, RevertingKeeps
  <2> QED BY <1>3, <2>2, <2>3, <2>6, <2>7, <2>8 DEF SaveOK, Reverting, StillHeld, Gives, PathSaved
<1> QED BY <1>7, <1>8, <1>9

(* A step of a save leaves the invariant, once it is seen to leave what the save promised.    *)
LEMMA SaveStepGives ==
  ASSUME GivesInv, stashing.kind = "save", stashing'.kind = "save",
         DOMAIN stashing' = StashFields, saved' = saved, ~wroteBeyond',
         stashing'.pc \in Reverting \cup {"idle"}, ~saved.since => SaveOK'
  PROVE  GivesInv'
<1>1. DOMAIN saved' = {"there", "sel", "since"}
  BY DEF GivesInv
<1>2. StashGivesBack'
  BY SavedIsEnough, SinceExcuses
<1> QED BY <1>1, <1>2 DEF GivesInv, Reverting

LEMMA RemoveUntrackedGives ==
  ASSUME GivesInv, RemoveUntracked
  PROVE  GivesInv'
<1>1. /\ stashing.kind = "save" /\ stashing.pc = "untracked" /\ ~wroteBeyond
      /\ DOMAIN stashing = StashFields
  BY DEF GivesInv, RemoveUntracked, Reverting
<1>2. /\ stashing' = [stashing EXCEPT !.pc = "links"]
      /\ UNCHANGED <<top, idx, rules, list, wroteBeyond, listed, was, saved, raced>>
      /\ wt' = [p \in StashPaths |->
                  IF p \in stashing.sel.untracked /\ ~BelowLink(p) THEN "none" ELSE wt[p]]
  BY DEF RemoveUntracked
<1>3. /\ stashing'.kind = "save" /\ stashing'.pc = "links" /\ DOMAIN stashing' = StashFields
      /\ stashing'.sel = stashing.sel /\ stashing'.keep = stashing.keep
  BY <1>1, <1>2 DEF StashFields
<1>4. ASSUME ~saved.since PROVE SaveOK'
  <2>1. SaveOK
    BY <1>1, <1>4 DEF GivesInv
  <2>2. PICK s : s = list[1]
    OBVIOUS
  <2>3. /\ list # <<>> /\ list = <<s>> /\ s.base = top /\ PathSaved(s) /\ idx = AtSave.idx
        /\ top = AtSave.top /\ AtSave.list = <<>> /\ was = AtSave
        /\ \A p \in StashPaths : Reverted(p)
    BY <1>1, <2>1, <2>2 DEF SaveOK, Reverting
  <2>4. PathSaved(s)'
    BY <1>2, <1>3, <2>3 DEF PathSaved, PickedOnes, NewOnes, AtSave, IsIgnored
  <2>5. ASSUME NEW p \in StashPaths PROVE Reverted(p)'
    <3>1. wt[p] = AtSave.wt[p]
      BY <1>1, <2>3 DEF Reverted
    <3>2. p \in NewOnes => ~BelowLink(p)
      <4>1. SUFFICES ASSUME p \in NewOnes, NEW f \in Holders(p) PROVE wt[f] # "link"
        BY DEF BelowLink
      <4>2. f \in StashPaths /\ AtSave.wt[f] # "link"
        BY <2>3, <4>1, HolderFacts DEF PathSaved
      <4> QED BY <1>1, <2>3, <4>2 DEF Reverted
    <3> QED BY <1>2, <1>3, <3>1, <3>2 DEF Reverted, NewOnes, AtSave
  <2>6. \A p \in StashPaths : StillHeld(s, p)' /\ (idx' = top' => Gives(s, p)')
    <3>1. idx' = AtSave'.idx
      BY <1>2, <2>3 DEF AtSave
    <3> QED BY <2>4, <2>5, <3>1, RevertingKeeps
  <2>7. list'[1] = s /\ list' = <<s>>
    BY <1>2, <2>2, <2>3
  <2>8. top' = AtSave'.top /\ AtSave'.list = <<>> /\ was' = AtSave' /\ idx' = AtSave'.idx /\ s.base = top'
    BY <1>2, <2>3 DEF AtSave
  <2> QED BY <1>3, <2>4, <2>5, <2>6, <2>7, <2>8 DEF SaveOK, Reverting, StillHeld, Gives, PathSaved
<1> QED BY <1>1, <1>2, <1>3, <1>4, SaveStepGives DEF Reverting

LEMMA ClearLeafLinksGives ==
  ASSUME GivesInv, ClearLeafLinks
  PROVE  GivesInv'
<1>1. /\ stashing.kind = "save" /\ stashing.pc = "links" /\ ~wroteBeyond
      /\ DOMAIN stashing = StashFields
  BY DEF GivesInv, ClearLeafLinks, Reverting
<1>2. /\ stashing' = [stashing EXCEPT !.pc = "checkout"]
      /\ UNCHANGED <<top, idx, rules, list, wroteBeyond, listed, was, saved, raced>>
      /\ wt' = [p \in StashPaths |->
                  IF p \in stashing.sel.tracked /\ wt[p] = "link" THEN "none" ELSE wt[p]]
  BY DEF ClearLeafLinks
<1>3. /\ stashing'.kind = "save" /\ stashing'.pc = "checkout" /\ DOMAIN stashing' = StashFields
      /\ stashing'.sel = stashing.sel /\ stashing'.keep = stashing.keep
  BY <1>1, <1>2 DEF StashFields
<1>4. ASSUME ~saved.since PROVE SaveOK'
  <2>1. SaveOK
    BY <1>1, <1>4 DEF GivesInv
  <2>2. PICK s : s = list[1]
    OBVIOUS
  <2>3. /\ list # <<>> /\ list = <<s>> /\ s.base = top /\ PathSaved(s) /\ idx = AtSave.idx
        /\ top = AtSave.top /\ AtSave.list = <<>> /\ was = AtSave
        /\ \A p \in StashPaths : Reverted(p)
    BY <1>1, <2>1, <2>2 DEF SaveOK, Reverting
  <2>4. PathSaved(s)'
    BY <1>2, <1>3, <2>3 DEF PathSaved, PickedOnes, NewOnes, AtSave, IsIgnored
  <2>5. ASSUME NEW p \in StashPaths PROVE Reverted(p)'
    <3>1. wt[p] = IF p \in NewOnes THEN "none" ELSE AtSave.wt[p]
      BY <1>1, <2>3 DEF Reverted
    <3> QED BY <1>2, <1>3, <3>1 DEF Reverted, NewOnes, PickedOnes, AtSave
  <2>6. \A p \in StashPaths : StillHeld(s, p)' /\ (idx' = top' => Gives(s, p)')
    <3>1. idx' = AtSave'.idx
      BY <1>2, <2>3 DEF AtSave
    <3> QED BY <2>4, <2>5, <3>1, RevertingKeeps
  <2>7. list'[1] = s /\ list' = <<s>>
    BY <1>2, <2>2, <2>3
  <2>8. top' = AtSave'.top /\ AtSave'.list = <<>> /\ was' = AtSave' /\ idx' = AtSave'.idx /\ s.base = top'
    BY <1>2, <2>3 DEF AtSave
  <2> QED BY <1>3, <2>4, <2>5, <2>6, <2>7, <2>8 DEF SaveOK, Reverting, StillHeld, Gives, PathSaved
<1> QED BY <1>1, <1>2, <1>3, <1>4, SaveStepGives DEF Reverting

LEMMA StopsGives ==
  ASSUME GivesInv, Stops
  PROVE  GivesInv'
<1>1. /\ stashing.kind = "save" /\ ~wroteBeyond /\ DOMAIN stashing = StashFields
  BY DEF GivesInv, Stops, Reverting
<1>2. /\ stashing' = [stashing EXCEPT !.pc = "idle", !.outcome = "stopped"]
      /\ UNCHANGED <<top, idx, wt, rules, list, wroteBeyond, listed, was, saved, raced>>
  BY DEF Stops, Ends
<1>3. stashing'.kind = "save" /\ stashing'.pc = "idle" /\ DOMAIN stashing' = StashFields
  BY <1>1, <1>2 DEF StashFields
<1>4. ASSUME ~saved.since PROVE SaveOK'
  <2>1. SaveOK /\ stashing.pc \in Reverting
    BY <1>1, <1>4 DEF GivesInv, Stops, Reverting
  <2> QED BY <1>2, <1>3, <2>1 DEF SaveOK, Reverting, StillHeld, Gives, AtSave, PassedOver,
                                  Displaced, IsIgnored
<1> QED BY <1>1, <1>2, <1>3, <1>4, SaveStepGives DEF Reverting

(* What the check-out of the revert does to a path. *)
LEMMA CheckOutFacts ==
  ASSUME NEW s, PathSaved(s), \A q \in StashPaths : Reverted(q), stashing.pc = "checkout",
         idx = AtSave.idx, top = AtSave.top, CheckOut, NEW p \in StashPaths
  PROVE  LET target == IF stashing.keep THEN idx ELSE top
         IN  /\ p \in PickedOnes =>
                  /\ wt'[p] = IF AtSave.wt[p] = "repo" THEN "repo" ELSE target[p]
                  /\ ~stashing.keep => idx'[p] = top[p]
             /\ p \notin PickedOnes =>
                  /\ p \notin NewOnes => wt'[p] = AtSave.wt[p]
                  /\ idx'[p] = idx[p] \/ Displaced(p)
             /\ stashing.keep => idx' = idx
<1> DEFINE target == IF stashing.keep THEN idx ELSE top
           paths == {q \in stashing.sel.tracked : ~BelowLink(q)}
           back == {q \in StashPaths : Selects(paths, q)
                                  /\ (Has(target, q) \/ Has(idx, q) \/ q \in paths)}
<1>1. /\ wt'[p] = IF p \in back
                  THEN IF wt[p] = "repo" /\ ~Has(target, p) THEN "repo" ELSE target[p]
                  ELSE IF \E q \in (Held(p) \cup Holders(p)) \cap back : Has(target, q)
                  THEN "none" ELSE wt[p]
      /\ stashing.keep => idx' = idx
      /\ ~stashing.keep =>
           idx'[p] = IF p \in back THEN top[p]
                     ELSE IF \E q \in (Held(p) \cup Holders(p)) \cap back : Has(top, q)
                     THEN "none" ELSE idx[p]
  BY DEF CheckOut
<1>2. paths = PickedOnes
  <2>1. ASSUME NEW q \in PickedOnes, NEW f \in Holders(q) PROVE wt[f] # "link"
    <3>1. q \in StashPaths /\ f \in StashPaths /\ AtSave.wt[f] # "link"
      BY <2>1, HolderFacts DEF PathSaved
    <3> QED BY <3>1 DEF Reverted
  <2> QED BY <2>1 DEF BelowLink, PickedOnes
<1>3. \A q \in StashPaths :
        q \in back <=> Selects(PickedOnes, q) /\ (Has(target, q) \/ Has(idx, q) \/ q \in PickedOnes)
  BY <1>2
<1> HIDE DEF target, paths, back
<1>4. target = (IF stashing.keep THEN idx ELSE top) /\ back \subseteq StashPaths
  BY DEF target, back
<1>5. \A q \in StashPaths :
        /\ AtSave.wt[q] = "repo" => ~IsDir(idx, q) /\ ~IsDir(top, q)
        /\ q \in PickedOnes =>
             /\ IsDir(AtSave.wt, q) \/ AtSave.wt[q] = "repo" => ~Has(target, q)
             /\ \A f \in Holders(q) : (Plain(AtSave.wt[f]) => f \in NewOnes) /\ AtSave.wt[f] # "link"
             /\ \A r \in Held(q) : \/ r \in PickedOnes
                                   \/ idx[r] = top[r] /\ (Has(idx, r) => AtSave.wt[r] = idx[r])
                                   \/ ~Has(idx, r) /\ ~Has(top, r)
        /\ q \in NewOnes => AtSave.wt[q] \notin {"none", "repo"}
  BY <1>4 DEF PathSaved
<1>6. CASE p \in PickedOnes
  <2>1. p \in back
    BY <1>3, <1>6 DEF Selects
  <2>2. wt[p] = "repo" <=> AtSave.wt[p] = "repo"
    BY <1>5 DEF Reverted
  <2>3. AtSave.wt[p] = "repo" => ~Has(target, p)
    BY <1>5, <1>6
  <2> QED BY <1>1, <1>4, <1>6, <2>1, <2>2, <2>3
<1>7. CASE p \notin PickedOnes
  <2>1. ASSUME p \in back
        PROVE  idx[p] = top[p] /\ Has(idx, p) /\ AtSave.wt[p] = idx[p]
    <3>1. PICK f \in Holders(p) : f \in PickedOnes
      BY <1>3, <1>7, <2>1 DEF Selects
    <3>2. f \in StashPaths /\ p \in Held(f)
      BY HolderFacts
    <3>3. Has(target, p) \/ Has(idx, p)
      BY <1>3, <1>7, <2>1
    <3> QED BY <1>4, <1>5, <1>7, <3>1, <3>2, <3>3 DEF Has
  <2>2. ASSUME NEW q \in (Held(p) \cup Holders(p)) \cap back
        PROVE  q \in StashPaths /\ q \in PickedOnes
    <3>1. q \in StashPaths
      BY HolderFacts
    <3>2. Selects(PickedOnes, q)
      BY <1>3, <2>2, <3>1
    <3>3. Holders(q) \subseteq {p}
      BY HolderFacts
    <3> QED BY <1>7, <3>1, <3>2, <3>3 DEF Selects
  <2>3. ASSUME p \notin NewOnes PROVE wt'[p] = AtSave.wt[p]
    <3>1. wt[p] = AtSave.wt[p]
      BY <1>7, <2>3 DEF Reverted
    <3>2. CASE p \in back
      <4>1. target[p] = AtSave.wt[p] /\ Has(target, p)
        BY <1>4, <2>1, <3>2 DEF Has
      <4> QED BY <1>1, <3>2, <4>1
    <3>3. ASSUME Has(wt, p), NEW q \in (Held(p) \cup Holders(p)) \cap back, Has(target, q)
          PROVE  FALSE
      <4>1. q \in StashPaths /\ q \in PickedOnes
        BY <2>2
      <4>2. CASE q \in Holders(p)
        <5>1. IsDir(AtSave.wt, q)
          BY <3>1, <3>3, <4>2, HolderFacts DEF IsDir, Has
        <5> QED BY <1>5, <3>3, <4>1, <5>1
      <4>3. CASE q \in Held(p)
        <5>1. p \in Holders(q)
          BY <4>3 DEF Held
        <5>2. AtSave.wt[p] = "repo"
          BY <1>5, <2>3, <3>1, <3>3, <4>1, <5>1 DEF Plain, Has
        <5>3. IsDir(target, p)
          BY <3>3, <4>3 DEF IsDir
        <5> QED BY <1>4, <1>5, <5>2, <5>3
      <4> QED BY <3>3, <4>2, <4>3
    <3>4. CASE p \notin back
      BY <1>1, <3>1, <3>3, <3>4 DEF Has
    <3> QED BY <3>2, <3>4
  <2>4. idx'[p] = idx[p] \/ Displaced(p)
    <3>1. CASE stashing.keep
      BY <1>1, <3>1
    <3>2. CASE ~stashing.keep /\ p \in back
      BY <1>1, <2>1, <3>2
    <3>3. CASE ~stashing.keep /\ p \notin back
      <4>1. SUFFICES ASSUME NEW q \in (Held(p) \cup Holders(p)) \cap back, Has(top, q), Has(idx, p)
                     PROVE  Displaced(p)
        BY <1>1, <3>3 DEF Has
      <4>2. q \in stashing.sel.tracked /\ stashing.sel = saved.sel
        BY <2>2 DEF PickedOnes, PathSaved
      <4>3. q \notin Holders(p)
        <5>1. SUFFICES ASSUME q \in Holders(p) PROVE FALSE
          OBVIOUS
        <5>2. p \in Held(q) /\ q \in StashPaths /\ q \in PickedOnes
          BY <2>2, <5>1, HolderFacts
        <5>3. ~Has(top, p)
          BY <4>1, <5>1 DEF PathSaved, IsTree
        <5> QED BY <1>5, <1>7, <4>1, <5>2, <5>3 DEF Has
      <4> QED BY <1>7, <4>1, <4>2, <4>3 DEF Displaced, PickedOnes, AtSave
    <3> QED BY <3>1, <3>2, <3>3
  <2> QED BY <1>1, <1>7, <2>3, <2>4
<1> QED BY <1>1, <1>4, <1>6, <1>7

LEMMA CheckOutGives ==
  ASSUME GivesInv, CheckOut
  PROVE  GivesInv'
<1>1. /\ stashing.kind = "save" /\ stashing.pc = "checkout" /\ ~wroteBeyond
      /\ DOMAIN stashing = StashFields
  BY DEF GivesInv, CheckOut, Reverting
<1>2. /\ stashing' = [stashing EXCEPT !.pc = "idle", !.outcome = "done"]
      /\ UNCHANGED <<top, rules, list, wroteBeyond, listed, was, saved, raced>>
  BY DEF CheckOut, Ends
<1>3. /\ stashing'.kind = "save" /\ stashing'.pc = "idle" /\ DOMAIN stashing' = StashFields
  BY <1>1, <1>2 DEF StashFields
<1>4. ASSUME ~saved.since PROVE SaveOK'
  <2>1. SaveOK
    BY <1>1, <1>4 DEF GivesInv
  <2>2. PICK s : s = list[1]
    OBVIOUS
  <2>3. /\ list # <<>> /\ list = <<s>> /\ s.base = top /\ PathSaved(s) /\ idx = AtSave.idx
        /\ top = AtSave.top /\ AtSave.list = <<>> /\ was = AtSave
        /\ \A p \in StashPaths : Reverted(p)
    BY <1>1, <2>1, <2>2 DEF SaveOK, Reverting
  <2>4. AtSave' = AtSave /\ top' = top /\ list' = list /\ was' = was /\ saved' = saved
    BY <1>2 DEF AtSave
  <2>5. ASSUME NEW p \in StashPaths
        PROVE  StillHeld(s, p)' /\ (idx' = top' => Gives(s, p)')
    <3> DEFINE target == IF stashing.keep THEN idx ELSE top
    <3>1. /\ p \in PickedOnes =>
               /\ wt'[p] = IF AtSave.wt[p] = "repo" THEN "repo" ELSE target[p]
               /\ ~stashing.keep => idx'[p] = top[p]
          /\ p \notin PickedOnes =>
               /\ p \notin NewOnes => wt'[p] = AtSave.wt[p]
               /\ idx'[p] = idx[p] \/ Displaced(p)
          /\ stashing.keep => idx' = idx
      BY <1>1, <2>3, CheckOutFacts
    <3>2. /\ s.index[p] = IF p \in PickedOnes THEN AtSave.idx[p] ELSE top[p]
          /\ s.work[p] = IF p \in PickedOnes THEN Unrepo(AtSave.wt[p]) ELSE top[p]
          /\ s.untracked[p] = IF p \in NewOnes THEN Unrepo(AtSave.wt[p]) ELSE "none"
          /\ p \in PickedOnes =>
               /\ AtSave.idx[p] # top[p] \/ (Has(AtSave.idx, p) /\ AtSave.wt[p] # AtSave.idx[p])
               /\ AtSave.wt[p] = "repo" => ~Has(target, p)
          /\ p \in NewOnes => /\ ~Has(AtSave.idx, p) /\ ~Has(top, p) /\ ~IsIgnored(p)
                            /\ AtSave.wt[p] \notin {"none", "repo"}
      BY <2>3 DEF PathSaved
    <3>3. Displaced(p)' = Displaced(p) /\ IsIgnored(p)' = IsIgnored(p)
      BY <1>2 DEF Displaced, IsIgnored, Holders, Held
    <3>4. StillHeld(s, p)'
      <4>1. Has(AtSave.wt, p) => wt'[p] = AtSave.wt[p] \/ InStash(s, p, AtSave.wt[p])
        BY <3>1, <3>2 DEF InStash, Unrepo
      <4>2. idx'[p] = AtSave.idx[p] \/ InStash(s, p, AtSave.idx[p]) \/ Displaced(p)'
        BY <2>3, <3>1, <3>2, <3>3 DEF InStash
      <4> QED BY <2>4, <4>1, <4>2 DEF StillHeld
    <3>5. ASSUME idx' = top' PROVE Gives(s, p)'
      <4> HIDE DEF target
      <4>1. stashing.keep => target = top /\ idx = top
        BY <2>4, <3>1, <3>5 DEF target
      <4>2. ~stashing.keep => target = top
        BY DEF target
      <4>3. s.index[p] = AtSave.idx[p] \/ Displaced(p)
        BY <2>3, <2>4, <3>1, <3>2, <3>5
      <4>4. CASE p \in NewOnes /\ p \notin PickedOnes
        BY <2>4, <3>2, <3>3, <4>3, <4>4 DEF Gives, Unrepo, Has
      <4>5. CASE p \in NewOnes /\ p \in PickedOnes
        BY <3>2, <4>5, <2>3 DEF Has
      <4>6. CASE p \notin NewOnes /\ p \notin PickedOnes
        BY <2>4, <3>1, <3>2, <3>3, <4>3, <4>6 DEF Gives, Has
      <4>7. CASE p \notin NewOnes /\ p \in PickedOnes
        <5>1. ~Has(s.untracked, p) /\ s.work[p] = Unrepo(AtSave.wt[p])
          BY <3>2, <4>7 DEF Has
        <5>2. CASE AtSave.wt[p] = "repo"
          <6>1. s.work[p] = "none" /\ top[p] = "none" /\ wt'[p] = "repo"
            BY <3>1, <3>2, <4>1, <4>2, <4>7, <5>1, <5>2 DEF Unrepo, Has
          <6> QED BY <2>4, <3>3, <4>3, <5>1, <5>2, <6>1 DEF Gives
        <5>3. CASE AtSave.wt[p] # "repo"
          <6>1. s.work[p] = AtSave.wt[p] /\ wt'[p] = top[p]
            BY <3>1, <4>1, <4>2, <4>7, <5>1, <5>3 DEF Unrepo
          <6> QED BY <2>4, <3>3, <4>3, <5>1, <6>1 DEF Gives, Has
        <5> QED BY <5>2, <5>3
      <4> QED BY <4>4, <4>5, <4>6, <4>7
    <3> QED BY <3>4, <3>5
  <2> QED BY <1>3, <2>2, <2>3, <2>4, <2>5 DEF SaveOK, Reverting, StillHeld, Gives
<1> QED BY <1>1, <1>2, <1>3, <1>4, SaveStepGives DEF Reverting

(* An operation that refuses loses nothing. *)
LEMMA RefusingGives ==
  ASSUME GivesInv, was' = There, stashing'.kind \in {"apply", "pop", "drop"},
         stashing'.pc = "idle", stashing'.outcome = "refused", DOMAIN stashing' = StashFields,
         UNCHANGED <<top, idx, wt, list, wroteBeyond, saved>>
  PROVE  GivesInv'
<1>1. was'.wt = wt' /\ was'.idx = idx' /\ was'.list = list'
  BY DEF There
<1>2. StashGivesBack'
  BY <1>1 DEF GivesInv, StashGivesBack, NothingIsLost, BackAsItWas
<1> QED BY <1>2 DEF GivesInv, Reverting

(* What an apply makes of a path when HEAD and the index are as they were saved. *)
LEMMA AppliedToHead ==
  ASSUME NEW s, NEW restore, NEW p \in StashPaths, s.base = top, idx = top,
         ~ApplyRefused(s, restore), ~WouldOverwrite(s), Gives(s, p)
  PROVE  /\ AppliedTree(s)[p] = AtSave.wt[p] \/ PassedOver(AtSave, p)
            \/ (AppliedTree(s)[p] = "marked" /\ s.work[p] = "conflict")
         /\ Has(s.work, p) =>
              s.work[p] \in {AppliedTree(s)[p], top[p]} \/ s.work[p] = "conflict"
         /\ Has(s.untracked, p) => s.untracked[p] = AppliedTree(s)[p]
         /\ Has(wt, p) =>
              wt[p] \in {AppliedTree(s)[p], top[p]} \/ AppliedTree(s)[p] = "marked"
         /\ ~Conflicted(AppliedIndex(s, restore)) =>
              /\ s.work[p] # "conflict"
              /\ restore => AppliedIndex(s, restore)[p] = s.index[p]
<1>1. ASSUME NEW q \in StashPaths, NEW e PROVE Merged(s.base[q], idx[q], e) = e
  BY DEF Merged
<1>2. AppliedTree(s)[p] =
        IF Has(s.untracked, p)
        THEN IF Has(idx, p) /\ s.untracked[p] # idx[p] THEN "marked" ELSE s.untracked[p]
        ELSE IF s.work[p] = "conflict" THEN "marked"
        ELSE IF s.work[p] # idx[p] THEN s.work[p] ELSE wt[p]
  BY <1>1 DEF AppliedTree
<1>3. /\ Has(s.untracked, p) => MayTouch(p, idx[p], s.untracked[p])
      /\ s.work[p] # idx[p] => MayTouch(p, idx[p], s.work[p])
  BY <1>1 DEF WouldOverwrite
<1>4. ASSUME ~Conflicted(AppliedIndex(s, restore))
      PROVE  /\ s.work[p] # "conflict"
             /\ restore => AppliedIndex(s, restore)[p] = s.index[p]
  <2> DEFINE conflicts == {q \in StashPaths : Merged(s.base[q], idx[q], s.work[q]) = "conflict"}
  <2>1. \A q \in StashPaths :
          AppliedIndex(s, restore)[q] =
            IF conflicts # {} THEN Merged(s.base[q], idx[q], s.work[q])
            ELSE IF restore THEN Merged(s.base[q], idx[q], s.index[q])
            ELSE IF ~Has(idx, q) /\ ~Has(s.base, q) /\ Has(s.work, q) THEN s.work[q]
            ELSE idx[q]
    BY DEF AppliedIndex
  <2>2. conflicts = {}
    BY <1>4, <2>1 DEF Conflicted
  <2>3. s.work[p] # "conflict"
    BY <1>1, <2>2
  <2>4. restore => AppliedIndex(s, restore)[p] = s.index[p]
    BY <1>1, <2>1, <2>2
  <2> QED BY <2>3, <2>4
<1>5. CASE Has(s.untracked, p)
  <2>1. s.untracked[p] = AtSave.wt[p] /\ ~Has(top, p) /\ ~Has(s.work, p) /\ ~IsIgnored(p)
    BY <1>5 DEF Gives
  <2>2. AppliedTree(s)[p] = s.untracked[p]
    BY <1>2, <1>5, <2>1
  <2>3. wt[p] \in {idx[p], s.untracked[p]}
    BY <1>3, <1>5, <2>1 DEF MayTouch
  <2> QED BY <1>4, <2>1, <2>2, <2>3
<1>6. CASE ~Has(s.untracked, p) /\ s.work[p] # top[p]
  <2>1. s.work[p] = AtSave.wt[p] /\ (Has(top, p) \/ ~Has(wt, p))
    BY <1>6 DEF Gives
  <2>2. AppliedTree(s)[p] = IF s.work[p] = "conflict" THEN "marked" ELSE s.work[p]
    BY <1>2, <1>6
  <2>3. Has(wt, p) => wt[p] \in {top[p], s.work[p]}
    BY <1>3, <1>6, <2>1 DEF MayTouch, Has
  <2> QED BY <1>4, <1>6, <2>1, <2>2, <2>3
<1>7. CASE ~Has(s.untracked, p) /\ s.work[p] = top[p]
  <2>1. wt[p] = AtSave.wt[p] \/ PassedOver(AtSave, p)
    BY <1>7 DEF Gives
  <2>2. AppliedTree(s)[p] = IF s.work[p] = "conflict" THEN "marked" ELSE wt[p]
    BY <1>2, <1>7
  <2> QED BY <1>4, <1>7, <2>1, <2>2
<1> QED BY <1>5, <1>6, <1>7

LEMMA ApplyGives ==
  ASSUME GivesInv, StashListInv, NEW kind \in {"apply", "pop"}, NEW restore \in BOOLEAN,
         NEW at \in DOMAIN listed, Apply(kind, at, restore)
  PROVE  GivesInv'
<1> DEFINE operation ==
             [None EXCEPT !.kind = kind, !.restore = restore, !.at = at, !.id = listed[at]]
<1>1. /\ UNCHANGED <<top, list, wroteBeyond, saved>> /\ was' = There /\ raced' = FALSE
      /\ stashing.kind = "save" /\ stashing.pc = "idle"
  BY DEF Apply, Begins
<1>2. /\ DOMAIN stashing' = StashFields /\ stashing'.kind = kind /\ stashing'.restore = restore
  BY DEF Apply, Begins, None, StashFields
<1>3. CASE ~IsListed(at) \/ ApplyRefused(list[at], restore) \/ WouldOverwrite(list[at])
  <2>1. UNCHANGED <<wt, idx>> /\ stashing' = [operation EXCEPT !.outcome = "refused"]
    BY <1>3 DEF Apply, Begins
  <2>2. stashing'.pc = "idle" /\ stashing'.outcome = "refused"
    BY <2>1 DEF None
  <2> QED BY <1>1, <1>2, <2>1, <2>2, RefusingGives
<1>4. CASE IsListed(at) /\ ~ApplyRefused(list[at], restore) /\ ~WouldOverwrite(list[at])
  <2> DEFINE index == AppliedIndex(list[at], restore)
  <2>1. /\ wt' = AppliedTree(list[at]) /\ idx' = index
        /\ stashing' = IF kind = "pop" /\ ~KeepsAfter(index)
                       THEN [operation EXCEPT !.pc = "drop"]
                       ELSE [operation EXCEPT !.outcome =
                               IF Conflicted(index) THEN "conflicted" ELSE "done"]
    BY <1>4 DEF Apply, Begins
  <2>2. /\ stashing'.pc = IF kind = "pop" /\ ~Conflicted(index) THEN "drop" ELSE "idle"
        /\ stashing'.outcome = IF stashing'.pc = "drop" THEN "none"
                               ELSE IF Conflicted(index) THEN "conflicted" ELSE "done"
    BY <2>1 DEF None, KeepsAfter
  <2> HIDE DEF index
  <2>3. ~wroteBeyond' /\ DOMAIN saved' = {"there", "sel", "since"}
    BY <1>1 DEF GivesInv
  <2>4. CASE saved.since
    BY <1>1, <1>2, <2>2, <2>3, <2>4, SinceExcuses DEF GivesInv, Reverting
  <2>5. CASE ~saved.since
    <3>1. SaveOK
      BY <1>1, <2>5 DEF GivesInv
    <3>2. PICK s : s = list[1]
      OBVIOUS
    <3>3. list # <<>> /\ list[at] = s /\ list = <<s>> /\ s.base = top /\ idx = top
      <4>1. at \in Nat \ {0} /\ at <= Len(list)
        BY <1>4 DEF StashListInv, IsListed
      <4>2. list # <<>>
        BY <4>1
      <4>3. list = <<s>> /\ s.base = top
        BY <3>1, <3>2, <4>2 DEF SaveOK
      <4>4. at = 1
        BY <4>1, <4>3
      <4> QED BY <1>4, <3>2, <4>2, <4>3, <4>4 DEF ApplyRefused
    <3>4. \A p \in StashPaths : Gives(s, p)
      BY <3>1, <3>2, <3>3 DEF SaveOK
    <3>5. ASSUME NEW p \in StashPaths
          PROVE  /\ wt'[p] = AtSave.wt[p] \/ PassedOver(AtSave, p)
                    \/ (wt'[p] = "marked" /\ s.work[p] = "conflict")
                 /\ Has(s.work, p) => s.work[p] \in {wt'[p], top[p]} \/ s.work[p] = "conflict"
                 /\ Has(s.untracked, p) => s.untracked[p] = wt'[p]
                 /\ Has(wt, p) => wt[p] \in {wt'[p], top[p]} \/ wt'[p] = "marked"
                 /\ ~Conflicted(idx') => s.work[p] # "conflict" /\ (restore => idx'[p] = s.index[p])
      BY <1>4, <2>1, <3>3, <3>4, AppliedToHead DEF index
    <3>6. /\ was'.wt = wt /\ was'.idx = idx /\ was'.list = list' /\ was'.top = top'
          /\ AtSave' = AtSave
      BY <1>1 DEF There, AtSave
    <3>7. NothingIsLost'
      <4>1. SUFFICES ASSUME NEW c \in Entries(was'.wt) \cup Entries(was'.idx) \cup Stashed(was'.list)
                     PROVE  \/ c \in (Entries(wt) \cup Entries(idx) \cup Stashed(list) \cup Entries(top))'
                            \/ wt'[c[1]] = "marked"
        BY <2>3 DEF NothingIsLost
      <4>2. CASE c \in Entries(was'.wt)
        <5>1. PICK p \in StashPaths : Has(wt, p) /\ c = <<p, wt[p]>>
          BY <3>6, <4>2 DEF Entries
        <5>2. wt[p] \in {wt'[p], top'[p]} \/ wt'[p] = "marked"
          BY <1>1, <3>5, <5>1
        <5> QED BY <5>1, <5>2 DEF Entries, Has
      <4>3. CASE c \in Entries(was'.idx)
        BY <1>1, <3>3, <3>6, <4>3
      <4> QED BY <3>6, <4>1, <4>2, <4>3
    <3>8. BackAsItWas'
      BY <1>2, <2>2, <3>6 DEF BackAsItWas
    <3>9. ASSUME stashing'.pc = "drop" PROVE DropOK'
      <4>1. ~Conflicted(idx')
        BY <2>1, <2>2, <3>9 DEF index
      <4>2. list' # <<>> /\ list'[1] = s /\ list' = <<s>> /\ s.base = top'
        BY <1>1, <3>2, <3>3
      <4>3. ASSUME NEW p \in StashPaths
            PROVE  /\ Has(s.work, p) => s.work[p] \in {wt'[p], top'[p]}
                   /\ Has(s.untracked, p) => s.untracked[p] \in {wt'[p], top'[p]}
                   /\ restore => idx'[p] = s.index[p]
                   /\ Has(wt, p) => wt[p] \in {wt'[p], top'[p]} \/ wt'[p] = "marked"
                   /\ idx[p] = top'[p]
                   /\ wt'[p] = AtSave.wt[p] \/ PassedOver(AtSave, p)
        BY <1>1, <3>3, <3>5, <4>1
      <4>4. ASSUME NEW p \in StashPaths, restore
            PROVE  idx'[p] = AtSave.idx[p] \/ Displaced(p)'
        <5>1. s.index[p] = AtSave.idx[p] \/ Displaced(p)
          BY <3>4 DEF Gives
        <5>2. Displaced(p)' = Displaced(p)
          BY <1>1 DEF Displaced, Held, Holders
        <5> QED BY <4>3, <4>4, <5>1, <5>2
      <4> QED BY <1>2, <3>6, <4>2, <4>3, <4>4 DEF DropOK
    <3>10. stashing'.pc \notin Reverting /\ stashing'.kind \in {"apply", "pop"}
           /\ (stashing'.pc = "drop" => stashing'.kind = "pop")
      BY <1>2, <2>2 DEF Reverting
    <3> QED BY <1>2, <2>3, <3>7, <3>8, <3>9, <3>10 DEF GivesInv, StashGivesBack
  <2> QED BY <2>4, <2>5
<1> QED BY <1>3, <1>4

LEMMA DropAfterPopGives ==
  ASSUME GivesInv, StashListInv, DropAfterPop
  PROVE  GivesInv'
<1>1. /\ UNCHANGED <<top, idx, wt, wroteBeyond, was, saved, raced>> /\ ~wroteBeyond
      /\ stashing.kind = "pop" /\ stashing.pc = "drop" /\ DOMAIN stashing = StashFields
      /\ list' = IF stashing.at <= Len(list) THEN RemoveAt(list, stashing.at) ELSE list
      /\ stashing' = [stashing EXCEPT !.pc = "idle", !.outcome = "done"]
  BY DEF DropAfterPop, Ends, GivesInv
<1>2. /\ stashing'.kind = "pop" /\ stashing'.pc = "idle" /\ stashing'.outcome = "done"
      /\ stashing'.restore = stashing.restore /\ stashing'.id = stashing.id
      /\ DOMAIN stashing' = StashFields /\ DOMAIN saved' = {"there", "sel", "since"}
  BY <1>1 DEF StashFields, GivesInv
<1>3. StashGivesBack'
  <2>1. CASE saved.since
    BY <1>1, <2>1, SinceExcuses
  <2>2. CASE ~saved.since
    <3>1. DropOK
      BY <1>1, <2>2 DEF GivesInv
    <3>2. PICK s : s = list[1]
      OBVIOUS
    <3>3. list = <<s>> /\ s.base = top /\ was.list = <<s>> /\ was.top = top
      BY <3>1, <3>2 DEF DropOK
    <3>4. \A p \in StashPaths :
            /\ Has(s.work, p) => s.work[p] \in {wt[p], top[p]}
            /\ Has(s.untracked, p) => s.untracked[p] \in {wt[p], top[p]}
            /\ stashing.restore => idx[p] = s.index[p]
            /\ Has(was.wt, p) => was.wt[p] \in {wt[p], top[p]} \/ wt[p] = "marked"
            /\ was.idx[p] = top[p]
            /\ wt[p] = AtSave.wt[p] \/ PassedOver(AtSave, p)
            /\ stashing.restore => idx[p] = AtSave.idx[p] \/ Displaced(p)
      BY <3>1, <3>2 DEF DropOK
    <3>5. ~raced => s.id = stashing.id
      BY <1>1, <3>3 DEF StashListInv
    <3>6. NothingIsLost'
      <4>1. SUFFICES ASSUME ~raced,
                            NEW c \in Entries(was.wt) \cup Entries(was.idx)
                                      \cup (Stashed(was.list) \ GivenUp')
                     PROVE  c \in Entries(wt) \cup Entries(idx) \cup Entries(top)
                            \/ wt[c[1]] = "marked"
        BY <1>1 DEF NothingIsLost
      <4>2. CASE c \in Entries(was.wt)
        BY <3>4, <4>2 DEF Entries, Has
      <4>3. CASE c \in Entries(was.idx)
        BY <3>4, <4>3 DEF Entries, Has
      <4>4. CASE c \in Stashed(was.list) \ GivenUp'
        <5>1. c \in Changes(s)
          BY <3>3, <4>4 DEF Stashed
        <5>2. CASE c \in Entries(s.work) \cup Entries(s.untracked)
          BY <3>4, <5>2 DEF Entries, Has
        <5>3. CASE c \in Entries(s.index)
          <6>1. stashing.restore
            <7>1. s \in {was'.list[i] : i \in {i \in DOMAIN was'.list : was'.list[i].id = stashing'.id}}
              BY <1>1, <1>2, <3>3, <3>5, <4>1
            <7> QED BY <1>2, <4>4, <5>3, <7>1 DEF GivenUp
          <6> QED BY <3>4, <5>3, <6>1 DEF Entries, Has
        <5> QED BY <5>1, <5>2, <5>3 DEF Changes
      <4> QED BY <4>1, <4>2, <4>3, <4>4
    <3>7. BackAsItWas'
      <4>1. \A p \in StashPaths : Displaced(p)' = Displaced(p)
        BY <1>1 DEF Displaced, Held, Holders
      <4> QED BY <1>1, <1>2, <3>4, <4>1 DEF BackAsItWas, AtSave
    <3> QED BY <3>6, <3>7 DEF StashGivesBack
  <2> QED BY <2>1, <2>2
<1> QED BY <1>1, <1>2, <1>3 DEF GivesInv, Reverting

LEMMA DropGives ==
  ASSUME GivesInv, StashListInv, NEW at \in DOMAIN listed, Drop(at)
  PROVE  GivesInv'
<1>1. /\ UNCHANGED <<top, idx, wt, wroteBeyond, saved>> /\ ~wroteBeyond
      /\ stashing.kind = "save" /\ was' = There
      /\ stashing' = [None EXCEPT !.kind = "drop", !.at = at, !.id = listed[at],
                                  !.outcome = IF IsListed(at) THEN "done" ELSE "refused"]
      /\ list' = IF IsListed(at) THEN RemoveAt(list, at) ELSE list
  BY DEF Drop, Begins, GivesInv
<1>2. /\ stashing'.kind = "drop" /\ stashing'.pc = "idle" /\ stashing'.id = listed[at]
      /\ stashing'.outcome = IF IsListed(at) THEN "done" ELSE "refused"
      /\ DOMAIN stashing' = StashFields /\ DOMAIN saved' = {"there", "sel", "since"}
  BY <1>1 DEF None, StashFields, GivesInv
<1>3. CASE ~IsListed(at)
  BY <1>1, <1>2, <1>3, RefusingGives
<1>4. CASE IsListed(at)
  <2>1. StashGivesBack'
    <3>1. CASE saved.since
      BY <1>1, <3>1, SinceExcuses
    <3>2. CASE ~saved.since
      <4>1. SaveOK
        BY <1>1, <3>2 DEF GivesInv
      <4>2. at \in Nat \ {0} /\ at <= Len(list) /\ list # <<>>
        BY <1>4 DEF StashListInv, IsListed
      <4>3. list = <<list[1]>>
        BY <4>1, <4>2 DEF SaveOK
      <4>4. at = 1 /\ list[1].id = stashing'.id
        BY <1>2, <1>4, <4>2, <4>3 DEF IsListed
      <4>5. was'.wt = wt' /\ was'.idx = idx' /\ was'.list = list
        BY <1>1 DEF There
      <4>6. Stashed(was'.list) \subseteq GivenUp'
        <5>1. PICK s : s = list[1]
          OBVIOUS
        <5>2. was'.list = <<s>> /\ s.id = stashing'.id
          BY <4>3, <4>4, <4>5, <5>1
        <5>3. s \in {was'.list[i] : i \in {i \in DOMAIN was'.list : was'.list[i].id = stashing'.id}}
          BY <5>2
        <5>4. Changes(s) \subseteq GivenUp'
          BY <1>2, <5>3 DEF GivenUp
        <5> QED BY <5>2, <5>4 DEF Stashed
      <4>7. NothingIsLost'
        BY <1>1, <4>5, <4>6 DEF NothingIsLost
      <4> QED BY <1>2, <4>7 DEF StashGivesBack, BackAsItWas
    <3> QED BY <3>1, <3>2
  <2> QED BY <1>1, <1>2, <2>1 DEF GivesInv, Reverting
<1> QED BY <1>3, <1>4

LEMMA OtherGives ==
  ASSUME GivesInv, OtherTool \/ Meanwhile
  PROVE  GivesInv'
<1>1. /\ stashing' = stashing /\ ~wroteBeyond /\ wroteBeyond' = wroteBeyond
      /\ saved' = [saved EXCEPT !.since = TRUE] /\ stashing.kind # "none"
  BY DEF OtherTool, Meanwhile, GivesInv
<1>2. saved'.since /\ DOMAIN saved' = {"there", "sel", "since"} /\ DOMAIN saved = DOMAIN saved'
  BY <1>1 DEF GivesInv
<1>3. StashGivesBack'
  BY <1>1, <1>2, SinceExcuses
<1> QED BY <1>1, <1>2, <1>3 DEF GivesInv

LEMMA StutterGives ==
  ASSUME GivesInv,
         UNCHANGED <<top, idx, wt, rules, list, wroteBeyond, stashing, was, saved, raced>>
  PROVE  GivesInv'
<1>1. SaveOK => SaveOK'
  BY DEF SaveOK, PathSaved, Reverted, StillHeld, Gives, PickedOnes, NewOnes, AtSave, IsIgnored, PassedOver, Displaced
<1>2. DropOK => DropOK'
  BY DEF DropOK, AtSave, PassedOver, Displaced
<1>3. StashGivesBack'
  BY DEF GivesInv, StashGivesBack, NothingIsLost, BackAsItWas, GivenUp, Displaced
<1> QED BY <1>1, <1>2, <1>3 DEF GivesInv

LEMMA StashStepsGive ==
  ASSUME GivesInv, StashListInv, [StashNext]_stashVars
  PROVE  GivesInv'
<1>1. CASE Lists \/ UNCHANGED stashVars
  BY <1>1, StutterGives DEF Lists, stashVars
<1>2. CASE OtherTool \/ Meanwhile
  BY <1>2, OtherGives
<1> QED BY <1>1, <1>2, SaveGives, RemoveUntrackedGives, ClearLeafLinksGives, CheckOutGives,
           StopsGives, ApplyGives, DropAfterPopGives, DropGives DEF StashNext

LEMMA StashInitGives == StashInit => GivesInv
<1>1. SUFFICES ASSUME StashInit PROVE GivesInv
  OBVIOUS
<1>2. /\ stashing.kind = "none" /\ stashing.pc = "idle" /\ DOMAIN stashing = StashFields
      /\ DOMAIN saved = {"there", "sel", "since"} /\ list = <<>> /\ ~wroteBeyond
  BY <1>1 DEF StashInit, None, StashFields
<1>3. \A p \in StashPaths : wt[p] = "repo" => ~IsDir(top, p) /\ ~IsDir(idx, p)
  BY <1>1 DEF StashInit
<1>4. IsTree(top)
  BY <1>1, StashAssumption DEF StashInit
<1>5. StashGivesBack
  BY <1>2 DEF StashGivesBack, NothingIsLost, BackAsItWas
<1> QED BY <1>2, <1>3, <1>4, <1>5 DEF GivesInv, Reverting

(* Whatever is stashed, whole or by path, by libgit2 or by Browsitory's own way, wherever the *)
(* revert stops, and whatever is then applied, popped or dropped: nothing the user had is     *)
(* lost, nothing is written through a link, and a stash popped right away gives back what it  *)
(* took (save_stash, entry_in_the_way, selected_paths, apply_stash, pop_stash, drop_stash).   *)
THEOREM WhatIsStashedIsGivenBack == ChangesSpec => []StashGivesBack
<1>1. ChangesInit => StashListInv /\ GivesInv
  BY StashListInit, StashInitGives DEF ChangesInit, StashAtRest
<1>2. StashListInv /\ GivesInv /\ [ChangesNext]_changeVars => StashListInv' /\ GivesInv'
  BY StashListStep, StashStepsGive, ChangesStepsOfStash
<1>3. GivesInv => StashGivesBack
  BY DEF GivesInv
<1> QED BY <1>1, <1>2, <1>3, PTL DEF ChangesSpec

-----------------------------------------------------------------------------
(* Conflicts: the commit a nested repository has checked out *)

(* After n reads the search stands at the end of a chain of n symbolic refs, or has ended as   *)
(* git's reading does.                                                                         *)
ReadSoFar(repo, n, s) ==
  /\ s = [says |-> s.says, end |-> s.end]
  /\ s.end = Open => \E chain \in ChainsOf(repo, n) : SaysAt(repo, chain, n) = s.says
  /\ s.end.why # "resolved"
  /\ s.end.why = "none" => GitReads(repo, s.end.id) \/ ReadsTooDeep(repo, s.end.id)

LEMMA ChainGrows ==
  ASSUME NEW repo, NEW n \in Nat, NEW chain \in ChainsOf(repo, n), NEW x \in DOMAIN repo.loose,
         SaysAt(repo, chain, n) = x
  PROVE  \E longer \in ChainsOf(repo, n + 1) : longer[n + 1] = x
<1> DEFINE longer == [i \in 1..(n + 1) |-> IF i = n + 1 THEN x ELSE chain[i]]
<1>1. longer \in [1..(n + 1) -> DOMAIN repo.loose] /\ longer[n + 1] = x
  BY DEF ChainsOf
<1>2. ASSUME NEW i \in 1..(n + 1) PROVE longer[i] = SaysAt(repo, longer, i - 1)
  <2>1. CASE i = n + 1
    <3>1. longer[n] = chain[n] \/ n = 0
      OBVIOUS
    <3> QED BY <2>1, <3>1 DEF SaysAt
  <2>2. CASE i # n + 1
    <3>1. i \in 1..n /\ longer[i] = chain[i] /\ (i - 1 # 0 => longer[i - 1] = chain[i - 1])
      BY <2>2
    <3>2. chain[i] = SaysAt(repo, chain, i - 1)
      BY <3>1 DEF ChainsOf
    <3> QED BY <3>1, <3>2 DEF SaysAt
  <2> QED BY <2>1, <2>2
<1> HIDE DEF longer
<1> QED BY <1>1, <1>2 DEF ChainsOf

LEMMA ReadOnce ==
  ASSUME NEW repo, NEW n \in 0..4, NEW s, ReadSoFar(repo, n, s)
  PROVE  ReadSoFar(repo, n + 1, ReadRef(repo, s))
<1> DEFINE t == ReadRef(repo, s)
<1>1. CASE s.end # Open
  BY <1>1 DEF ReadRef, ReadSoFar
<1>2. CASE s.end = Open /\ s.says \in repo.commits
  <2>1. t = [says |-> s.says, end |-> HeadIs(s.says)]
    BY <1>2 DEF ReadRef
  <2>2. LooseAt(repo, n, s.says)
    BY <1>2 DEF ReadSoFar, LooseAt
  <2> QED BY <2>1, <2>2 DEF ReadSoFar, GitReads, HeadIs, Open, NotStaged
<1>3. CASE s.end = Open /\ s.says \notin repo.commits /\ s.says \in DOMAIN repo.loose
  <2>1. t = [says |-> repo.loose[s.says], end |-> Followed(repo, s.says)]
    BY <1>3 DEF ReadRef
  <2>2. PICK chain \in ChainsOf(repo, n + 1) : chain[n + 1] = s.says
    BY <1>3, ChainGrows DEF ReadSoFar
  <2>3. SaysAt(repo, chain, n + 1) = repo.loose[s.says]
    BY <2>2 DEF SaysAt
  <2>4. ASSUME Followed(repo, s.says).why = "none"
        PROVE  PackedAt(repo, n + 1, Followed(repo, s.says).id)
    BY <2>2, <2>4 DEF Followed, InPacked, PackedAt, HeadIs, NotStaged, Open
  <2>5. n + 1 \in 0..4 \/ n + 1 = 5
    OBVIOUS
  <2>6. Followed(repo, s.says).why = "none" =>
          GitReads(repo, Followed(repo, s.says).id) \/ ReadsTooDeep(repo, Followed(repo, s.says).id)
    BY <2>4, <2>5 DEF GitReads, ReadsTooDeep
  <2>7. Followed(repo, s.says).why # "resolved"
    BY DEF Followed, InPacked, HeadIs, NotStaged, Open
  <2> QED BY <2>1, <2>2, <2>3, <2>6, <2>7 DEF ReadSoFar
<1>4. CASE s.end = Open /\ s.says \notin repo.commits /\ s.says \notin DOMAIN repo.loose
  BY <1>4 DEF ReadRef, ReadSoFar, NotStaged, Open
<1> QED BY <1>1, <1>2, <1>3, <1>4

(* What nested_head returns is what git reads, or a fifth ref that is packed. *)
LEMMA NestedHeadIsGits ==
  ASSUME NEW repo, repo.git \notin {"none", "resolved"}
  PROVE  /\ NestedHead(repo).why # "resolved"
         /\ NestedHead(repo).why = "none" =>
              GitReads(repo, NestedHead(repo).id) \/ ReadsTooDeep(repo, NestedHead(repo).id)
<1> DEFINE s0 == [says |-> repo.head, end |-> Open]
           s1 == ReadRef(repo, s0)
           s2 == ReadRef(repo, s1)
           s3 == ReadRef(repo, s2)
           s4 == ReadRef(repo, s3)
           s5 == ReadRef(repo, s4)
<1>1. ReadSoFar(repo, 0, s0)
  <2>1. PICK chain : chain = [i \in 1..0 |-> repo.head]
    OBVIOUS
  <2>2. chain \in ChainsOf(repo, 0)
    BY <2>1 DEF ChainsOf
  <2> QED BY <2>2 DEF ReadSoFar, SaysAt, Open, NotStaged
<1> HIDE DEF s0
<1>2. ReadSoFar(repo, 1, s1)
  BY <1>1, ReadOnce
<1> HIDE DEF s1
<1>3. ReadSoFar(repo, 2, s2)
  BY <1>2, ReadOnce
<1> HIDE DEF s2
<1>4. ReadSoFar(repo, 3, s3)
  BY <1>3, ReadOnce
<1> HIDE DEF s3
<1>5. ReadSoFar(repo, 4, s4)
  BY <1>4, ReadOnce
<1> HIDE DEF s4
<1>6. ReadSoFar(repo, 5, s5)
  BY <1>5, ReadOnce
<1>7. NestedHead(repo) = IF repo.git # "inside" THEN NotStaged(repo.git)
                         ELSE IF s5.end = Open THEN NotStaged("too deep") ELSE s5.end
  BY DEF NestedHead, s0, s1, s2, s3, s4
<1> HIDE DEF s5
<1>8. \/ NestedHead(repo).why = repo.git
      \/ NestedHead(repo).why = "too deep"
      \/ NestedHead(repo) = s5.end
  <2>1. \A w : NotStaged(w).why = w
    BY DEF NotStaged
  <2>2. CASE repo.git # "inside"
    BY <1>7, <2>1, <2>2
  <2>3. CASE repo.git = "inside" /\ s5.end = Open
    BY <1>7, <2>1, <2>3
  <2>4. CASE repo.git = "inside" /\ s5.end # Open
    BY <1>7, <2>4
  <2> QED BY <2>2, <2>3, <2>4
<1> QED BY <1>6, <1>8 DEF ReadSoFar

-----------------------------------------------------------------------------
(* Conflicts: resolutions *)

(* The worker's copy is the index, but for what a merge left since.                           *)
IndexKept ==
  /\ DOMAIN stages = Contested /\ DOMAIN known = Contested
  /\ \A p \in Contested :
       /\ stages[p].stage = "conflict" => stages[p].of \in Clashes[p]
       /\ known[p].stage = "conflict" => known[p].of \in Clashes[p]
       /\ stages[p] = known[p] \/ stages[p].stage = "conflict"

SomethingThere(t) == 
  /\ t.kind = "none" => t = Nothing
  /\ t.kind = "folder" => t.repo.git \notin {"none", "resolved"}

PlacesKept ==
  /\ DOMAIN onDisk = Contested
  /\ \A p \in Contested :
       /\ DOMAIN onDisk[p] = {"leaf", "linked", "beyond"} /\ onDisk[p].linked \in BOOLEAN
       /\ SomethingThere(onDisk[p].leaf)

(* Each step of a resolution: what it is about to write is what was chosen, what it has read   *)
(* stood there, what stands there has been seen.                                               *)
MarkKept ==
  /\ job.step \in {"read", "probe", "stage what was read", "folder held"}
  /\ Here(job.path) \in job.stood
  /\ job.step \in {"stage what was read", "folder held"} => WasRead \in job.stood
  /\ job.step = "stage what was read" /\ job.side = "checked" /\ WasRead.kind = "file" => ~Marked(WasRead.text)
  /\ job.step = "folder held" => WasRead.kind = "folder" /\ WasRead.repo.git \notin {"none", "resolved"}

ChoiceKept ==
  /\ job.step \in {"write", "check out", "remove", "stage"}
  /\ job.step = "remove" => ~HasSide(job.of[1], job.side)
  /\ job.step = "check out" => job.do = "whole file"
  /\ job.step = "write" => job.lines = Chosen
  /\ job.step = "stage" => Linked(job.path) \/ Here(job.path) \in job.stood \cup {FileOf(Chosen)}

JobFields == {"do", "path", "side", "lines", "step", "of", "read", "stood", "left"}
Does == {"resolve", "whole file", "add or delete", "mark"}

ResolutionKept ==
  Working =>
    /\ DOMAIN job = JobFields /\ job.do \in Does /\ job.path \in Contested
    /\ InConflict(job.path) /\ job.of = <<known[job.path].of>>
    /\ job.left \in BOOLEAN /\ (Linked(job.path) => job.left)
    /\ IF job.do = "mark" THEN MarkKept ELSE ChoiceKept

(* The hunks the window has, or is about to get, are those of the file they are said to be of. *)
FromFile(p, hunks) == \E c \in Clashes[p] : IsText(c) /\ hunks = ShownHunks(c)

HunksKept ==
  /\ DOMAIN pane = {"path", "hunks", "loaded", "failed"}
  /\ pane.path \in Contested \cup {"none"}
  /\ pane.loaded # "none" /\ ~pane.failed => FromFile(pane.loaded, pane.hunks)
  /\ \A a \in asked :
       /\ DOMAIN a = {"path", "live", "answer", "hunks"} /\ a.path \in Contested
       /\ a.answer = "hunks" => FromFile(a.path, a.hunks)

Resolving == IndexKept /\ PlacesKept /\ ResolutionKept

(* Where a resolution begins. *)
StartsRight(j) ==
  \/ j.do = "mark" /\ j.step = "read"
  \/ j.do = "resolve" /\ j.step = "write"
  \/ j.do = "whole file" /\ j.step = "check out"
  \/ j.do \in {"whole file", "add or delete"} /\ j.step = "remove" /\ ~HasSide(known[j.path].of, j.side)
  \/ j.do = "add or delete" /\ j.step = "write" /\ j.lines = SideText(known[j.path].of, j.side)

LEMMA BeginResolves ==
  ASSUME Resolving, NEW do, NEW p \in Contested, NEW side, NEW lines, NEW step, NEW allowed,
         Begin(Begun(do, p, side, lines, step), allowed),
         InConflict(p) => StartsRight(Begun(do, p, side, lines, step))
  PROVE  Resolving' /\ StagedAsChosen
<1> DEFINE next == Begun(do, p, side, lines, step)
<1>1. UNCHANGED <<stages, known, onDisk>> /\ ~Working
  BY DEF Begin
<1>2. IndexKept' /\ PlacesKept'
  BY <1>1 DEF Resolving, IndexKept, PlacesKept
<1>3. reported' # "resolved" \/ reported' = reported
  BY DEF Begin
<1>4. StagedAsChosen
  BY <1>1 DEF StagedAsChosen
<1>5. next.path = p /\ DOMAIN next = JobFields
  BY DEF Begun, JobFields
<1>6. CASE job' = job
  BY <1>1, <1>2, <1>4, <1>6 DEF Resolving, ResolutionKept, Working
<1>7. CASE job' # job
  <2>1. /\ InConflict(p) /\ ~Linked(p)
        /\ job' = [next EXCEPT !.of = <<known[p].of>>]
    BY <1>5, <1>7 DEF Begin
  <2>2. job' = [do |-> do, path |-> p, side |-> side, lines |-> lines, step |-> step,
                of |-> <<known[p].of>>, read |-> <<>>, stood |-> {Here(p)}, left |-> FALSE]
    BY <2>1 DEF Begun
  <2>3. InConflict(p)' /\ Here(p)' = Here(p) /\ Linked(p)' = Linked(p) /\ known'[p].of = known[p].of
    BY <1>1, <2>1 DEF InConflict, Here, Linked
  <2>4. /\ DOMAIN job' = JobFields /\ job'.do = do /\ job'.path = p /\ job'.side = side
        /\ job'.lines = lines /\ job'.step = step /\ job'.of[1] = known[p].of
        /\ job'.of = <<known[p].of>> /\ job'.stood = {Here(p)} /\ job'.left = FALSE
    BY <2>2 DEF JobFields
  <2>5. StartsRight(next)
    BY <2>1
  <2>6. \/ do = "mark" /\ step = "read"
        \/ do = "resolve" /\ step = "write"
        \/ do = "whole file" /\ step = "check out"
        \/ do \in {"whole file", "add or delete"} /\ step = "remove" /\ ~HasSide(known[p].of, side)
        \/ do = "add or delete" /\ step = "write" /\ lines = SideText(known[p].of, side)
    BY <2>5 DEF StartsRight, Begun
  <2>7. do \in Does
    BY <2>6 DEF Does
  <2>8. Here(job.path)' = Here(p) /\ Linked(job.path)' = Linked(p) /\ InConflict(job.path)'
    BY <2>3, <2>4 DEF Here, Linked, InConflict
  <2>9. (do = "mark" => MarkKept')
    BY <2>4, <2>6, <2>8 DEF MarkKept
  <2>10. Chosen' = IF do = "resolve" THEN lines ELSE SideText(known[p].of, side)
    BY <2>4 DEF Chosen, SideText
  <2>11. (do # "mark" => ChoiceKept')
    BY <2>4, <2>6, <2>8, <2>10 DEF ChoiceKept
  <2>12. ResolutionKept'
    BY <1>1, <2>1, <2>3, <2>4, <2>7, <2>8, <2>9, <2>11 DEF ResolutionKept
  <2> QED BY <1>2, <1>4, <2>12 DEF Resolving
<1> QED BY <1>6, <1>7

(* The index is written: what was chosen for the path of the resolution, and the copy as it    *)
(* is for the others.                                                                          *)
LEMMA IndexWritten ==
  ASSUME Resolving, Working, NEW what, what.stage # "conflict", WriteIndex(what),
         IndexAsChosen(what)
  PROVE  /\ IndexKept' /\ stages' # stages
         /\ \A p \in Contested : stages'[p] # stages[p] =>
              IF p = job.path THEN IndexAsChosen(stages'[p]) ELSE known # stages
<1>1. /\ job.path \in Contested /\ InConflict(job.path)
      /\ DOMAIN known = Contested /\ DOMAIN stages = Contested
  BY DEF Resolving, ResolutionKept, IndexKept
<1>2. /\ stages' = known' /\ DOMAIN known' = Contested /\ known'[job.path] = what
      /\ \A p \in Contested : p # job.path => known'[p] = known[p]
  BY <1>1 DEF WriteIndex
<1>3. stages[job.path].stage = "conflict"
  BY <1>1 DEF Resolving, IndexKept, InConflict
<1>4. IndexKept'
  BY <1>1, <1>2 DEF Resolving, IndexKept
<1> QED BY <1>1, <1>2, <1>3, <1>4

LEMMA StagesRight ==
  ASSUME Resolving, Working, NEW what, what.stage # "conflict", Stage(what), IndexAsChosen(what)
  PROVE  Resolving' /\ StagedAsChosen
<1>1. job' = Idle /\ UNCHANGED onDisk /\ WriteIndex(what)
  BY DEF Stage, Says
<1>2. /\ IndexKept' /\ stages' # stages
      /\ \A p \in Contested : stages'[p] # stages[p] =>
           IF p = job.path THEN IndexAsChosen(stages'[p]) ELSE known # stages
  BY <1>1, IndexWritten
<1>3. PlacesKept' /\ ResolutionKept'
  BY <1>1 DEF Resolving, PlacesKept, ResolutionKept, Working
<1>4. StagedAsChosen
  BY <1>1, <1>2 DEF StagedAsChosen
<1> QED BY <1>2, <1>3, <1>4 DEF Resolving

LEMMA GivesUpRight ==
  ASSUME Resolving, NEW why, why # "resolved", Says(why), UNCHANGED <<stages, known, onDisk>>
  PROVE  Resolving' /\ StagedAsChosen
<1>1. IndexKept' /\ PlacesKept' /\ ResolutionKept'
  BY DEF Resolving, IndexKept, PlacesKept, ResolutionKept, Working, Says
<1> QED BY <1>1 DEF Resolving, StagedAsChosen, Says

(* A step that only the resolution itself notices. *)
LEMMA MarkGoesOn ==
  ASSUME Resolving, Working, job.do = "mark", NEW step, NEW read,
         job' = [job EXCEPT !.step = step, !.read = read],
         UNCHANGED <<stages, known, onDisk, reported>>,
         \/ step = "probe"
         \/ step \in {"stage what was read", "folder held"} /\ read[1] \in job.stood,
         step = "stage what was read" /\ job.side = "checked" /\ read[1].kind = "file" => ~Marked(read[1].text),
         step = "folder held" => read[1].kind = "folder" /\ read[1].repo.git \notin {"none", "resolved"}
  PROVE  Resolving' /\ StagedAsChosen
<1>1. /\ DOMAIN job = JobFields /\ job.path \in Contested /\ InConflict(job.path)
      /\ job.of = <<known[job.path].of>> /\ job.left \in BOOLEAN /\ (Linked(job.path) => job.left)
      /\ MarkKept
  BY DEF Resolving, ResolutionKept
<1>2. /\ DOMAIN job' = JobFields /\ job'.do = "mark" /\ job'.path = job.path /\ job'.side = job.side
      /\ job'.step = step /\ job'.of = job.of /\ job'.read = read /\ job'.stood = job.stood
      /\ job'.left = job.left
  BY <1>1 DEF JobFields
<1>3. Here(job.path)' = Here(job.path) /\ Linked(job.path)' = Linked(job.path) /\ InConflict(job.path)'
  BY <1>1, <1>2 DEF Here, Linked, InConflict
<1>4. MarkKept'
  BY <1>1, <1>2, <1>3 DEF MarkKept, WasRead
<1>5. ResolutionKept'
  BY <1>1, <1>2, <1>3, <1>4 DEF ResolutionKept, Does
<1>6. IndexKept' /\ PlacesKept'
  BY DEF Resolving, IndexKept, PlacesKept
<1> QED BY <1>5, <1>6 DEF Resolving, StagedAsChosen

LEMMA ReadLeafKeeps == ASSUME Resolving, ReadLeaf PROVE Resolving' /\ StagedAsChosen
<1> DEFINE t == Here(job.path)
<1>1. Working /\ job.do = "mark" /\ MarkKept /\ DOMAIN job = JobFields
  BY DEF ReadLeaf, At, Resolving, ResolutionKept
<1>2. CASE GiveUp
  BY <1>2, GivesUpRight DEF GiveUp
<1>3. CASE Says("markers remain") /\ UNCHANGED <<stages, known, onDisk>>
  BY <1>3, GivesUpRight
<1>4. CASE Go("probe")
  <2>1. job' = [job EXCEPT !.step = "probe", !.read = job.read]
    BY <1>1, <1>4 DEF Go, JobFields
  <2>2. UNCHANGED <<stages, known, onDisk, reported>>
    BY <1>4 DEF Go
  <2> QED BY <1>1, <2>1, <2>2, MarkGoesOn
<1>5. CASE /\ job' = [job EXCEPT !.step = "stage what was read", !.read = <<t>>]
           /\ UNCHANGED <<stages, known, onDisk, reported>>
           /\ job.side = "checked" /\ t.kind = "file" => ~Marked(t.text)
  <2>1. <<t>>[1] = t /\ t \in job.stood
    BY <1>1 DEF MarkKept
  <2> QED BY <1>1, <1>5, <2>1, MarkGoesOn
<1> QED BY <1>2, <1>3, <1>4, <1>5 DEF ReadLeaf

LEMMA StageReadKeeps == ASSUME Resolving, StageRead PROVE Resolving' /\ StagedAsChosen
<1>1. Working /\ job.do = "mark" /\ MarkKept /\ job.step = "stage what was read"
  BY DEF StageRead, At, Resolving, ResolutionKept
<1>2. CASE GiveUp
  BY <1>2, GivesUpRight DEF GiveUp
<1>3. CASE WasRead.kind \in {"file", "link"} /\ Stage(Entry(WasRead.kind, WasRead.text))
  <2> DEFINE what == Entry(WasRead.kind, WasRead.text)
  <2>1. what.stage = "entry" /\ what # Gone
    BY DEF Entry, Gone
  <2>2. StagedFrom(WasRead, what)
    BY <1>3 DEF StagedFrom
  <2>3. IndexAsChosen(what)
    BY <1>1, <2>1, <2>2 DEF IndexAsChosen, MarkKept
  <2> QED BY <1>1, <1>3, <2>1, <2>3, StagesRight
<1> QED BY <1>2, <1>3 DEF StageRead

LEMMA ProbeLeafKeeps == ASSUME Resolving, ProbeLeaf PROVE Resolving' /\ StagedAsChosen
<1> DEFINE t == Here(job.path)
<1>1. /\ Working /\ job.do = "mark" /\ MarkKept /\ job.path \in Contested
  BY DEF ProbeLeaf, At, Resolving, ResolutionKept
<1>2. SomethingThere(t)
  BY <1>1 DEF Resolving, PlacesKept, Here
<1>3. CASE GiveUp
  BY <1>3, GivesUpRight DEF GiveUp
<1>4. CASE Probe = "none" /\ Stage(Gone)
  <2>1. t = Nothing
    BY <1>2, <1>4 DEF Probe, SomethingThere
  <2>2. IndexAsChosen(Gone) /\ Gone.stage # "conflict"
    BY <1>1, <2>1 DEF IndexAsChosen, MarkKept, Gone
  <2> QED BY <1>1, <1>4, <2>2, StagesRight
<1>5. CASE /\ Probe = "folder" /\ job' = [job EXCEPT !.step = "folder held", !.read = <<t>>]
           /\ UNCHANGED <<stages, known, onDisk, reported>>
  <2>1. t.kind = "folder" /\ t.repo.git \notin {"none", "resolved"} /\ <<t>>[1] = t /\ t \in job.stood
    BY <1>1, <1>2, <1>5 DEF Probe, SomethingThere, MarkKept
  <2> QED BY <1>1, <1>5, <2>1, MarkGoesOn
<1> QED BY <1>3, <1>4, <1>5 DEF ProbeLeaf

(* A folder is staged as the commit it has checked out. *)
LEMMA FolderStaged ==
  ASSUME NEW t, t.kind = "folder", t.repo.git \notin {"none", "resolved"}, NestedHead(t.repo).why = "none"
  PROVE  StagedFrom(t, Entry("gitlink", NestedHead(t.repo).id))
<1> DEFINE id == NestedHead(t.repo).id
<1>1. GitReads(t.repo, id) \/ ReadsTooDeep(t.repo, id)
  BY NestedHeadIsGits
<1> HIDE DEF id
<1>2. Entry("gitlink", id).kind = "gitlink" /\ Entry("gitlink", id).what = id
  BY DEF Entry
<1>3. StagedFrom(t, Entry("gitlink", id))
  BY <1>1, <1>2 DEF StagedFrom
<1> QED BY <1>3 DEF id

LEMMA StageNestedKeeps == ASSUME Resolving, StageNested PROVE Resolving' /\ StagedAsChosen
<1> DEFINE head == NestedHead(WasRead.repo)
<1>1. Working /\ job.do = "mark" /\ MarkKept /\ job.step = "folder held"
  BY DEF StageNested, At, Resolving, ResolutionKept
<1>2. WasRead \in job.stood /\ WasRead.kind = "folder" /\ WasRead.repo.git \notin {"none", "resolved"}
  BY <1>1 DEF MarkKept
<1>3. CASE head.why = "none" /\ Stage(Entry("gitlink", head.id))
  <2> DEFINE what == Entry("gitlink", head.id)
  <2>1. StagedFrom(WasRead, what)
    BY <1>2, <1>3, FolderStaged
  <2>2. what.stage = "entry" /\ what # Gone
    BY DEF Entry, Gone
  <2> HIDE DEF what
  <2>3. IndexAsChosen(what)
    BY <1>1, <1>2, <2>1, <2>2 DEF IndexAsChosen
  <2>4. Stage(what)
    BY <1>3 DEF what
  <2> QED BY <1>1, <2>2, <2>3, <2>4, StagesRight
<1>4. CASE head.why # "none" /\ Says(head.why) /\ UNCHANGED <<stages, known, onDisk>>
  <2>1. head.why # "resolved"
    BY <1>2, NestedHeadIsGits
  <2> QED BY <1>4, <2>1, GivesUpRight
<1> QED BY <1>3, <1>4 DEF StageNested

LEMMA TheOneInIt == ASSUME NEW x PROVE <<x>>[1] = x
OBVIOUS

LEMMA ChoiceStays ==
  ASSUME job'.do = job.do, job'.lines = job.lines, job'.of = job.of, job'.side = job.side
  PROVE  Chosen' = Chosen
<1>1. Chosen = IF job.do = "resolve" THEN job.lines ELSE SideText(job.of[1], job.side)
  BY DEF Chosen, SideText
<1>2. Chosen' = IF job'.do = "resolve" THEN job'.lines ELSE SideText(job'.of[1], job'.side)
  BY DEF Chosen, SideText
<1>3. job'.of[1] = job.of[1]
  OBVIOUS
<1>4. SideText(job'.of[1], job'.side) = SideText(job.of[1], job.side)
  BY <1>3, Zenon
<1> QED BY <1>1, <1>2, <1>4, Zenon

(* What a resolution of one of the other kinds knows of itself. *)
LEMMA ChoiceHeld ==
  ASSUME Resolving, Working, job.step \in {"write", "check out", "remove", "stage"}
  PROVE  /\ DOMAIN job = JobFields /\ job.do \in Does /\ job.do # "mark" /\ job.path \in Contested
         /\ InConflict(job.path) /\ job.of = <<known[job.path].of>> /\ job.of[1] = known[job.path].of
         /\ job.left \in BOOLEAN /\ (Linked(job.path) => job.left)
         /\ ChoiceKept
<1>1. job.do # "mark"
  BY DEF Resolving, ResolutionKept, MarkKept
<1>2. ResolutionKept /\ ChoiceKept
  BY <1>1 DEF Resolving, ResolutionKept
<1>3. job.of = <<known[job.path].of>>
  BY <1>2 DEF ResolutionKept
<1>4. job.of[1] = known[job.path].of
  BY <1>3, TheOneInIt
<1> QED BY <1>1, <1>2, <1>3, <1>4 DEF ResolutionKept

(* What was chosen is written, and the path is staged next. *)
LEMMA WrittenRight ==
  ASSUME Resolving, Working, job.step \in {"write", "check out"}, NEW disk,
         disk = [onDisk[job.path] EXCEPT !.linked = FALSE, !.leaf = FileOf(Chosen)],
         onDisk' = [onDisk EXCEPT ![job.path] = disk],
         job' = [job EXCEPT !.step = "stage", !.stood = {}, !.left = FALSE],
         UNCHANGED <<stages, known, reported>>
  PROVE  Resolving' /\ StagedAsChosen
<1>1. /\ DOMAIN job = JobFields /\ job.do \in Does /\ job.do # "mark" /\ job.path \in Contested
      /\ InConflict(job.path) /\ job.of = <<known[job.path].of>>
  BY ChoiceHeld
<1>2. /\ DOMAIN onDisk = Contested /\ DOMAIN onDisk[job.path] = {"leaf", "linked", "beyond"}
  BY <1>1 DEF Resolving, PlacesKept
<1>3. /\ DOMAIN disk = {"leaf", "linked", "beyond"} /\ disk.linked = FALSE /\ disk.leaf = FileOf(Chosen)
      /\ DOMAIN onDisk' = Contested /\ onDisk'[job.path] = disk
      /\ \A p \in Contested : p # job.path => onDisk'[p] = onDisk[p]
  BY <1>1, <1>2
<1>4. SomethingThere(disk.leaf)
  BY <1>3 DEF SomethingThere, FileOf
<1>5. PlacesKept'
  BY <1>3, <1>4 DEF Resolving, PlacesKept, SomethingThere
<1>6. IndexKept'
  BY DEF Resolving, IndexKept
<1>7. /\ DOMAIN job' = JobFields /\ job'.do = job.do /\ job'.path = job.path /\ job'.side = job.side
      /\ job'.lines = job.lines /\ job'.step = "stage" /\ job'.of = job.of /\ job'.left = FALSE
  BY <1>1 DEF JobFields
<1>8. Chosen' = Chosen
  BY <1>7, ChoiceStays
<1>9. Here(job.path)' = FileOf(Chosen') /\ ~Linked(job.path)' /\ InConflict(job.path)'
  BY <1>1, <1>3, <1>7, <1>8 DEF Here, Linked, InConflict
<1>10. ChoiceKept'
  BY <1>7, <1>9 DEF ChoiceKept
<1>11. ResolutionKept'
  BY <1>1, <1>7, <1>9, <1>10 DEF ResolutionKept
<1>12. ASSUME NEW p \in Contested, onDisk'[p] # onDisk[p] PROVE DiskAsChosen(p)
  BY <1>1, <1>3, <1>12 DEF DiskAsChosen
<1>13. StagedAsChosen
  BY <1>12 DEF StagedAsChosen
<1> QED BY <1>5, <1>6, <1>11, <1>13 DEF Resolving

LEMMA WriteResolvedKeeps == ASSUME Resolving, WriteResolved PROVE Resolving' /\ StagedAsChosen
<1>1. Working /\ job.step = "write"
  BY DEF WriteResolved
<1>2. /\ job.path \in Contested /\ job.lines = Chosen /\ DOMAIN onDisk = Contested
      /\ DOMAIN onDisk[job.path] = {"leaf", "linked", "beyond"} /\ onDisk[job.path].linked \in BOOLEAN
  BY <1>1, ChoiceHeld DEF ChoiceKept, Resolving, PlacesKept
<1>3. CASE GiveUp
  BY <1>3, GivesUpRight DEF GiveUp
<1>4. CASE /\ ~Linked(job.path)
           /\ onDisk' = [onDisk EXCEPT ![job.path].leaf = FileOf(job.lines)]
           /\ job' = [job EXCEPT !.step = "stage", !.stood = {}, !.left = FALSE]
           /\ UNCHANGED <<stages, known, reported>>
  <2> DEFINE disk == [onDisk[job.path] EXCEPT !.linked = FALSE, !.leaf = FileOf(Chosen)]
  <2>1. disk = [onDisk[job.path] EXCEPT !.leaf = FileOf(job.lines)]
    BY <1>2, <1>4 DEF Linked
  <2>2. onDisk' = [onDisk EXCEPT ![job.path] = disk]
    BY <1>2, <1>4, <2>1
  <2> QED BY <1>1, <1>4, <2>2, WrittenRight
<1> QED BY <1>3, <1>4 DEF WriteResolved

LEMMA CheckOutSideKeeps == ASSUME Resolving, CheckOutSide PROVE Resolving' /\ StagedAsChosen
<1>1. Working /\ job.step = "check out"
  BY DEF CheckOutSide
<1>2. /\ job.path \in Contested /\ job.do = "whole file" /\ job.of[1] = known[job.path].of
      /\ DOMAIN onDisk = Contested /\ DOMAIN onDisk[job.path] = {"leaf", "linked", "beyond"}
  BY <1>1, ChoiceHeld DEF ChoiceKept, Resolving, PlacesKept
<1>3. CASE GiveUp
  BY <1>3, GivesUpRight DEF GiveUp
<1>4. CASE /\ onDisk' = [onDisk EXCEPT ![job.path].linked = FALSE,
                            ![job.path].leaf = FileOf(SideText(known[job.path].of, job.side))]
           /\ job' = [job EXCEPT !.step = "stage", !.stood = {}, !.left = FALSE]
           /\ UNCHANGED <<stages, known, reported>>
  <2> DEFINE disk == [onDisk[job.path] EXCEPT !.linked = FALSE, !.leaf = FileOf(Chosen)]
  <2>1. Chosen = SideText(known[job.path].of, job.side)
    BY <1>2 DEF Chosen, SideText
  <2>2. onDisk' = [onDisk EXCEPT ![job.path] = disk]
    BY <1>2, <1>4, <2>1
  <2> QED BY <1>1, <1>4, <2>2, WrittenRight
<1> QED BY <1>3, <1>4 DEF CheckOutSide

LEMMA RemoveFileKeeps == ASSUME Resolving, RemoveFile PROVE Resolving' /\ StagedAsChosen
<1>1. Working /\ job.step = "remove"
  BY DEF RemoveFile
<1>2. /\ job.path \in Contested /\ job.do # "mark" /\ ~HasSide(job.of[1], job.side)
      /\ DOMAIN onDisk = Contested /\ DOMAIN onDisk[job.path] = {"leaf", "linked", "beyond"}
  BY <1>1, ChoiceHeld DEF ChoiceKept, Resolving, PlacesKept
<1>3. CASE GiveUp
  BY <1>3, GivesUpRight DEF GiveUp
<1>4. CASE /\ \/ onDisk' = onDisk
              \/ ~Linked(job.path) /\ onDisk' = [onDisk EXCEPT ![job.path].leaf = Nothing]
           /\ WriteIndex(Gone) /\ Says("resolved")
  <2>1. IndexAsChosen(Gone) /\ Gone.stage # "conflict"
    BY <1>2 DEF IndexAsChosen, Gone
  <2>2. /\ IndexKept' /\ stages' # stages
        /\ \A p \in Contested : stages'[p] # stages[p] =>
             IF p = job.path THEN IndexAsChosen(stages'[p]) ELSE known # stages
    BY <1>1, <1>4, <2>1, IndexWritten
  <2>3. ASSUME NEW p \in Contested, onDisk'[p] # onDisk[p]
        PROVE  /\ p = job.path /\ onDisk'[p].leaf = Nothing /\ ~onDisk'[p].linked
    BY <1>2, <1>4, <2>3 DEF Linked
  <2>4. DOMAIN onDisk' = Contested /\ \A p \in Contested : DOMAIN onDisk'[p] = DOMAIN onDisk[p]
    BY <1>2, <1>4
  <2>5. ASSUME NEW p \in Contested
        PROVE  /\ DOMAIN onDisk'[p] = {"leaf", "linked", "beyond"} /\ onDisk'[p].linked \in BOOLEAN
               /\ SomethingThere(onDisk'[p].leaf)
    <3>1. CASE onDisk'[p] = onDisk[p]
      BY <3>1 DEF Resolving, PlacesKept
    <3>2. CASE onDisk'[p] # onDisk[p]
      <4>1. onDisk'[p].leaf = Nothing /\ onDisk'[p].linked = onDisk[p].linked
        BY <1>2, <1>4, <2>3, <3>2
      <4> QED BY <2>4, <4>1 DEF SomethingThere, Nothing, Resolving, PlacesKept
    <3> QED BY <3>1, <3>2
  <2>6. PlacesKept' /\ ResolutionKept'
    BY <1>4, <2>4, <2>5 DEF PlacesKept, SomethingThere, ResolutionKept, Working, Says
  <2>7. \A p \in Contested : onDisk'[p] # onDisk[p] => DiskAsChosen(p)
    BY <1>2, <2>3 DEF DiskAsChosen
  <2>8. StagedAsChosen
    BY <1>1, <2>2, <2>7 DEF StagedAsChosen
  <2> QED BY <2>2, <2>6, <2>8 DEF Resolving
<1> QED BY <1>3, <1>4 DEF RemoveFile

LEMMA StageByPathKeeps == ASSUME Resolving, StageByPath PROVE Resolving' /\ StagedAsChosen
<1> DEFINE t == ByPath(job.path)
<1>1. Working /\ job.step = "stage"
  BY DEF StageByPath
<1>2. /\ job.path \in Contested /\ job.do # "mark" /\ (Linked(job.path) => job.left)
      /\ Linked(job.path) \/ (t = Here(job.path) /\ t \in job.stood \cup {FileOf(Chosen)})
      /\ SomethingThere(Here(job.path))
  BY <1>1, ChoiceHeld DEF ChoiceKept, Resolving, PlacesKept, ByPath, Here
<1>3. ASSUME NEW what, what.stage = "entry", Stage(what), 
             ~Linked(job.path) => StagedFrom(t, what) \/ (t = FileOf(Chosen) /\ what = Entry("file", Chosen)),
             t = FileOf(Chosen) => what = Entry("file", Chosen) \/ Linked(job.path)
      PROVE  Resolving' /\ StagedAsChosen
  <2>1. what # Gone /\ what.stage # "conflict"
    BY <1>3 DEF Gone
  <2>2. IndexAsChosen(what)
    BY <1>2, <1>3, <2>1 DEF IndexAsChosen
  <2> QED BY <1>1, <1>3, <2>1, <2>2, StagesRight
<1>4. CASE t.kind \in {"file", "link"} /\ Stage(Entry(t.kind, t.text))
  <2>1. StagedFrom(t, Entry(t.kind, t.text))
    BY <1>4 DEF StagedFrom
  <2>2. Entry(t.kind, t.text).stage = "entry"
    BY DEF Entry
  <2>3. t = FileOf(Chosen) => Entry(t.kind, t.text) = Entry("file", Chosen)
    BY DEF FileOf
  <2> HIDE DEF t
  <2> QED BY <1>3, <1>4, <2>1, <2>2, <2>3
<1>5. CASE t.kind = "folder" /\ NestedHead(t.repo).why = "none"
           /\ Stage(Entry("gitlink", NestedHead(t.repo).id))
  <2> DEFINE what == Entry("gitlink", NestedHead(t.repo).id)
  <2>1. ~Linked(job.path) => StagedFrom(t, what)
    BY <1>2, <1>5, FolderStaged DEF SomethingThere
  <2>2. what.stage = "entry"
    BY DEF Entry
  <2>3. t # FileOf(Chosen)
    BY <1>5 DEF FileOf
  <2>4. Stage(what)
    BY <1>5
  <2> HIDE DEF t, what
  <2> QED BY <1>3, <2>1, <2>2, <2>3, <2>4
<1>6. CASE GiveUp
  BY <1>6, GivesUpRight DEF GiveUp
<1>7. /\ t.kind = "file" => GiveUp \/ Stage(Entry("file", t.text))
      /\ t.kind = "link" => GiveUp \/ Stage(Entry("link", t.text))
  BY DEF StageByPath
<1>8. \/ GiveUp
      \/ t.kind \in {"file", "link"} /\ Stage(Entry(t.kind, t.text))
      \/ /\ t.kind = "folder" /\ NestedHead(t.repo).why = "none"
         /\ Stage(Entry("gitlink", NestedHead(t.repo).id))
  BY <1>7 DEF StageByPath
<1> QED BY <1>4, <1>5, <1>6, <1>8

LEMMA JobStepsKeep == ASSUME Resolving, JobSteps PROVE Resolving' /\ StagedAsChosen
<1>1. CASE JobStops
  BY <1>1, GivesUpRight DEF JobStops, GiveUp
<1> QED BY <1>1, WriteResolvedKeeps, CheckOutSideKeeps, RemoveFileKeeps, StageByPathKeeps,
           ReadLeafKeeps, StageReadKeeps, ProbeLeafKeeps, StageNestedKeeps DEF JobSteps

-----------------------------------------------------------------------------
(* Conflicts: what happens between two steps, the window and the tools *)

(* A tool that runs has its files, up to a day. *)
SidesKept ==
  /\ DOMAIN opened = Launches
  /\ \A n \in Launches :
       /\ DOMAIN opened[n] = {"kind", "dir", "used", "waited", "old"}
       /\ opened[n].used /\ ~opened[n].old => opened[n].dir

ConflictsInv == Resolving /\ HunksKept /\ SidesKept /\ swaps \in Nat

(* What each step of this part does, as the property has it. *)
EndsAsChosen == (swaps' = swaps => StagedAsChosen /\ SavesItsHunks) /\ ToolsKeepTheirSides

LEMMA AFileOrALinkIsLeft == ASSUME NEW c PROVE SomethingThere(LeftOnDisk(c))
<1>1. \A lines : SomethingThere(FileOf(lines)) /\ SomethingThere(LinkOf(lines))
  BY DEF SomethingThere, FileOf, LinkOf
<1>2. \/ LeftOnDisk(c) = LinkOf(SideText(c, "ours"))
      \/ LeftOnDisk(c) = FileOf(Rendered(c))
      \/ LeftOnDisk(c) = FileOf(SideText(c, IF HasSide(c, "ours") THEN "ours" ELSE "theirs"))
  BY DEF LeftOnDisk
<1> QED BY <1>1, <1>2

(* A resolution sees what comes to stand at its path. *)
LEMMA StoodKeeps ==
  ASSUME Resolving, PlacesKept', job' = Stood(onDisk'), UNCHANGED known
  PROVE  ResolutionKept'
<1>1. CASE ~Working
  BY <1>1 DEF Stood, ResolutionKept, Working
<1>2. CASE Working
  <2>1. /\ DOMAIN job = JobFields /\ job.do \in Does /\ job.path \in Contested /\ InConflict(job.path)
        /\ job.of = <<known[job.path].of>> /\ job.left \in BOOLEAN
        /\ IF job.do = "mark" THEN MarkKept ELSE ChoiceKept
    BY <1>2 DEF Resolving, ResolutionKept
  <2> DEFINE now == onDisk'[job.path]
  <2>2. job' = [job EXCEPT !.stood = @ \cup {now.leaf}, !.left = @ \/ now.linked]
    BY <1>2 DEF Stood
  <2>3. now.linked \in BOOLEAN
    BY <2>1 DEF PlacesKept
  <2> HIDE DEF now
  <2>4. /\ DOMAIN job' = JobFields /\ job'.do = job.do /\ job'.path = job.path /\ job'.side = job.side
        /\ job'.lines = job.lines /\ job'.step = job.step /\ job'.of = job.of /\ job'.read = job.read
        /\ job'.stood = job.stood \cup {now.leaf} /\ job'.left = (job.left \/ now.linked)
    BY <2>1, <2>2 DEF JobFields
  <2>5. Here(job.path)' = now.leaf /\ Linked(job.path)' = now.linked
    BY <2>4 DEF Here, Linked, now
  <2>6. InConflict(job.path)' /\ job'.of = <<known'[job'.path].of>>
    BY <2>1, <2>4 DEF InConflict
  <2>7. job'.left \in BOOLEAN /\ (Linked(job.path)' => job'.left)
    BY <2>1, <2>3, <2>4, <2>5
  <2>8. job.do = "mark" => MarkKept'
    BY <2>1, <2>4, <2>5 DEF MarkKept, WasRead
  <2>9. Chosen' = Chosen
    BY <2>4, ChoiceStays
  <2>10. job'.of[1] = job.of[1]
    BY <2>4
  <2>11. job.do # "mark" => ChoiceKept'
    BY <2>1, <2>4, <2>5, <2>9, <2>10 DEF ChoiceKept
  <2> QED BY <2>1, <2>4, <2>6, <2>7, <2>8, <2>11 DEF ResolutionKept
<1> QED BY <1>1, <1>2

LEMMA PlaceChanged ==
  ASSUME PlacesKept, NEW p \in Contested, NEW place,
         DOMAIN place = {"leaf", "linked", "beyond"}, place.linked \in BOOLEAN, SomethingThere(place.leaf),
         onDisk' = [onDisk EXCEPT ![p] = place]
  PROVE  PlacesKept'
<1>1. DOMAIN onDisk' = Contested /\ onDisk'[p] = place
      /\ \A q \in Contested : q # p => onDisk'[q] = onDisk[q]
  BY DEF PlacesKept
<1> QED BY <1>1 DEF PlacesKept, SomethingThere

LEMMA AsideKept ==
  ASSUME UNCHANGED <<pane, asked, opened>>, HunksKept, SidesKept
  PROVE  HunksKept' /\ SidesKept' /\ ToolsKeepTheirSides
BY DEF HunksKept, SidesKept, ToolsKeepTheirSides

LEMMA QuitKeeps ==
  ASSUME ConflictsInv, QuitProgram
  PROVE  Resolving' /\ HunksKept' /\ SidesKept' /\ ToolsKeepTheirSides
<1>1. Resolving'
  BY DEF ConflictsInv, Resolving, IndexKept, PlacesKept, ResolutionKept, Working, QuitProgram
<1>2. HunksKept'
  <2>1. pane' = NoPane /\ asked' = {}
    BY DEF QuitProgram
  <2> QED BY <2>1 DEF HunksKept, NoPane
<1>3. \A n \in Launches :
        /\ DOMAIN opened'[n] = DOMAIN opened[n] /\ opened'[n].used = opened[n].used
        /\ opened'[n].old = opened[n].old /\ opened'[n].dir = opened[n].dir
        /\ opened'[n].kind = opened[n].kind
  BY DEF ConflictsInv, SidesKept, QuitProgram
<1>4. DOMAIN opened' = Launches
  BY DEF QuitProgram
<1>5. SidesKept'
  BY <1>3, <1>4 DEF ConflictsInv, SidesKept
<1>6. ToolsKeepTheirSides
  BY <1>3, <1>5 DEF SidesKept, ToolsKeepTheirSides
<1> QED BY <1>1, <1>2, <1>5, <1>6

LEMMA BetweenStepsKeeps == ASSUME ConflictsInv, BetweenSteps PROVE ConflictsInv' /\ EndsAsChosen
<1>1. swaps' = swaps + 1 /\ swaps \in Nat
  BY DEF BetweenSteps, ConflictsInv
<1>2. ASSUME NEW p \in Contested, NEW t \in Swapped[p], onDisk' = [onDisk EXCEPT ![p].leaf = t]
      PROVE  PlacesKept'
  <2> DEFINE place == [onDisk[p] EXCEPT !.leaf = t]
  <2>1. onDisk' = [onDisk EXCEPT ![p] = place] /\ SomethingThere(t)
    BY <1>2, ConflictsAssumption DEF SomethingThere, Nothing
  <2>2. DOMAIN place = {"leaf", "linked", "beyond"} /\ place.linked \in BOOLEAN /\ place.leaf = t
    BY DEF ConflictsInv, Resolving, PlacesKept
  <2> HIDE DEF place
  <2> QED BY <2>1, <2>2, PlaceChanged DEF ConflictsInv, Resolving
<1>3. ASSUME NEW p \in Contested, onDisk' = [onDisk EXCEPT ![p].linked = ~@]
      PROVE  PlacesKept'
  <2> DEFINE place == [onDisk[p] EXCEPT !.linked = ~@]
  <2>1. onDisk' = [onDisk EXCEPT ![p] = place]
    BY <1>3
  <2>2. /\ DOMAIN place = {"leaf", "linked", "beyond"} /\ place.linked \in BOOLEAN
        /\ SomethingThere(place.leaf)
    BY DEF ConflictsInv, Resolving, PlacesKept
  <2> HIDE DEF place
  <2> QED BY <2>1, <2>2, PlaceChanged DEF ConflictsInv, Resolving
<1>4. ASSUME NEW p \in Contested, NEW c \in Clashes[p], onDisk' = [onDisk EXCEPT ![p].leaf = LeftOnDisk(c)]
      PROVE  PlacesKept'
  <2> DEFINE place == [onDisk[p] EXCEPT !.leaf = LeftOnDisk(c)]
  <2>1. onDisk' = [onDisk EXCEPT ![p] = place] /\ SomethingThere(LeftOnDisk(c))
    BY <1>4, AFileOrALinkIsLeft
  <2>2. /\ DOMAIN place = {"leaf", "linked", "beyond"} /\ place.linked \in BOOLEAN
        /\ place.leaf = LeftOnDisk(c)
    BY DEF ConflictsInv, Resolving, PlacesKept
  <2> HIDE DEF place
  <2> QED BY <2>1, <2>2, PlaceChanged DEF ConflictsInv, Resolving
<1>5. ASSUME NEW p \in Contested, NEW c \in Clashes[p], stages' = [stages EXCEPT ![p] = Unmerged(c)],
             UNCHANGED known
      PROVE  IndexKept'
  <2>1. /\ DOMAIN stages' = Contested /\ stages'[p] = Unmerged(c)
        /\ \A q \in Contested : q # p => stages'[q] = stages[q]
    BY <1>5 DEF ConflictsInv, Resolving, IndexKept
  <2> QED BY <1>5, <2>1 DEF ConflictsInv, Resolving, IndexKept, Unmerged
<1>6. CASE PlacesKept' /\ IndexKept' /\ job' = Stood(onDisk') /\ UNCHANGED <<known, pane, asked, opened>>
  <2>1. Resolving'
    BY <1>6, StoodKeeps DEF ConflictsInv, Resolving
  <2> QED BY <1>1, <1>6, <2>1, AsideKept DEF ConflictsInv, EndsAsChosen
<1>7. CASE QuitProgram
  BY <1>1, <1>7, QuitKeeps DEF ConflictsInv, EndsAsChosen
<1>8. ASSUME UNCHANGED <<stages, known>> PROVE IndexKept'
  BY <1>8 DEF ConflictsInv, Resolving, IndexKept
<1>9. CASE /\ \E p \in Contested :
                \/ \E t \in Swapped[p] : t # Here(p) /\ onDisk' = [onDisk EXCEPT ![p].leaf = t]
                \/ onDisk' = [onDisk EXCEPT ![p].linked = ~@]
           /\ job' = Stood(onDisk')
           /\ UNCHANGED <<stages, known, pane, asked, opened, reported>>
  <2>1. PlacesKept' /\ IndexKept'
    BY <1>2, <1>3, <1>8, <1>9
  <2> QED BY <1>6, <1>9, <2>1
<1>10. CASE /\ \E p \in Contested, c \in UNION {Clashes[q] : q \in Contested} :
                 /\ c \in Clashes[p] /\ stages[p] # Unmerged(c)
                 /\ stages' = [stages EXCEPT ![p] = Unmerged(c)]
                 /\ onDisk' = [onDisk EXCEPT ![p].leaf = LeftOnDisk(c)]
            /\ job' = Stood(onDisk')
            /\ UNCHANGED <<known, pane, asked, opened, reported>>
  <2>1. PlacesKept' /\ IndexKept'
    BY <1>4, <1>5, <1>10
  <2> QED BY <1>6, <1>10, <2>1
<1> QED BY <1>7, <1>9, <1>10 DEF BetweenSteps

(* Nothing of a resolution moves. *)
LEMMA NothingResolved ==
  ASSUME Resolving, UNCHANGED <<stages, known, onDisk, job, reported>>
  PROVE  Resolving' /\ StagedAsChosen /\ SavesItsHunks
<1>1. Resolving'
  BY DEF Resolving, IndexKept, PlacesKept, ResolutionKept, MarkKept, ChoiceKept, Working, InConflict,
         Here, Linked, WasRead, Chosen
<1>2. SavesItsHunks
  BY DEF SavesItsHunks, Working, Idle
<1> QED BY <1>1, <1>2 DEF StagedAsChosen

LEMMA LaunchKeeps ==
  ASSUME SidesKept, NEW n \in Launches, NEW kind, Launch(n, kind)
  PROVE  SidesKept' /\ ToolsKeepTheirSides
<1>1. ASSUME NEW m \in Launches
      PROVE  /\ DOMAIN Swept[m] = {"kind", "dir", "used", "waited", "old"} /\ ~(Swept[m].dir /\ Swept[m].old)
             /\ Swept[m].used /\ ~Swept[m].old => Swept[m].dir
  <2>1. Swept[m] = IF Stale(opened[m]) THEN [opened[m] EXCEPT !.dir = FALSE] ELSE opened[m]
    BY DEF Swept
  <2>2. CASE Stale(opened[m])
    BY <2>1, <2>2 DEF Stale, SidesKept
  <2>3. CASE ~Stale(opened[m])
    BY <2>1, <2>3 DEF Stale, SidesKept
  <2> QED BY <2>2, <2>3
<1>2. DOMAIN Swept = Launches
  BY DEF Swept
<1> HIDE DEF Swept
<1>3. CASE opened' = [Swept EXCEPT ![n] = [kind |-> kind, dir |-> TRUE, used |-> TRUE, waited |-> TRUE,
                                           old |-> FALSE]]
  <2>1. DOMAIN opened' = Launches
    BY <1>2, <1>3
  <2>2. \A m \in Launches : m # n => opened'[m] = Swept[m]
    BY <1>2, <1>3
  <2>3. opened'[n] = [kind |-> kind, dir |-> TRUE, used |-> TRUE, waited |-> TRUE, old |-> FALSE]
    BY <1>2, <1>3
  <2>4. ASSUME NEW m \in Launches
        PROVE  /\ DOMAIN opened'[m] = {"kind", "dir", "used", "waited", "old"}
               /\ ~(opened'[m].dir /\ opened'[m].old)
               /\ opened'[m].used /\ ~opened'[m].old => opened'[m].dir
    BY <1>1, <2>2, <2>3
  <2> QED BY <2>1, <2>4 DEF SidesKept, ToolsKeepTheirSides
<1>4. CASE opened' = [Swept EXCEPT ![n].kind = "failed"]
  <2>1. DOMAIN opened' = Launches
    BY <1>2, <1>4
  <2>2. \A m \in Launches : m # n => opened'[m] = Swept[m]
    BY <1>2, <1>4
  <2>3. opened'[n] = [Swept[n] EXCEPT !.kind = "failed"]
    BY <1>2, <1>4
  <2>4. ASSUME NEW m \in Launches
        PROVE  /\ DOMAIN opened'[m] = {"kind", "dir", "used", "waited", "old"}
               /\ ~(opened'[m].dir /\ opened'[m].old)
               /\ opened'[m].used /\ ~opened'[m].old => opened'[m].dir
    BY <1>1, <2>2, <2>3
  <2> QED BY <2>1, <2>4 DEF SidesKept, ToolsKeepTheirSides
<1> QED BY <1>3, <1>4 DEF Launch

LEMMA ToolEndsKeeps ==
  ASSUME SidesKept, NEW n \in Launches, ToolEnds(n) \/ HandsOver(n)
  PROVE  SidesKept' /\ ToolsKeepTheirSides
<1>1. DOMAIN opened' = Launches /\ \A m \in Launches : m # n => opened'[m] = opened[m]
  BY DEF SidesKept, ToolEnds, HandsOver
<1>2. /\ DOMAIN opened'[n] = DOMAIN opened[n] /\ opened'[n].kind = opened[n].kind
      /\ opened'[n].used /\ ~opened'[n].old => opened'[n].dir
  <2>1. CASE ToolEnds(n)
    BY <2>1 DEF SidesKept, ToolEnds
  <2>2. CASE HandsOver(n)
    BY <2>2 DEF SidesKept, HandsOver
  <2> QED BY <2>1, <2>2
<1>3. SidesKept'
  BY <1>1, <1>2 DEF SidesKept
<1>4. ToolsKeepTheirSides
  BY <1>1, <1>2, <1>3 DEF SidesKept, ToolsKeepTheirSides
<1> QED BY <1>3, <1>4

LEMMA ADayKeeps == ASSUME SidesKept, ADayPasses PROVE SidesKept' /\ ToolsKeepTheirSides
<1>1. DOMAIN opened' = Launches
  BY DEF ADayPasses
<1>2. ASSUME NEW m \in Launches
      PROVE  /\ DOMAIN opened'[m] = DOMAIN opened[m] /\ opened'[m].kind = opened[m].kind
             /\ opened'[m].used /\ ~opened'[m].old => opened'[m].dir
  <2>1. opened'[m] = IF opened[m].dir THEN [opened[m] EXCEPT !.old = TRUE] ELSE opened[m]
    BY DEF ADayPasses
  <2> QED BY <2>1 DEF SidesKept
<1>3. SidesKept'
  BY <1>1, <1>2 DEF SidesKept
<1>4. ToolsKeepTheirSides
  BY <1>2, <1>3 DEF SidesKept, ToolsKeepTheirSides
<1> QED BY <1>3, <1>4

LEMMA ToolsKeep ==
  ASSUME ConflictsInv, ToolsNext, ~RefreshStatus, ~BetweenSteps
  PROVE  ConflictsInv' /\ EndsAsChosen
<1>1. \E n \in Launches, kind \in {"diff", "merge"} : Launch(n, kind) \/ ToolEnds(n) \/ HandsOver(n) \/ ADayPasses
  BY DEF ToolsNext, OpenDiffTool, OpenMergeTool, ADayPasses
<1>2. UNCHANGED <<stages, known, onDisk, job, pane, asked, reported, swaps>>
  BY <1>1 DEF Launch, ToolEnds, HandsOver, ADayPasses
<1>3. SidesKept' /\ ToolsKeepTheirSides
  BY <1>1, LaunchKeeps, ToolEndsKeeps, ADayKeeps DEF ConflictsInv
<1>4. HunksKept'
  BY <1>2 DEF ConflictsInv, HunksKept
<1>5. Resolving' /\ StagedAsChosen /\ SavesItsHunks
  BY <1>2, NothingResolved DEF ConflictsInv
<1> QED BY <1>2, <1>3, <1>4, <1>5 DEF ConflictsInv, EndsAsChosen

(* The window: what it shows is of the file it is said to be of.                               *)
LEMMA WindowKeeps ==
  ASSUME ConflictsInv,
         \/ ClosePane
         \/ \E p \in Contested : ShowPath(p)
         \/ \E a \in asked : AnswerHunks(a) \/ HunksArrive(a)
  PROVE  ConflictsInv' /\ EndsAsChosen
<1>1. UNCHANGED <<stages, known, onDisk, job, opened, reported, swaps>>
  BY DEF ClosePane, ShowPath, AnswerHunks, HunksArrive
<1>2. HunksKept
  BY DEF ConflictsInv
<1>3. ASSUME NEW a \in asked
      PROVE  LET b == [a EXCEPT !.live = FALSE]
             IN  /\ DOMAIN b = {"path", "live", "answer", "hunks"} /\ b.path \in Contested
                 /\ b.answer = "hunks" => FromFile(b.path, b.hunks)
  BY <1>2 DEF HunksKept
<1>4. ASSUME ClosePane PROVE HunksKept'
  <2>1. pane' = NoPane /\ asked' = {[a EXCEPT !.live = FALSE] : a \in asked}
    BY <1>4 DEF ClosePane
  <2>2. \A b \in asked' : \E a \in asked : b = [a EXCEPT !.live = FALSE]
    BY <2>1
  <2>3. \A b \in asked' : /\ DOMAIN b = {"path", "live", "answer", "hunks"} /\ b.path \in Contested
                          /\ b.answer = "hunks" => FromFile(b.path, b.hunks)
    BY <1>3, <2>2
  <2> QED BY <2>1, <2>3 DEF HunksKept, NoPane
<1>5. ASSUME NEW p \in Contested, ShowPath(p) PROVE HunksKept'
  <2> DEFINE new == [path |-> p, live |-> TRUE, answer |-> "none", hunks |-> <<>>]
  <2>1. pane' = [pane EXCEPT !.path = p] /\ asked' = {[a EXCEPT !.live = FALSE] : a \in asked} \cup {new}
    BY <1>5 DEF ShowPath
  <2>2. \A b \in asked' : b = new \/ \E a \in asked : b = [a EXCEPT !.live = FALSE]
    BY <2>1
  <2>3. \A b \in asked' : /\ DOMAIN b = {"path", "live", "answer", "hunks"} /\ b.path \in Contested
                          /\ b.answer = "hunks" => FromFile(b.path, b.hunks)
    BY <1>3, <2>2
  <2>4. /\ DOMAIN pane' = DOMAIN pane /\ pane'.path = p /\ pane'.loaded = pane.loaded
        /\ pane'.failed = pane.failed /\ pane'.hunks = pane.hunks
    BY <1>2, <2>1 DEF HunksKept
  <2> QED BY <1>2, <2>3, <2>4 DEF HunksKept
<1>6. ASSUME NEW a \in asked, AnswerHunks(a) PROVE HunksKept'
  <2> DEFINE c == known[a.path].of
             textual == InConflict(a.path) /\ IsText(c)
             new == [a EXCEPT !.answer = IF textual THEN "hunks" ELSE "error",
                              !.hunks = IF textual THEN ShownHunks(c) ELSE <<>>]
  <2>1. asked' = (asked \ {a}) \cup {new} /\ pane' = pane
    BY <1>6 DEF AnswerHunks
  <2>2. /\ DOMAIN new = {"path", "live", "answer", "hunks"} /\ new.path = a.path /\ a.path \in Contested
        /\ new.answer = (IF textual THEN "hunks" ELSE "error")
        /\ new.hunks = (IF textual THEN ShownHunks(c) ELSE <<>>)
    BY <1>2 DEF HunksKept
  <2>3. textual => c \in Clashes[a.path]
    BY <2>2 DEF ConflictsInv, Resolving, IndexKept, InConflict
  <2>4. new.answer = "hunks" => FromFile(new.path, new.hunks)
    BY <2>2, <2>3 DEF FromFile
  <2> HIDE DEF new
  <2> QED BY <1>2, <2>1, <2>2, <2>4 DEF HunksKept
<1>7. ASSUME NEW a \in asked, HunksArrive(a) PROVE HunksKept'
  <2>1. /\ DOMAIN pane = {"path", "hunks", "loaded", "failed"}
        /\ a.answer = "hunks" => FromFile(a.path, a.hunks)
    BY <1>2 DEF HunksKept
  <2>2. asked' \subseteq asked
    BY <1>7 DEF HunksArrive
  <2>3. CASE pane' = pane
    BY <1>2, <2>2, <2>3 DEF HunksKept
  <2>4. CASE a.answer = "hunks" /\ pane' = [pane EXCEPT !.hunks = a.hunks, !.loaded = a.path, !.failed = FALSE]
    <3>1. DOMAIN pane' = DOMAIN pane /\ pane'.path = pane.path /\ pane'.loaded = a.path /\ pane'.hunks = a.hunks
      BY <2>1, <2>4
    <3> QED BY <1>2, <2>1, <2>2, <2>4, <3>1 DEF HunksKept
  <2>5. CASE pane' = [pane EXCEPT !.loaded = a.path, !.failed = TRUE]
    <3>1. DOMAIN pane' = DOMAIN pane /\ pane'.path = pane.path /\ pane'.failed
      BY <2>1, <2>5
    <3> QED BY <1>2, <2>2, <3>1 DEF HunksKept
  <2> QED BY <1>7, <2>3, <2>4, <2>5 DEF HunksArrive
<1>8. HunksKept'
  BY <1>4, <1>5, <1>6, <1>7
<1>9. Resolving' /\ StagedAsChosen /\ SavesItsHunks
  BY <1>1, NothingResolved DEF ConflictsInv
<1>10. SidesKept' /\ ToolsKeepTheirSides
  BY <1>1 DEF ConflictsInv, SidesKept, ToolsKeepTheirSides
<1> QED BY <1>1, <1>8, <1>9, <1>10 DEF ConflictsInv, EndsAsChosen

(* A resolution begins as it was asked for. *)
LEMMA BegunAsAsked ==
  ASSUME NEW do, NEW p, NEW side, NEW lines, NEW step, NEW allowed,
         Begin(Begun(do, p, side, lines, step), allowed)
  PROVE  /\ ~Working /\ UNCHANGED <<opened, swaps>>
         /\ job' = Idle \/ (job'.do = do /\ job'.path = p /\ job'.lines = lines)
<1>1. ~Working /\ UNCHANGED <<opened, swaps>> /\ (job' = job \/ \E of : job' = [Begun(do, p, side, lines, step) EXCEPT !.of = of])
  BY DEF Begin
<1>2. ASSUME NEW of, job' = [Begun(do, p, side, lines, step) EXCEPT !.of = of]
      PROVE  job'.do = do /\ job'.path = p /\ job'.lines = lines
  BY <1>2 DEF Begun
<1> QED BY <1>1, <1>2 DEF Working

LEMMA AskedForKeeps ==
  ASSUME ConflictsInv, NEW do \in {"whole file", "add or delete", "mark"}, NEW p \in Contested, NEW side,
         NEW lines, NEW step, NEW allowed, Begin(Begun(do, p, side, lines, step), allowed),
         UNCHANGED <<pane, asked>>, InConflict(p) => StartsRight(Begun(do, p, side, lines, step))
  PROVE  ConflictsInv' /\ EndsAsChosen
<1>1. Resolving' /\ StagedAsChosen
  BY BeginResolves DEF ConflictsInv
<1>2. UNCHANGED <<opened, swaps>> /\ (job' = Idle \/ job'.do = do)
  BY BegunAsAsked
<1>3. job'.do # "resolve"
  <2>1. CASE job' = Idle
    BY <2>1 DEF Idle
  <2>2. CASE job'.do = do
    BY <2>2
  <2> QED BY <1>2, <2>1, <2>2
<1>4. SavesItsHunks
  BY <1>3 DEF SavesItsHunks
<1> QED BY <1>1, <1>2, <1>4, AsideKept DEF ConflictsInv, EndsAsChosen

LEMMA ResolveKeeps ==
  ASSUME ConflictsInv, NEW p \in Contested, NEW side,
         \/ ResolveWholeFile(p, side) \/ ResolveAddDelete(p, side)
         \/ \E force \in BOOLEAN : MarkResolved(p, force)
  PROVE  ConflictsInv' /\ EndsAsChosen
<1>1. CASE ResolveWholeFile(p, side)
  <2> DEFINE step == IF InConflict(p) /\ HasSide(known[p].of, side) THEN "check out" ELSE "remove"
             next == Begun("whole file", p, side, <<>>, step)
  <2>1. Begin(next, PlainFile(p)) /\ UNCHANGED <<pane, asked>>
    BY <1>1 DEF ResolveWholeFile
  <2>2. InConflict(p) => StartsRight(next)
    BY DEF StartsRight, Begun
  <2> QED BY <2>1, <2>2, AskedForKeeps
<1>2. CASE ResolveAddDelete(p, side)
  <2> DEFINE given == Begun("add or delete", p, side, SideText(known[p].of, side), "write")
             deleted == Begun("add or delete", p, side, <<>>, "remove")
  <2>1. CASE InConflict(p) /\ HasSide(known[p].of, side)
    <3>1. Begin(given, OneSideMissing(p)) /\ UNCHANGED <<pane, asked>>
      BY <1>2, <2>1 DEF ResolveAddDelete
    <3>2. StartsRight(given)
      BY DEF StartsRight, Begun
    <3> QED BY <3>1, <3>2, AskedForKeeps
  <2>2. CASE ~(InConflict(p) /\ HasSide(known[p].of, side))
    <3>1. Begin(deleted, OneSideMissing(p)) /\ UNCHANGED <<pane, asked>>
      BY <1>2, <2>2 DEF ResolveAddDelete
    <3>2. InConflict(p) => StartsRight(deleted)
      BY <2>2 DEF StartsRight, Begun
    <3> QED BY <3>1, <3>2, AskedForKeeps
  <2> QED BY <2>1, <2>2
<1>3. ASSUME NEW force \in BOOLEAN, MarkResolved(p, force) PROVE ConflictsInv' /\ EndsAsChosen
  <2> DEFINE next == Begun("mark", p, IF force THEN "forced" ELSE "checked", <<>>, "read")
  <2>1. Begin(next, Here(p).kind # "fifo") /\ UNCHANGED <<pane, asked>>
    BY <1>3 DEF MarkResolved
  <2>2. StartsRight(next)
    BY DEF StartsRight, Begun
  <2> QED BY <2>1, <2>2, AskedForKeeps
<1> QED BY <1>1, <1>2, <1>3

LEMMA SaveKeeps == ASSUME ConflictsInv, ParsesBack, SaveHunks PROVE ConflictsInv' /\ EndsAsChosen
<1> DEFINE p == pane.path
<1>1. p \in Contested /\ pane.loaded = p /\ FromFile(p, pane.hunks)
  BY ConflictsAssumption DEF ConflictsInv, HunksKept, SaveHunks, Loaded
<1>2. PICK pick \in [DOMAIN pane.hunks -> {"ours", "theirs", "both"}] :
        SaveResolution(p, Joined(pane.hunks, pick))
  BY DEF SaveHunks
<1>3. MadeOfItsHunks(p, Joined(pane.hunks, pick))
  BY <1>1, <1>2 DEF FromFile, ParsesBack
<1> DEFINE lines == Joined(pane.hunks, pick)
           next == Begun("resolve", p, "none", lines, "write")
<1> HIDE DEF p
<1>4. Begin(next, TRUE)
  BY <1>2 DEF SaveResolution
<1>5. StartsRight(next)
  BY DEF StartsRight, Begun
<1>6. Resolving' /\ StagedAsChosen
  BY <1>1, <1>4, <1>5, BeginResolves DEF ConflictsInv
<1>7. UNCHANGED <<opened, swaps>> /\ (job' = Idle \/ (job'.do = "resolve" /\ job'.path = p /\ job'.lines = lines))
  BY <1>4, BegunAsAsked
<1> HIDE DEF lines
<1>8. SavesItsHunks
  BY <1>3, <1>7 DEF SavesItsHunks, Idle, lines
<1>9. UNCHANGED <<pane, asked>>
  BY DEF SaveHunks
<1> QED BY <1>6, <1>7, <1>8, <1>9, AsideKept DEF ConflictsInv, EndsAsChosen

LEMMA RefreshKeeps == ASSUME ConflictsInv, RefreshStatus PROVE ConflictsInv' /\ EndsAsChosen
<1>1. ~Working /\ known' = stages /\ UNCHANGED <<stages, onDisk, job, pane, asked, opened, reported, swaps>>
  BY DEF RefreshStatus
<1>2. Resolving'
  BY <1>1 DEF ConflictsInv, Resolving, IndexKept, PlacesKept, ResolutionKept, Working
<1>3. StagedAsChosen /\ SavesItsHunks
  BY <1>1 DEF StagedAsChosen, SavesItsHunks, Working, Idle
<1> QED BY <1>1, <1>2, <1>3, AsideKept DEF ConflictsInv, EndsAsChosen

LEMMA ConflictsStep ==
  ASSUME ConflictsInv, ParsesBack, ConflictsNext \/ ToolsNext
  PROVE  ConflictsInv' /\ EndsAsChosen
<1>1. CASE JobSteps
  <2>1. Resolving' /\ StagedAsChosen
    BY <1>1, JobStepsKeep DEF ConflictsInv
  <2>2. Working /\ UNCHANGED <<pane, asked, opened, swaps>>
    BY <1>1 DEF JobSteps, WriteResolved, CheckOutSide, RemoveFile, StageByPath, ReadLeaf, StageRead,
                ProbeLeaf, StageNested, JobStops, At
  <2> QED BY <2>1, <2>2, AsideKept DEF ConflictsInv, EndsAsChosen, SavesItsHunks
<1>2. CASE RefreshStatus \/ BetweenSteps
  BY <1>2, RefreshKeeps, BetweenStepsKeeps
<1>3. CASE ToolsNext
  BY <1>2, <1>3, ToolsKeep
<1>4. CASE ConflictsNext
  BY <1>1, <1>2, <1>4, SaveKeeps, WindowKeeps, ResolveKeeps DEF ConflictsNext
<1> QED BY <1>3, <1>4

LEMMA ConflictsStutter == ASSUME ConflictsInv, UNCHANGED conflictVars PROVE ConflictsInv'
<1>1. Resolving' /\ UNCHANGED <<pane, asked, opened, swaps>>
  BY NothingResolved DEF ConflictsInv, conflictVars
<1> QED BY <1>1, AsideKept DEF ConflictsInv

LEMMA ConflictsBegin == ConflictsInit => ConflictsInv
<1> SUFFICES ASSUME ConflictsInit PROVE ConflictsInv
  OBVIOUS
<1>1. PICK left : /\ \A p \in Contested : left[p] \in Clashes[p]
                  /\ stages = [p \in Contested |-> Unmerged(left[p])]
                  /\ onDisk = [p \in Contested |-> [leaf |-> LeftOnDisk(left[p]), linked |-> FALSE,
                                                    beyond |-> FileOf(<<"private">>)]]
  BY DEF ConflictsInit
<1>2. known = stages /\ job = Idle /\ asked = {} /\ swaps = 0
      /\ opened = [n \in Launches |-> NotOpened]
  BY DEF ConflictsInit
<1>3. \A p \in Contested : known[p].of \in Clashes[p]
  BY <1>1, <1>2 DEF Unmerged
<1>4. IndexKept
  BY <1>1, <1>2, <1>3 DEF IndexKept
<1>5. PlacesKept
  BY <1>1, AFileOrALinkIsLeft DEF PlacesKept
<1>6. ResolutionKept
  BY <1>2 DEF ResolutionKept, Working
<1>7. HunksKept
  <2>1. CASE pane = NoPane
    BY <1>2, <2>1 DEF HunksKept, NoPane
  <2>2. ASSUME NEW p \in Contested, pane = Showing(p) PROVE HunksKept
    BY <1>2, <1>3, <2>2 DEF HunksKept, Showing, FromFile
  <2> QED BY <2>1, <2>2 DEF ConflictsInit
<1>8. SidesKept
  BY <1>2 DEF SidesKept, NotOpened
<1> QED BY <1>2, <1>4, <1>5, <1>6, <1>7, <1>8 DEF ConflictsInv, Resolving

(* A resolution stages what was chosen or what it read and checked itself, deletes only what is *)
(* gone or was to go, and writes only there, whatever happens between its steps; Save writes     *)
(* hunks of the path it is for, and a tool has its side files while it runs, up to a day (merge, *)
(* tools, ConflictResolutionPane).  That a file parses back into the hunks it was written from   *)
(* is a hypothesis: parse_conflict_markers works through a file of any length.                   *)
THEOREM ResolutionsEndAsChosen == ASSUME ParsesBack PROVE ChangesSpec => ConflictsEndAsChosen
<1>1. ChangesInit => ConflictsInv
  BY ConflictsBegin DEF ChangesInit, ConflictsAtRest
<1>2. ConflictsInv /\ [ChangesNext]_changeVars => ConflictsInv' /\ [EndsAsChosen]_conflictVars
  <2> SUFFICES ASSUME ConflictsInv, [ChangesNext]_changeVars PROVE ConflictsInv' /\ [EndsAsChosen]_conflictVars
    OBVIOUS
  <2>1. ConflictsNext \/ ToolsNext \/ UNCHANGED conflictVars
    BY DEF ChangesNext, changeVars
  <2> QED BY <2>1, ConflictsStep, ConflictsStutter
<1> QED BY <1>1, <1>2, PTL DEF ChangesSpec, ConflictsEndAsChosen, EndsAsChosen

-----------------------------------------------------------------------------
(* Restoring: the list of writes and what it has made of the repository *)

(* A set of numbers has a least one: the induction of this module. *)
LEMMA Least ==
  ASSUME NEW T, T \subseteq Nat, T # {}
  PROVE  \E m \in T : \A k \in T : m <= k
<1> DEFINE R == OpToRel(<, Nat)
<1>1. IsWellFoundedOn(R, Nat)
  BY NatLessThanWellFounded
<1>2. \A k, m \in Nat : ~(<<k, m>> \in R) => m <= k
  BY DEF OpToRel
<1> HIDE DEF R
<1>3. PICK m \in T : \A k \in T : ~(<<k, m>> \in R)
  BY <1>1, WFMin
<1>4. \A k \in T : k \in Nat
  OBVIOUS
<1> QED BY <1>2, <1>3, <1>4

(* A set with 0 and every successor up to N has all of them. *)
LEMMA Reaches ==
  ASSUME NEW S, NEW N \in Nat, 0 \in S, \A n \in 0..(N - 1) : n \in S => n + 1 \in S
  PROVE  0..N \subseteq S
<1> DEFINE T == {n \in 0..N : n \notin S}
<1>1. SUFFICES ASSUME T # {} PROVE FALSE
  OBVIOUS
<1>2. T \subseteq Nat
  OBVIOUS
<1>3. PICK m \in T : \A k \in T : m <= k
  BY <1>1, <1>2, Least
<1>4. m \in 0..N /\ m \notin S /\ m # 0
  BY <1>3
<1>5. m - 1 \in 0..(N - 1) /\ m - 1 \notin T /\ m - 1 \in 0..N
  BY <1>3, <1>4
<1>6. m - 1 \in S
  BY <1>5
<1>7. (m - 1) + 1 \in S
  BY <1>5, <1>6
<1> QED BY <1>4, <1>7

(* The paths of a set in the snapshot's order are of that set: the recursion has a solution. *)
LEMMA InOrderIs ==
  ASSUME NEW S
  PROVE  InOrder(S) \in Seq(S \cap Files)
<1> DEFINE N == Len(Ordered)
           Next1(n, s) == IF Ordered[n] \in S THEN Append(s, Ordered[n]) ELSE s
           Is(f, m) == f = [n \in 0..m |-> IF n = 0 THEN <<>> ELSE Next1(n, f[n - 1])]
           PathSeqs == Seq(S \cap Files)
           T == {m \in 0..N : \E f : Is(f, m) /\ f[m] \in PathSeqs}
<1>1. N \in Nat /\ \A n \in 1..N : Ordered[n] \in Files
  BY RestoreAssumption DEF Files
<1>2. 0 \in T
  <2>1. Is([n \in 0..0 |-> <<>>], 0)
    OBVIOUS
  <2>2. <<>> \in PathSeqs
    OBVIOUS
  <2>3. [n \in 0..0 |-> <<>>][0] = <<>> /\ 0 \in 0..N
    BY <1>1
  <2> HIDE DEF Is
  <2> QED BY <2>1, <2>2, <2>3
<1>3. \A m \in 0..(N - 1) : m \in T => m + 1 \in T
  <2> SUFFICES ASSUME NEW m \in 0..(N - 1), m \in T PROVE m + 1 \in T
    BY Zenon
  <2>1. m \in Nat /\ m + 1 \in 1..N /\ m + 1 \in 0..N
    BY <1>1
  <2>2. PICK f : Is(f, m) /\ f[m] \in PathSeqs
    OBVIOUS
  <2>3. Next1(m + 1, f[m]) \in PathSeqs
    <3>1. CASE Ordered[m + 1] \in S
      <4>1. Ordered[m + 1] \in S \cap Files
        BY <1>1, <2>1, <3>1
      <4> QED BY <2>2, <3>1, <4>1, AppendProperties
    <3>2. CASE Ordered[m + 1] \notin S
      BY <2>2, <3>2
    <3> QED BY <3>1, <3>2
  <2> HIDE DEF Next1, PathSeqs
  <2> DEFINE g == [n \in 0..(m + 1) |-> IF n = m + 1 THEN Next1(m + 1, f[m]) ELSE f[n]]
  <2>4. \A n \in 0..m : f[n] = IF n = 0 THEN <<>> ELSE Next1(n, f[n - 1])
    BY <2>2
  <2>5. \A n \in 0..(m + 1) : g[n] = IF n = 0 THEN <<>> ELSE Next1(n, g[n - 1])
    <3> SUFFICES ASSUME NEW n \in 0..(m + 1)
                 PROVE  g[n] = IF n = 0 THEN <<>> ELSE Next1(n, g[n - 1])
      OBVIOUS
    <3>1. CASE n = m + 1
      <4>1. g[n - 1] = f[m] /\ g[n] = Next1(m + 1, f[m]) /\ n # 0
        BY <2>1, <3>1
      <4> HIDE DEF g
      <4> QED BY <3>1, <4>1
    <3>2. CASE n \in 1..m
      <4>1. g[n - 1] = f[n - 1] /\ g[n] = f[n] /\ n # 0 /\ n \in 0..m
        BY <2>1, <3>2
      <4> HIDE DEF g
      <4> QED BY <2>4, <4>1
    <3>3. CASE n = 0
      BY <2>1, <2>4, <3>3
    <3> QED BY <2>1, <3>1, <3>2, <3>3
  <2>6. Is(g, m + 1)
    BY <2>5, Zenon
  <2>7. g[m + 1] = Next1(m + 1, f[m])
    BY <2>1
  <2> HIDE DEF g, Is
  <2> QED BY <2>1, <2>3, <2>6, <2>7
<1>4. \E f : Is(f, N) /\ f[N] \in PathSeqs
  <2> HIDE DEF T
  <2>1. 0..N \subseteq T
    BY <1>1, <1>2, <1>3, Reaches
  <2>2. N \in T
    BY <1>1, <2>1
  <2> QED BY <2>2 DEF T
<1>5. \A f, g : Is(f, N) /\ Is(g, N) => f = g
  <2> SUFFICES ASSUME NEW f, NEW g, Is(f, N), Is(g, N) PROVE f = g
    OBVIOUS
  <2> DEFINE E == {n \in 0..N : f[n] = g[n]}
  <2>1. \A n \in 0..N : /\ f[n] = IF n = 0 THEN <<>> ELSE Next1(n, f[n - 1])
                        /\ g[n] = IF n = 0 THEN <<>> ELSE Next1(n, g[n - 1])
    OBVIOUS
  <2> HIDE DEF Next1
  <2>2. 0 \in E
    BY <1>1, <2>1
  <2>3. \A n \in 0..(N - 1) : n \in E => n + 1 \in E
    <3> SUFFICES ASSUME NEW n \in 0..(N - 1), n \in E PROVE n + 1 \in E
      OBVIOUS
    <3>1. n + 1 \in 0..N /\ n + 1 # 0 /\ (n + 1) - 1 = n
      BY <1>1
    <3>2. f[n + 1] = Next1(n + 1, f[n]) /\ g[n + 1] = Next1(n + 1, g[n])
      BY <2>1, <3>1
    <3> QED BY <3>1, <3>2
  <2>4. 0..N \subseteq E
    <3> HIDE DEF E
    <3> QED BY <1>1, <2>2, <2>3, Reaches
  <2>5. DOMAIN f = 0..N /\ DOMAIN g = 0..N /\ \A n \in 0..N : f[n] = g[n]
    BY <2>4
  <2>6. f = [n \in 0..N |-> f[n]] /\ g = [n \in 0..N |-> g[n]]
    OBVIOUS
  <2> QED BY <2>5, <2>6
<1>6. InOrder(S) = (CHOOSE f : Is(f, N))[N]
  BY DEF InOrder
<1> HIDE DEF Is
<1> QED BY <1>4, <1>5, <1>6

(* What a write may be: of a changed path, the index, a changed ref, HEAD. *)
Due ==
  [do : {"write", "delete"}, on : ChangedPaths]
    \cup [do : {"check out"}, on : {p \in ChangedPaths : Wanted(p)}]
    \cup {s \in [do : {"index"}, on : {IgnoreFile}] : IndexDiffers}
    \cup [do : {"ref"}, on : RefsChanged]
    \cup {s \in [do : {"head"}, on : {IgnoreFile}] : From.at # To.at}

Listed(s, x) == \E i \in 1..Len(s) : s[i] = x
Alone(do) == [do |-> do, on |-> IgnoreFile]

LEMMA StepIs ==
  ASSUME NEW do, NEW S, [do : {do}, on : S \cap Files] \subseteq Due
  PROVE  Step(do, S) \in Seq(Due)
<1> DEFINE ps == InOrder(S)
<1>1. ps \in Seq(S \cap Files)
  BY InOrderIs
<1>2. Step(do, S) = [i \in DOMAIN ps |-> [do |-> do, on |-> ps[i]]]
  BY DEF Step
<1> HIDE DEF ps
<1>3. Len(ps) \in Nat /\ DOMAIN ps = 1..Len(ps) /\ \A i \in 1..Len(ps) : ps[i] \in S \cap Files
  BY <1>1
<1>4. \A i \in 1..Len(ps) : [do |-> do, on |-> ps[i]] \in Due
  BY <1>3
<1> QED BY <1>2, <1>3, <1>4

LEMMA SingleIs ==
  ASSUME NEW do, NEW needed \in BOOLEAN, needed => Alone(do) \in Due
  PROVE  /\ Single(do, needed) \in Seq(Due)
         /\ needed => Listed(Single(do, needed), Alone(do))
<1>1. CASE needed
  <2>1. Single(do, needed) = <<Alone(do)>>
    BY <1>1 DEF Single, Alone
  <2>2. ASSUME NEW s \in Due PROVE <<s>> \in Seq(Due) /\ Listed(<<s>>, s)
    <3>1. <<s>> \in Seq(Due) /\ Len(<<s>>) = 1 /\ <<s>>[1] = s
      OBVIOUS
    <3> QED BY <3>1 DEF Listed
  <2> QED BY <1>1, <2>1, <2>2
<1>2. CASE ~needed
  BY <1>2 DEF Single
<1> QED BY <1>1, <1>2

RefWrites == [i \in 1..Cardinality(RefsChanged) |-> [do |-> "ref", on |-> SetToSeq(RefsChanged)[i]]]

LEMMA RefWritesAre ==
  ASSUME IsFiniteSet(RefsChanged)
  PROVE  /\ RefWrites \in Seq(Due)
         /\ \A r \in RefsChanged : Listed(RefWrites, [do |-> "ref", on |-> r])
<1> DEFINE N == Cardinality(RefsChanged)
           f == SetToSeq(RefsChanged)
<1>1. N \in Nat /\ ExistsBijection(1..N, RefsChanged)
  BY FS_CardinalityType
<1>2. f \in [1..N -> RefsChanged] /\ IsInjective(f)
  BY <1>1 DEF SetToSeq, ExistsBijection, Bijection, Injection
<1> HIDE DEF f
<1>3. f \in Injection(1..N, RefsChanged)
  BY <1>2 DEF Injection
<1>4. IsFiniteSet(1..N) /\ Cardinality(1..N) = N
  BY <1>1, FS_Interval
<1>5. f \in Surjection(1..N, RefsChanged)
  BY <1>3, <1>4, FS_Injection
<1>6. \A r \in RefsChanged : \E i \in 1..N : f[i] = r
  BY <1>5 DEF Surjection
<1>7. RefWrites = [i \in 1..N |-> [do |-> "ref", on |-> f[i]]]
  BY DEF RefWrites, f
<1>8. \A i \in 1..N : [do |-> "ref", on |-> f[i]] \in Due
  BY <1>2 DEF Due
<1> HIDE DEF N
<1>9. RefWrites \in Seq(Due) /\ Len(RefWrites) = N /\ \A i \in 1..N : RefWrites[i] = [do |-> "ref", on |-> f[i]]
  BY <1>1, <1>7, <1>8
<1> QED BY <1>6, <1>9 DEF Listed

LEMMA Concatenated ==
  ASSUME NEW S, NEW s \in Seq(S), NEW t \in Seq(S)
  PROVE  s \o t \in Seq(S) /\ \A x : Listed(s, x) \/ Listed(t, x) => Listed(s \o t, x)
<1>1. /\ s \o t \in Seq(S) /\ Len(s \o t) = Len(s) + Len(t) /\ Len(s) \in Nat /\ Len(t) \in Nat
      /\ \A i \in 1..Len(s) + Len(t) : (s \o t)[i] = IF i <= Len(s) THEN s[i] ELSE t[i - Len(s)]
  BY ConcatProperties
<1>2. ASSUME NEW i \in 1..Len(s) PROVE i \in 1..Len(s \o t) /\ (s \o t)[i] = s[i]
  BY <1>1
<1>3. ASSUME NEW i \in 1..Len(t) PROVE Len(s) + i \in 1..Len(s \o t) /\ (s \o t)[Len(s) + i] = t[i]
  <2>1. Len(s) + i \in 1..Len(s) + Len(t) /\ ~(Len(s) + i <= Len(s)) /\ (Len(s) + i) - Len(s) = i
    BY <1>1
  <2> QED BY <1>1, <2>1
<1> QED BY <1>1, <1>2, <1>3 DEF Listed

(* The list has due writes only, and among them the index, every changed ref, and HEAD. *)
LEMMA ProgramIs ==
  ASSUME IsFiniteSet(RefsChanged)
  PROVE  /\ Program \in Seq(Due)
         /\ IndexDiffers => Listed(Program, Alone("index"))
         /\ \A r \in RefsChanged : Listed(Program, [do |-> "ref", on |-> r])
         /\ From.at # To.at => Listed(Program, Alone("head"))
<1> DEFINE others == ChangedPaths \ {IgnoreFile}
           a == Step(IF Wanted(IgnoreFile) THEN "write" ELSE "delete", ChangedPaths \cap {IgnoreFile})
           b == Step("delete", {p \in others : ~Wanted(p)})
           c == Step("write", {p \in others : Wanted(p)} \ FromIndex(present.idx))
           d == Single("index", IndexDiffers)
           e == Step("check out", FromIndex(present.idx))
           h == Single("head", From.at # To.at)
<1>1. a \in Seq(Due) /\ b \in Seq(Due) /\ c \in Seq(Due) /\ e \in Seq(Due)
  <2>1. a \in Seq(Due)
    <3>1. CASE Wanted(IgnoreFile)
      <4>1. [do : {"write"}, on : (ChangedPaths \cap {IgnoreFile}) \cap Files] \subseteq Due
        BY DEF Due
      <4> HIDE DEF Due
      <4> QED BY <3>1, <4>1, StepIs
    <3>2. CASE ~Wanted(IgnoreFile)
      <4>1. [do : {"delete"}, on : (ChangedPaths \cap {IgnoreFile}) \cap Files] \subseteq Due
        BY DEF Due
      <4> HIDE DEF Due
      <4> QED BY <3>2, <4>1, StepIs
    <3> QED BY <3>1, <3>2
  <2>2. [do : {"delete"}, on : {p \in others : ~Wanted(p)} \cap Files] \subseteq Due
    BY DEF Due
  <2>3. [do : {"write"}, on : ({p \in others : Wanted(p)} \ FromIndex(present.idx)) \cap Files] \subseteq Due
    BY DEF Due
  <2>4. [do : {"check out"}, on : FromIndex(present.idx) \cap Files] \subseteq Due
    BY DEF Due, FromIndex
  <2> QED BY <2>1, <2>2, <2>3, <2>4, StepIs
<1>2. d \in Seq(Due) /\ (IndexDiffers => Listed(d, Alone("index")))
  <2>1. IndexDiffers => Alone("index") \in Due
    BY DEF Due, Alone
  <2> QED BY <2>1, SingleIs DEF IndexDiffers
<1>3. h \in Seq(Due) /\ (From.at # To.at => Listed(h, Alone("head")))
  <2>1. From.at # To.at => Alone("head") \in Due
    BY DEF Due, Alone
  <2> QED BY <2>1, SingleIs
<1>4. /\ RefWrites \in Seq(Due)
      /\ \A r \in RefsChanged : Listed(RefWrites, [do |-> "ref", on |-> r])
  BY RefWritesAre
<1>5. Program = a \o b \o c \o d \o e \o RefWrites \o h
  BY DEF Program, RefWrites
<1> HIDE DEF a, b, c, d, e, h
<1> DEFINE abc == a \o b \o c
           abcd == abc \o d
           abcde == abcd \o e
           abcder == abcde \o RefWrites
<1>6. abc \in Seq(Due)
  BY <1>1, Concatenated
<1> HIDE DEF abc
<1>7. abcd \in Seq(Due) /\ (IndexDiffers => Listed(abcd, Alone("index")))
  BY <1>2, <1>6, Concatenated
<1> HIDE DEF abcd
<1>8. abcde \in Seq(Due) /\ (IndexDiffers => Listed(abcde, Alone("index")))
  BY <1>1, <1>7, Concatenated
<1> HIDE DEF abcde
<1>9. /\ abcder \in Seq(Due) /\ (IndexDiffers => Listed(abcder, Alone("index")))
      /\ \A r \in RefsChanged : Listed(abcder, [do |-> "ref", on |-> r])
  BY <1>4, <1>8, Concatenated
<1> HIDE DEF abcder
<1>10. Program = abcder \o h
  BY <1>5 DEF abcder, abcde, abcd, abc
<1> QED BY <1>3, <1>9, <1>10, Concatenated

(* After each write the repository is what that write makes of it. *)
LEMMA AfterIs ==
  ASSUME Len(Program) \in Nat
  PROVE  /\ After(0) = present
         /\ \A n \in 1..Len(Program) : After(n) = Written(After(n - 1), Program[n])
<1> DEFINE writes == Program
           N == Len(writes)
           Is(f, m) == f = [n \in 0..m |-> IF n = 0 THEN present ELSE Written(f[n - 1], writes[n])]
           T == {m \in 0..N : \E f : Is(f, m)}
<1>1. N \in Nat
  OBVIOUS
<1>2. 0 \in T
  <2>1. Is([n \in 0..0 |-> present], 0)
    OBVIOUS
  <2>2. 0 \in 0..N
    BY <1>1
  <2> HIDE DEF Is
  <2> QED BY <2>1, <2>2
<1> HIDE DEF writes
<1>3. \A m \in 0..(N - 1) : m \in T => m + 1 \in T
  <2> SUFFICES ASSUME NEW m \in 0..(N - 1), m \in T PROVE m + 1 \in T
    BY Zenon
  <2>1. m \in Nat /\ m + 1 \in 1..N /\ m + 1 \in 0..N
    BY <1>1
  <2>2. PICK f : Is(f, m)
    OBVIOUS
  <2> DEFINE g == [n \in 0..(m + 1) |-> IF n = m + 1 THEN Written(f[m], writes[m + 1]) ELSE f[n]]
  <2>4. \A n \in 0..m : f[n] = IF n = 0 THEN present ELSE Written(f[n - 1], writes[n])
    BY <2>2
  <2>5. \A n \in 0..(m + 1) : g[n] = IF n = 0 THEN present ELSE Written(g[n - 1], writes[n])
    <3> SUFFICES ASSUME NEW n \in 0..(m + 1)
                 PROVE  g[n] = IF n = 0 THEN present ELSE Written(g[n - 1], writes[n])
      OBVIOUS
    <3>1. CASE n = m + 1
      <4>1. g[n - 1] = f[m] /\ g[n] = Written(f[m], writes[m + 1]) /\ n # 0
        BY <2>1, <3>1
      <4> HIDE DEF g
      <4> QED BY <3>1, <4>1
    <3>2. CASE n \in 1..m
      <4>1. g[n - 1] = f[n - 1] /\ g[n] = f[n] /\ n # 0 /\ n \in 0..m
        BY <2>1, <3>2
      <4> HIDE DEF g
      <4> QED BY <2>4, <4>1
    <3>3. CASE n = 0
      BY <2>1, <2>4, <3>3
    <3> QED BY <2>1, <3>1, <3>2, <3>3
  <2>6. Is(g, m + 1)
    BY <2>5, Zenon
  <2> HIDE DEF g, Is
  <2> QED BY <2>1, <2>6
<1>4. N \in T
  <2> HIDE DEF T
  <2>1. 0..N \subseteq T
    BY <1>1, <1>2, <1>3, Reaches
  <2> QED BY <1>1, <2>1
<1> DEFINE after == CHOOSE f : Is(f, N)
<1>5. Is(after, N)
  <2>1. \E f : Is(f, N)
    BY <1>4
  <2> HIDE DEF Is
  <2> QED BY <2>1
<1>6. \A k : After(k) = after[k]
  BY DEF After, writes
<1> HIDE DEF after
<1>7. \A n \in 0..N : after[n] = IF n = 0 THEN present ELSE Written(after[n - 1], writes[n])
  BY <1>5
<1>8. \A n \in 1..N : n \in 0..N /\ n # 0
  BY <1>1
<1>9. 0 \in 0..N
  BY <1>1
<1> QED BY <1>6, <1>7, <1>8, <1>9 DEF writes

(* What any number of the writes leaves: files differ where the snapshots do or where a file  *)
(* below is wanted, and the index, the refs and HEAD only by having what is gone back to.     *)
Between(w) ==
  /\ IsWorld(w) /\ DOMAIN w.refs = DOMAIN present.refs
  /\ \A p \in Files : w.disk[p] # present.disk[p] => p \in ChangedPaths \/ WantedBelow(p)
  /\ w.idx # present.idx => IndexDiffers /\ w.idx = To.idx
  /\ \A r \in DOMAIN present.refs : w.refs[r] # present.refs[r] => r \in RefsChanged /\ w.refs[r] = To.refs[r]
  /\ w.at # present.at => From.at # To.at /\ w.at = To.at

Achieved(w, s) ==
  /\ s = Alone("index") => w.idx = To.idx
  /\ \A r \in RefsChanged : s = [do |-> "ref", on |-> r] => w.refs[r] = To.refs[r]
  /\ s = Alone("head") => w.at = To.at

LEMMA FilesOnly ==
  ASSUME NEW w, Between(w), NEW d, DOMAIN d = Files,
         \A p \in Files : d[p] # w.disk[p] => p \in ChangedPaths \/ WantedBelow(p),
         NEW v, v = [w EXCEPT !.disk = d]
  PROVE  Between(v) /\ v.idx = w.idx /\ v.refs = w.refs /\ v.at = w.at
<1>1. w = [disk |-> w.disk, idx |-> w.idx, refs |-> w.refs, at |-> w.at]
  BY DEF Between, IsWorld
<1>2. v = [disk |-> d, idx |-> w.idx, refs |-> w.refs, at |-> w.at]
  BY <1>1
<1>3. v.disk = d /\ v.idx = w.idx /\ v.refs = w.refs /\ v.at = w.at
  BY <1>2
<1>4. IsWorld(v)
  BY <1>2, <1>3 DEF Between, IsWorld, Files
<1>5. \A p \in Files : d[p] # present.disk[p] => p \in ChangedPaths \/ WantedBelow(p)
  BY DEF Between
<1> QED BY <1>3, <1>4, <1>5 DEF Between

LEMMA OneWrite ==
  ASSUME RefsChanged \subseteq DOMAIN present.refs, NEW w, Between(w), NEW s \in Due
  PROVE  LET v == Written(w, s)
         IN  Between(v) /\ Achieved(v, s) /\ \A t \in Due : Achieved(w, t) => Achieved(v, t)
<1> DEFINE v == Written(w, s)
<1>1. /\ w = [disk |-> w.disk, idx |-> w.idx, refs |-> w.refs, at |-> w.at]
      /\ DOMAIN w.disk = Files /\ w.refs = [r \in DOMAIN w.refs |-> w.refs[r]] /\ IsFiniteSet(DOMAIN w.refs)
      /\ DOMAIN w.refs = DOMAIN present.refs
  BY DEF Between, IsWorld, Files
<1>2. ASSUME s.do \in {"write", "delete", "check out"}
      PROVE  Between(v) /\ v.idx = w.idx /\ v.refs = w.refs /\ v.at = w.at
  <2>1. s.on \in ChangedPaths /\ s.on \in Files /\ (s.do = "check out" => Wanted(s.on))
    BY <1>2 DEF Due, ChangedPaths
  <2>2. ASSUME NEW b
        PROVE  LET u == [w EXCEPT !.disk[s.on] = b]
               IN  Between(u) /\ u.idx = w.idx /\ u.refs = w.refs /\ u.at = w.at
    <3> DEFINE d == [w.disk EXCEPT ![s.on] = b]
               u == [w EXCEPT !.disk[s.on] = b]
    <3>1. u = [w EXCEPT !.disk = d] /\ DOMAIN d = Files
      BY <1>1
    <3>2. \A p \in Files : d[p] # w.disk[p] => p \in ChangedPaths \/ WantedBelow(p)
      BY <1>1, <2>1
    <3> HIDE DEF d, u
    <3>3. Between(u) /\ u.idx = w.idx /\ u.refs = w.refs /\ u.at = w.at
      BY <3>1, <3>2, FilesOnly
    <3> QED BY <3>3 DEF u
  <2>3. CASE s.do = "delete"
    <3>1. v = Deleted(w, s.on)
      BY <2>3 DEF Written
    <3>2. v = w \/ v = [w EXCEPT !.disk[s.on] = "none"]
      BY <3>1 DEF Deleted
    <3> QED BY <2>2, <3>2
  <2>4. CASE s.do = "write"
    <3>1. v = [w EXCEPT !.disk[s.on] = To.tree[s.on]]
      BY <2>4 DEF Written, Raw
    <3> QED BY <2>2, <3>1
  <2>5. CASE s.do = "check out"
    <3>1. v = CheckedOut(w, s.on)
      BY <2>5 DEF Written
    <3> DEFINE d == [q \in Files |-> IF q = s.on THEN Smudge(s.on, w.idx[s.on])
                                     ELSE IF q \in Above(s.on) THEN "none" ELSE w.disk[q]]
    <3>2. v = w \/ v = [w EXCEPT !.disk[s.on] = To.tree[s.on]] \/ v = [w EXCEPT !.disk = d]
      BY <3>1 DEF CheckedOut, Raw
    <3>3. \A p \in Files : d[p] # w.disk[p] => p \in ChangedPaths \/ WantedBelow(p)
      <4> SUFFICES ASSUME NEW p \in Files, d[p] # w.disk[p], p # s.on PROVE WantedBelow(p)
        BY <2>1
      <4>1. p \in Above(s.on)
        OBVIOUS
      <4> QED BY <2>1, <2>5, <4>1 DEF WantedBelow, Below
    <3>4. v = [w EXCEPT !.disk = d] => Between(v) /\ v.idx = w.idx /\ v.refs = w.refs /\ v.at = w.at
      <4>1. DOMAIN d = Files
        OBVIOUS
      <4> HIDE DEF d, v
      <4> QED BY <3>3, <4>1, FilesOnly
    <3> HIDE DEF v, d
    <3> QED BY <2>2, <3>2, <3>4
  <2> QED BY <1>2, <2>3, <2>4, <2>5
<1>3. CASE s.do \in {"write", "delete", "check out"}
  <2>1. s # Alone("index") /\ s # Alone("head") /\ \A r : s # [do |-> "ref", on |-> r]
    <3>1. s.do # "index" /\ s.do # "head" /\ s.do # "ref"
      BY <1>3
    <3> QED BY <3>1 DEF Alone
  <2> HIDE DEF v
  <2>2. Achieved(v, s)
    BY <2>1 DEF Achieved
  <2>3. \A t \in Due : Achieved(w, t) => Achieved(v, t)
    BY <1>2, <1>3 DEF Achieved
  <2> QED BY <1>2, <1>3, <2>2, <2>3 DEF v
<1>4. CASE s.do = "index"
  <2>1. v = [disk |-> w.disk, idx |-> To.idx, refs |-> w.refs, at |-> w.at] /\ IndexDiffers
    BY <1>1, <1>4 DEF Written, Due
  <2>2. v.disk = w.disk /\ v.idx = To.idx /\ v.refs = w.refs /\ v.at = w.at
    BY <2>1
  <2>3. IsWorld(v)
    BY <1>1, <2>1, <2>2 DEF IsWorld, Files
  <2> HIDE DEF v
  <2>4. Between(v)
    BY <2>1, <2>2, <2>3 DEF Between
  <2>5. s # Alone("head") /\ \A r : s # [do |-> "ref", on |-> r]
    BY <1>4 DEF Alone
  <2>6. Achieved(v, s) /\ \A t \in Due : Achieved(w, t) => Achieved(v, t)
    BY <2>2, <2>5 DEF Achieved
  <2> QED BY <2>4, <2>6 DEF v
<1>5. CASE s.do = "ref"
  <2>1. s.on \in RefsChanged
    BY <1>5 DEF Due
  <2> DEFINE refs2 == [w.refs EXCEPT ![s.on] = To.refs[s.on]]
  <2>2. v = [disk |-> w.disk, idx |-> w.idx, refs |-> refs2, at |-> w.at]
    BY <1>1, <1>5 DEF Written
  <2>3. v.disk = w.disk /\ v.idx = w.idx /\ v.refs = refs2 /\ v.at = w.at
    BY <2>2
  <2>4. /\ DOMAIN refs2 = DOMAIN w.refs /\ refs2 = [r \in DOMAIN w.refs |-> refs2[r]]
        /\ \A r \in DOMAIN w.refs : refs2[r] = IF r = s.on THEN To.refs[r] ELSE w.refs[r]
    BY <1>1, <2>1
  <2> HIDE DEF v, refs2
  <2>5. IsWorld(v)
    BY <1>1, <2>2, <2>3, <2>4 DEF IsWorld, Files
  <2>6. Between(v)
    BY <1>1, <2>1, <2>3, <2>4, <2>5 DEF Between
  <2>7. s # Alone("head") /\ s # Alone("index") /\ \A r : s = [do |-> "ref", on |-> r] => r = s.on
    BY <1>5 DEF Alone
  <2>8. Achieved(v, s)
    BY <1>1, <2>1, <2>3, <2>4, <2>7 DEF Achieved
  <2>9. \A t \in Due : Achieved(w, t) => Achieved(v, t)
    BY <1>1, <2>3, <2>4 DEF Achieved
  <2> QED BY <2>6, <2>8, <2>9 DEF v
<1>6. CASE s.do = "head"
  <2>1. v = [disk |-> w.disk, idx |-> w.idx, refs |-> w.refs, at |-> To.at] /\ From.at # To.at
    BY <1>1, <1>6 DEF Written, Due
  <2>2. v.disk = w.disk /\ v.idx = w.idx /\ v.refs = w.refs /\ v.at = To.at
    BY <2>1
  <2>3. IsWorld(v)
    BY <1>1, <2>1, <2>2 DEF IsWorld, Files
  <2> HIDE DEF v
  <2>4. Between(v)
    BY <2>1, <2>2, <2>3 DEF Between
  <2>5. s # Alone("index") /\ \A r : s # [do |-> "ref", on |-> r]
    BY <1>6 DEF Alone
  <2>6. Achieved(v, s) /\ \A t \in Due : Achieved(w, t) => Achieved(v, t)
    BY <2>2, <2>5 DEF Achieved
  <2> QED BY <2>4, <2>6 DEF v
<1>7. s.do \in {"write", "delete", "check out", "index", "ref", "head"}
  BY DEF Due
<1> QED BY <1>3, <1>4, <1>5, <1>6, <1>7

LEMMA ManyWrites ==
  ASSUME RefsChanged \subseteq DOMAIN present.refs, IsWorld(present), Program \in Seq(Due)
  PROVE  \A n \in 0..Len(Program) :
           Between(After(n)) /\ \A i \in 1..n : Achieved(After(n), Program[i])
<1> DEFINE Good(n) == Between(After(n)) /\ \A i \in 1..n : Achieved(After(n), Program[i])
           N == Len(Program)
           S == {n \in 0..N : Good(n)}
<1>1. N \in Nat /\ \A i \in 1..N : Program[i] \in Due
  OBVIOUS
<1>2. 0 \in S
  <2>1. Between(present)
    BY DEF Between
  <2> QED BY <1>1, <2>1, AfterIs
<1>3. \A n \in 0..(N - 1) : n \in S => n + 1 \in S
  <2> SUFFICES ASSUME NEW n \in 0..(N - 1), Good(n) PROVE n + 1 \in S
    OBVIOUS
  <2> DEFINE v == After(n + 1)
             w == After(n)
  <2>1. n + 1 \in 1..N /\ n + 1 \in 0..N /\ (n + 1) - 1 = n /\ \A i \in 1..(n + 1) : i \in 1..n \/ i = n + 1
    BY <1>1
  <2>2. v = Written(w, Program[n + 1])
    BY <1>1, <2>1, AfterIs
  <2>3. \A i \in 1..n : Program[i] \in Due
    BY <1>1, <2>1
  <2>4. Between(w) /\ \A i \in 1..n : Achieved(w, Program[i])
    OBVIOUS
  <2> HIDE DEF v, w, N
  <2>5. Between(v) /\ Achieved(v, Program[n + 1]) /\ \A t \in Due : Achieved(w, t) => Achieved(v, t)
    BY <1>1, <2>1, <2>2, <2>4, OneWrite
  <2>6. \A i \in 1..(n + 1) : Achieved(v, Program[i])
    BY <2>1, <2>3, <2>4, <2>5
  <2> QED BY <2>1, <2>5, <2>6 DEF v
<1>4. 0..N \subseteq S
  <2> HIDE DEF S
  <2> QED BY <1>1, <1>2, <1>3, Reaches
<1> QED BY <1>4

(* Both snapshots are of repositories with these refs, and while nobody touches the index, the *)
(* refs or HEAD they are as in one of them.                                                    *)
TakenOf(side) ==
  LET shot == entry[side].snapshot
      w == entry[side].world
  IN  /\ IsWorld(w) /\ DOMAIN w.refs = DOMAIN present.refs
      /\ shot.idx = w.idx /\ shot.refs = w.refs /\ shot.at = w.at

AsInOne ==
  /\ present.idx \in {From.idx, To.idx} /\ present.at \in {From.at, To.at}
  /\ \A r \in DOMAIN present.refs : present.refs[r] \in {From.refs[r], To.refs[r]}

RestoreInv ==
  /\ IsWorld(present) /\ onto \in {"before", "after"} /\ tries \in Nat
  /\ TakenOf("before") /\ TakenOf("after")
  /\ touched = {} => AsInOne

LEMMA SidesAre ==
  ASSUME RestoreInv
  PROVE  /\ TakenOf(onto) /\ TakenOf(Other(onto)) /\ Other(onto) \in {"before", "after"}
         /\ Other(Other(onto)) = onto
         /\ RefsChanged \subseteq DOMAIN present.refs /\ IsFiniteSet(RefsChanged)
<1>1. /\ TakenOf(onto) /\ TakenOf(Other(onto)) /\ Other(onto) \in {"before", "after"}
      /\ Other(Other(onto)) = onto
  BY DEF RestoreInv, Other
<1>2. RefsChanged \subseteq DOMAIN present.refs
  BY <1>1 DEF RefsChanged, From, TakenOf
<1>3. IsFiniteSet(DOMAIN present.refs)
  BY DEF RestoreInv, IsWorld
<1> QED BY <1>1, <1>2, <1>3, FS_Subset

(* What a repository with one part changed still is. *)
LEMMA ChangedWorld ==
  ASSUME NEW w, IsWorld(w)
  PROVE  /\ \A p, b : LET v == [w EXCEPT !.disk[p] = b]
                      IN  IsWorld(v) /\ v.idx = w.idx /\ v.refs = w.refs /\ v.at = w.at
         /\ \A p, b : LET v == [w EXCEPT !.idx[p] = b]
                      IN  IsWorld(v) /\ v.refs = w.refs /\ v.at = w.at
         /\ \A r, c : LET v == [w EXCEPT !.refs[r] = c]
                      IN  IsWorld(v) /\ DOMAIN v.refs = DOMAIN w.refs /\ v.idx = w.idx /\ v.at = w.at
         /\ \A b : LET v == [w EXCEPT !.at = b]
                   IN  IsWorld(v) /\ v.idx = w.idx /\ v.refs = w.refs
<1>1. /\ w = [disk |-> w.disk, idx |-> w.idx, refs |-> w.refs, at |-> w.at]
      /\ DOMAIN w.disk = ToSet(Ordered)
      /\ w.refs = [r \in DOMAIN w.refs |-> w.refs[r]] /\ IsFiniteSet(DOMAIN w.refs)
  BY DEF IsWorld
<1>2. ASSUME NEW d, NEW i, NEW f, NEW a, DOMAIN d = ToSet(Ordered), f = [r \in DOMAIN w.refs |-> f[r]],
             NEW v, v = [disk |-> d, idx |-> i, refs |-> f, at |-> a]
      PROVE  IsWorld(v) /\ DOMAIN v.refs = DOMAIN w.refs /\ v.idx = i /\ v.refs = f /\ v.at = a
  <2>1. DOMAIN f = DOMAIN w.refs
    BY <1>2
  <2> QED BY <1>1, <1>2, <2>1 DEF IsWorld
<1>3. ASSUME NEW p, NEW b
      PROVE  LET v == [w EXCEPT !.disk[p] = b]
             IN  IsWorld(v) /\ v.idx = w.idx /\ v.refs = w.refs /\ v.at = w.at
  <2>1. [w EXCEPT !.disk[p] = b] = [disk |-> [w.disk EXCEPT ![p] = b], idx |-> w.idx, refs |-> w.refs, at |-> w.at]
    BY <1>1
  <2>2. DOMAIN [w.disk EXCEPT ![p] = b] = ToSet(Ordered)
    BY <1>1
  <2> QED BY <1>1, <1>2, <2>1, <2>2
<1>4. ASSUME NEW p, NEW b
      PROVE  LET v == [w EXCEPT !.idx[p] = b]
             IN  IsWorld(v) /\ v.refs = w.refs /\ v.at = w.at
  <2>1. [w EXCEPT !.idx[p] = b] = [disk |-> w.disk, idx |-> [w.idx EXCEPT ![p] = b], refs |-> w.refs, at |-> w.at]
    BY <1>1
  <2> QED BY <1>1, <1>2, <2>1
<1>5. ASSUME NEW r, NEW c
      PROVE  LET v == [w EXCEPT !.refs[r] = c]
             IN  IsWorld(v) /\ DOMAIN v.refs = DOMAIN w.refs /\ v.idx = w.idx /\ v.at = w.at
  <2> DEFINE f == [w.refs EXCEPT ![r] = c]
  <2>1. [w EXCEPT !.refs[r] = c] = [disk |-> w.disk, idx |-> w.idx, refs |-> f, at |-> w.at]
    BY <1>1
  <2>2. f = [q \in DOMAIN w.refs |-> f[q]]
    OBVIOUS
  <2> HIDE DEF f
  <2> QED BY <1>1, <1>2, <2>1, <2>2
<1>6. ASSUME NEW b
      PROVE  LET v == [w EXCEPT !.at = b]
             IN  IsWorld(v) /\ v.idx = w.idx /\ v.refs = w.refs
  <2>1. [w EXCEPT !.at = b] = [disk |-> w.disk, idx |-> w.idx, refs |-> w.refs, at |-> b]
    BY <1>1
  <2> QED BY <1>1, <1>2, <2>1
<1> QED BY <1>3, <1>4, <1>5, <1>6

LEMMA OperationsKeepWorlds ==
  ASSUME NEW w, IsWorld(w), NEW o \in Operations(w)
  PROVE  IsWorld(o.world) /\ DOMAIN o.world.refs = DOMAIN w.refs
<1>1. ASSUME NEW c PROVE IsWorld(Reset(w, c)) /\ DOMAIN Reset(w, c).refs = DOMAIN w.refs
  <2> DEFINE d == [p \in Files |-> IF TreeAt[c][p] # "none" THEN Smudge(p, TreeAt[c][p])
                                   ELSE IF w.idx[p] # "none" THEN "none" ELSE w.disk[p]]
             v == Reset(w, c)
  <2>1. v = [disk |-> d, idx |-> TreeAt[c], refs |-> w.refs, at |-> w.at]
    <3>1. v = [w EXCEPT !.idx = TreeAt[c], !.disk = d]
      BY DEF Reset
    <3>2. w = [disk |-> w.disk, idx |-> w.idx, refs |-> w.refs, at |-> w.at]
      BY DEF IsWorld
    <3> HIDE DEF v, d
    <3> QED BY <3>1, <3>2
  <2>2. DOMAIN d = Files
    OBVIOUS
  <2> HIDE DEF v, d
  <2>3. v.disk = d /\ v.idx = TreeAt[c] /\ v.refs = w.refs /\ v.at = w.at
    BY <2>1
  <2> QED BY <2>1, <2>2, <2>3 DEF IsWorld, Files, v
<1>2. \/ \E p, b : o.world = [w EXCEPT !.idx[p] = b]
      \/ \E r, c : o.world = [w EXCEPT !.refs[r] = c]
      \/ \E p, b : o.world = [w EXCEPT !.disk[p] = b]
      \/ \E r, c : o.world = [Reset(w, c) EXCEPT !.refs[r] = c]
      \/ \E c : o.world = [Reset(w, c) EXCEPT !.at = c]
  <2>1. \A v : Light(v).world = v /\ Heavy(v).world = v
    BY DEF Light, Heavy
  <2>2. ASSUME NEW p \in Files, o = Light([w EXCEPT !.idx[p] = Clean(p, w.disk[p])]) PROVE o.world = [w EXCEPT !.idx[p] = Clean(p, w.disk[p])]
    BY <2>1, <2>2
  <2>3. ASSUME NEW r, NEW c, o = Light([w EXCEPT !.refs[r] = c]) PROVE o.world = [w EXCEPT !.refs[r] = c]
    BY <2>1, <2>3
  <2>4. ASSUME NEW p, NEW b, o = Heavy([w EXCEPT !.disk[p] = b]) PROVE o.world = [w EXCEPT !.disk[p] = b]
    BY <2>1, <2>4
  <2>5. ASSUME NEW r, NEW c, o = Heavy([Reset(w, c) EXCEPT !.refs[r] = c]) PROVE o.world = [Reset(w, c) EXCEPT !.refs[r] = c]
    BY <2>1, <2>5
  <2>6. ASSUME NEW c, o = Heavy([Reset(w, c) EXCEPT !.at = c]) PROVE o.world = [Reset(w, c) EXCEPT !.at = c]
    BY <2>1, <2>6
  <2> DEFINE Staged == {Light([w EXCEPT !.idx[p] = Clean(p, w.disk[p])]) : p \in Files}
             Moved == {Light([w EXCEPT !.refs[w.at] = c]) :
                         c \in {c \in DOMAIN TreeAt : w.at \in DOMAIN w.refs /\ TreeAt[c] = w.idx}}
             Named == UNION {{Light([w EXCEPT !.refs[r] = c]) : c \in DOMAIN TreeAt \cup {"none"}} :
                              r \in DOMAIN w.refs \ {w.at}}
             Discarded == {Heavy([w EXCEPT !.disk[p] = Smudge(p, w.idx[p])]) : p \in {p \in Files : Unstaged(w, p)}}
             Ignored == {Heavy([w EXCEPT !.disk[IgnoreFile] = b]) : b \in Blobs}
             BackTo == {Heavy([Reset(w, c) EXCEPT !.refs[w.at] = c]) :
                          c \in {c \in DOMAIN TreeAt : w.at \in DOMAIN w.refs}}
             Switched == {Heavy([Reset(w, c) EXCEPT !.at = c]) : c \in DOMAIN TreeAt}
  <2>7. Operations(w) = Staged \cup Moved \cup Named \cup Discarded \cup Ignored \cup BackTo \cup Switched
    BY DEF Operations
  <2>8. ASSUME o \in Staged PROVE \E p, b : o.world = [w EXCEPT !.idx[p] = b]
    <3>1. PICK p \in Files : o = Light([w EXCEPT !.idx[p] = Clean(p, w.disk[p])])
      BY <2>8
    <3> QED BY <3>1, <2>2
  <2>9. ASSUME o \in Moved \cup Named PROVE \E r, c : o.world = [w EXCEPT !.refs[r] = c]
    <3>1. CASE o \in Moved
      <4>1. PICK c \in DOMAIN TreeAt : o = Light([w EXCEPT !.refs[w.at] = c])
        BY <3>1
      <4> QED BY <4>1, <2>3
    <3>2. CASE o \in Named
      <4>1. PICK r \in DOMAIN w.refs \ {w.at}, c \in DOMAIN TreeAt \cup {"none"} :
              o = Light([w EXCEPT !.refs[r] = c])
        BY <3>2
      <4> QED BY <4>1, <2>3
    <3> QED BY <2>9, <3>1, <3>2
  <2>10. ASSUME o \in Discarded \cup Ignored PROVE \E p, b : o.world = [w EXCEPT !.disk[p] = b]
    <3>1. PICK p, b : o = Heavy([w EXCEPT !.disk[p] = b])
      BY <2>10
    <3> QED BY <3>1, <2>4
  <2>11. ASSUME o \in BackTo PROVE \E r, c : o.world = [Reset(w, c) EXCEPT !.refs[r] = c]
    <3>1. PICK c \in DOMAIN TreeAt : o = Heavy([Reset(w, c) EXCEPT !.refs[w.at] = c])
      BY <2>11
    <3> QED BY <3>1, <2>5
  <2>12. ASSUME o \in Switched PROVE \E c : o.world = [Reset(w, c) EXCEPT !.at = c]
    <3>1. PICK c \in DOMAIN TreeAt : o = Heavy([Reset(w, c) EXCEPT !.at = c])
      BY <2>12
    <3> QED BY <3>1, <2>6
  <2> HIDE DEF Staged, Moved, Named, Discarded, Ignored, BackTo, Switched
  <2> QED BY <2>7, <2>8, <2>9, <2>10, <2>11, <2>12
<1>3. CASE \E p, b : o.world = [w EXCEPT !.idx[p] = b]
  BY <1>3, ChangedWorld
<1>4. CASE \E r, c : o.world = [w EXCEPT !.refs[r] = c]
  BY <1>4, ChangedWorld
<1>5. CASE \E p, b : o.world = [w EXCEPT !.disk[p] = b]
  BY <1>5, ChangedWorld
<1>6. CASE \E r, c : o.world = [Reset(w, c) EXCEPT !.refs[r] = c]
  BY <1>1, <1>6, ChangedWorld
<1>7. CASE \E c : o.world = [Reset(w, c) EXCEPT !.at = c]
  BY <1>1, <1>7, ChangedWorld
<1> QED BY <1>2, <1>3, <1>4, <1>5, <1>6, <1>7

LEMMA OperationRestorable ==
  ASSUME RestoreInv, RunOperation
  PROVE  RestoreInv'
<1>1. PICK o \in Operations(present) :
        /\ present' = o.world
        /\ entry' = [before |-> [snapshot |-> Capture(present, o.scope), world |-> present],
                     after |-> [snapshot |-> Capture(o.world, o.scope), world |-> o.world]]
  BY DEF RunOperation
<1>2. IsWorld(present) /\ IsWorld(present') /\ DOMAIN present'.refs = DOMAIN present.refs
  BY <1>1, OperationsKeepWorlds DEF RestoreInv
<1>3. onto' = "before" /\ tries' \in Nat
  BY DEF RunOperation, RestoreInv
<1>4. \A w, scope : Capture(w, scope).idx = w.idx /\ Capture(w, scope).refs = w.refs /\ Capture(w, scope).at = w.at
  BY DEF Capture
<1>5. TakenOf("before")' /\ TakenOf("after")'
  BY <1>1, <1>2, <1>4 DEF TakenOf
<1>6. From' = Capture(present', o.scope)
  BY <1>1, <1>3 DEF From, Other
<1>7. AsInOne'
  BY <1>4, <1>6 DEF AsInOne
<1> QED BY <1>2, <1>3, <1>5, <1>7 DEF RestoreInv

LEMMA UserKeeps ==
  ASSUME RestoreInv, UserActs
  PROVE  RestoreInv'
<1>1. UNCHANGED <<entry, onto, tries>>
  BY DEF UserActs
<1>2. /\ touched' # {}
      /\ \/ present' = present
         \/ \E p, b : present' = [present EXCEPT !.disk[p] = b]
         \/ \E p, b : present' = [present EXCEPT !.idx[p] = b]
         \/ \E r, c : present' = [present EXCEPT !.refs[r] = c]
         \/ \E b : present' = [present EXCEPT !.at = b]
  BY DEF UserActs, EditFile, StageByHand, MoveRef, SwitchByHand, HoldElsewhere, OperateByHand
<1>3. IsWorld(present') /\ DOMAIN present'.refs = DOMAIN present.refs
  <2>1. IsWorld(present)
    BY DEF RestoreInv
  <2>2. CASE present' = present
    BY <2>1, <2>2
  <2>3. CASE \E p, b : present' = [present EXCEPT !.disk[p] = b]
    BY <2>1, <2>3, ChangedWorld
  <2>4. CASE \E p, b : present' = [present EXCEPT !.idx[p] = b]
    BY <2>1, <2>4, ChangedWorld
  <2>5. CASE \E r, c : present' = [present EXCEPT !.refs[r] = c]
    BY <2>1, <2>5, ChangedWorld
  <2>6. CASE \E b : present' = [present EXCEPT !.at = b]
    BY <2>1, <2>6, ChangedWorld
  <2> QED BY <1>2, <2>2, <2>3, <2>4, <2>5, <2>6
<1> QED BY <1>1, <1>2, <1>3 DEF RestoreInv, TakenOf

(* A try that is not refused: the list of due writes, one after the other. *)
LEMMA WritesBetween ==
  ASSUME RestoreInv
  PROVE  /\ Program \in Seq(Due) /\ Len(Program) \in Nat
         /\ \A k \in 0..Len(Program) : Between(After(k))
         /\ LET v == After(Len(Program))
            IN  /\ IndexDiffers => v.idx = To.idx
                /\ \A r \in RefsChanged : v.refs[r] = To.refs[r]
                /\ From.at # To.at => v.at = To.at
<1> DEFINE v == After(Len(Program))
<1>1. RefsChanged \subseteq DOMAIN present.refs /\ IsFiniteSet(RefsChanged) /\ IsWorld(present)
  BY SidesAre DEF RestoreInv
<1>2. /\ Program \in Seq(Due)
      /\ IndexDiffers => Listed(Program, Alone("index"))
      /\ \A r \in RefsChanged : Listed(Program, [do |-> "ref", on |-> r])
      /\ From.at # To.at => Listed(Program, Alone("head"))
  BY <1>1, ProgramIs
<1>3. Len(Program) \in Nat
  BY <1>2
<1>4. \A k \in 0..Len(Program) : Between(After(k)) /\ \A i \in 1..k : Achieved(After(k), Program[i])
  BY <1>1, <1>2, ManyWrites
<1>5. \A i \in 1..Len(Program) : Achieved(v, Program[i])
  BY <1>3, <1>4
<1> HIDE DEF v
<1>6. \A x : Listed(Program, x) => Achieved(v, x)
  BY <1>5 DEF Listed
<1>7. IndexDiffers => v.idx = To.idx
  BY <1>2, <1>6 DEF Achieved
<1>8. \A r \in RefsChanged : v.refs[r] = To.refs[r]
  BY <1>2, <1>6 DEF Achieved
<1>9. From.at # To.at => v.at = To.at
  BY <1>2, <1>6 DEF Achieved
<1> QED BY <1>2, <1>3, <1>4, <1>7, <1>8, <1>9 DEF v

LEMMA NothingUnseen ==
  ASSUME RestoreInv, ~Refused, Between(present')
  PROVE  NothingUnseenIsLost
<1>1. ASSUME NEW p \in Files, present'.disk[p] # present.disk[p] PROVE IsKnown(p)
  <2>1. CASE p \notin ChangedPaths
    BY <1>1, <2>1 DEF Between, IsKnown, InFolderPlace
  <2>2. CASE p \in ChangedPaths
    <3>1. AsExpected(p) /\ From.tree[p] # To.tree[p]
      BY <2>2 DEF Refused, ChangedPaths
    <3>2. \/ present.disk[p] \in {"none", From.tree[p], To.tree[p]}
          \/ Clean(p, present.disk[p]) \in {From.tree[p], To.tree[p]}
      BY <3>1 DEF AsExpected, CleanAgainstIndex, AlreadyRestored, IgnoredUntouched, Wanted
    <3> QED BY <3>2 DEF IsKnown
  <2> QED BY <2>1, <2>2
<1>2. underway # "operation"
  BY DEF Refused
<1>3. ASSUME present'.idx # present.idx PROVE underway # "conflicts" /\ present.idx \in {From.idx, To.idx}
  BY <1>3 DEF Between, Refused, IndexAsExpected
<1>4. ASSUME NEW r \in DOMAIN present.refs, present'.refs[r] # present.refs[r]
      PROVE  r \notin elsewhere /\ present.refs[r] = From.refs[r]
  BY <1>4 DEF Between, Refused, BranchesFree
<1>5. ASSUME present'.at # present.at PROVE present.at = From.at /\ present'.at \notin elsewhere
  BY <1>5 DEF Between, Refused, BranchesFree
<1> QED BY <1>1, <1>2, <1>3, <1>4, <1>5 DEF NothingUnseenIsLost

LEMMA TriesRestore ==
  ASSUME RestoreInv, Restore
  PROVE  RestoreInv' /\ WritesOnlyItsOwn
<1>1. UNCHANGED <<entry, touched>> /\ tries' \in Nat
  <2>1. tries' = tries + 1 /\ tries \in Nat /\ entry' = entry
    BY DEF Restore, RestoreInv
  <2>2. touched' = touched
    BY DEF Restore, Refuse, Stop, Finish
  <2> QED BY <2>1, <2>2
<1>2. IsWorld(present) /\ onto \in {"before", "after"} /\ TakenOf("before") /\ TakenOf("after")
  BY DEF RestoreInv
<1>3. CASE Refuse
  <2>1. present' = present /\ onto' = onto /\ tried' = "refused"
    BY <1>3 DEF Refuse
  <2>2. From' = From /\ To' = To
    BY <1>1, <2>1 DEF From, To
  <2>3. RestoreInv'
    BY <1>1, <2>1, <2>2 DEF RestoreInv, TakenOf, AsInOne
  <2> QED BY <2>1, <2>3 DEF WritesOnlyItsOwn, NothingUnseenIsLost
<1>4. ASSUME Stop \/ Finish PROVE ~Refused /\ Between(present')
  <2>1. CASE Stop
    <3>1. PICK k \in 0..(Len(Program) - 1) : present' = After(k)
      BY <2>1 DEF Stop
    <3>2. k \in 0..Len(Program)
      BY WritesBetween
    <3> QED BY <2>1, <3>1, <3>2, WritesBetween DEF Stop
  <2>2. CASE Finish
    <3>1. present' = After(Len(Program)) /\ Len(Program) \in 0..Len(Program) /\ ~Refused
      BY <2>2, WritesBetween DEF Finish
    <3> QED BY <3>1, WritesBetween
  <2> QED BY <1>4, <2>1, <2>2
<1>5. ASSUME Stop \/ Finish PROVE RestoreInv'
  <2>1. Between(present') /\ IsWorld(present') /\ DOMAIN present'.refs = DOMAIN present.refs
    BY <1>4, <1>5 DEF Between
  <2>2. TakenOf("before")' /\ TakenOf("after")'
    BY <1>1, <1>2, <2>1 DEF TakenOf
  <2>3. \/ onto' = onto /\ From' = From /\ To' = To
        \/ onto' = Other(onto) /\ From' = To /\ To' = From
    <3>1. onto' = onto \/ onto' = Other(onto)
      BY <1>5 DEF Stop, Finish
    <3> QED BY <1>1, <3>1, SidesAre DEF From, To
  <2>4. onto' \in {"before", "after"}
    BY <1>2, <2>3, SidesAre
  <2>5. touched = {} => AsInOne'
    BY <2>1, <2>3 DEF RestoreInv, AsInOne, Between
  <2> QED BY <1>1, <2>1, <2>2, <2>4, <2>5 DEF RestoreInv
<1>6. CASE Finish
  <2>1. ~Refused /\ Between(present') /\ present' = After(Len(Program))
    BY <1>4, <1>6 DEF Finish
  <2>2. NothingUnseenIsLost
    BY <2>1, NothingUnseen
  <2>3. tried' = "done"
    BY <1>6 DEF Finish
  <2>4. ASSUME touched = {} PROVE IndexAndRefsAreBack
    <3>1. AsInOne /\ TakenOf(onto)
      BY <2>4, SidesAre DEF RestoreInv
    <3> DEFINE w == entry[onto].world
    <3>2. /\ IsWorld(w) /\ DOMAIN w.refs = DOMAIN present.refs
          /\ To.idx = w.idx /\ To.refs = w.refs /\ To.at = w.at
      BY <3>1 DEF TakenOf, To
    <3> HIDE DEF w
    <3>3. /\ IndexDiffers => present'.idx = To.idx
          /\ \A r \in RefsChanged : present'.refs[r] = To.refs[r]
          /\ From.at # To.at => present'.at = To.at
      BY <2>1, WritesBetween
    <3>4. present'.idx = w.idx
      BY <2>1, <3>1, <3>2, <3>3 DEF AsInOne, IndexDiffers, Between
    <3>5. present'.at = w.at
      BY <2>1, <3>1, <3>2, <3>3 DEF AsInOne, Between
    <3>6. DOMAIN From.refs = DOMAIN present.refs
      BY SidesAre DEF From, TakenOf
    <3>7. \A r \in DOMAIN present.refs : present'.refs[r] = w.refs[r]
      <4> SUFFICES ASSUME NEW r \in DOMAIN present.refs PROVE present'.refs[r] = To.refs[r]
        BY <3>2
      <4>1. CASE r \in RefsChanged
        BY <3>3, <4>1
      <4>2. CASE r \notin RefsChanged
        <5>1. From.refs[r] = To.refs[r] /\ present'.refs[r] = present.refs[r]
          BY <2>1, <3>6, <4>2 DEF RefsChanged, Between
        <5> QED BY <3>1, <5>1 DEF AsInOne
      <4> QED BY <4>1, <4>2
    <3>8. DOMAIN present'.refs = DOMAIN w.refs /\ present'.refs = [r \in DOMAIN present'.refs |-> present'.refs[r]]
          /\ w.refs = [r \in DOMAIN w.refs |-> w.refs[r]]
      BY <2>1, <3>2 DEF Between, IsWorld
    <3>9. present'.refs = w.refs
      BY <3>2, <3>7, <3>8
    <3> QED BY <3>4, <3>5, <3>9 DEF IndexAndRefsAreBack, w
  <2> QED BY <1>5, <1>6, <2>2, <2>3, <2>4 DEF WritesOnlyItsOwn
<1>7. CASE Stop
  <2>1. NothingUnseenIsLost
    BY <1>4, <1>7, NothingUnseen
  <2>2. tried' # "refused" /\ tried' # "done"
    BY <1>7 DEF Stop
  <2> QED BY <1>5, <1>7, <2>1, <2>2 DEF WritesOnlyItsOwn
<1> QED BY <1>3, <1>6, <1>7 DEF Restore

LEMMA RestoreSteps ==
  ASSUME RestoreInv, [RestoreNext]_restoreVars
  PROVE  RestoreInv' /\ [WritesOnlyItsOwn]_restoreVars
<1>1. CASE UNCHANGED restoreVars
  <2>1. UNCHANGED <<present, entry, onto, touched, tries>>
    BY <1>1 DEF restoreVars
  <2>2. From' = From /\ To' = To
    BY <2>1 DEF From, To
  <2>3. RestoreInv'
    BY <2>1, <2>2 DEF RestoreInv, TakenOf, AsInOne
  <2> QED BY <1>1, <2>3
<1>2. CASE RunOperation \/ UserActs
  <2>1. UNCHANGED tries
    BY <1>2 DEF RunOperation, UserActs
  <2>2. ~Tried
    BY <2>1 DEF Tried, RestoreInv
  <2> QED BY <1>2, <2>2, OperationRestorable, UserKeeps DEF WritesOnlyItsOwn
<1> QED BY <1>1, <1>2, TriesRestore DEF RestoreNext

LEMMA RestoreBegins == RestoreInit => RestoreInv
<1>1. SUFFICES ASSUME RestoreInit PROVE RestoreInv
  OBVIOUS
<1>2. IsWorld(present) /\ onto = "before" /\ tries \in Nat
  BY <1>1, RestoreAssumption DEF RestoreInit
<1> DEFINE shot == Capture(present, "refs and index")
<1>3. entry["before"] = [snapshot |-> shot, world |-> present] /\ entry["after"] = entry["before"]
  BY <1>1 DEF RestoreInit
<1>4. shot.idx = present.idx /\ shot.refs = present.refs /\ shot.at = present.at
  BY DEF Capture
<1> HIDE DEF shot
<1>5. TakenOf("before") /\ TakenOf("after")
  BY <1>2, <1>3, <1>4 DEF TakenOf
<1>6. From = shot
  BY <1>2, <1>3 DEF From, Other
<1>7. AsInOne
  BY <1>4, <1>6 DEF AsInOne
<1> QED BY <1>2, <1>5, <1>7 DEF RestoreInv

(* For any paths, trees, filters and ignore rules, whatever the user does between the tries and *)
(* wherever they stop: an Undo or Redo overwrites and deletes only what one of its snapshots     *)
(* has, moves no branch that moved since or is held elsewhere and writes nothing when refused;   *)
(* done, and nothing touched, the index, every ref and HEAD are back (undo.rs, restore). That    *)
(* the files are back too, and that a stopped one can be tried again, TLC checks.                *)
THEOREM RestoresWriteOnlyTheirOwn == ChangesSpec => [][WritesOnlyItsOwn]_restoreVars
<1>1. ChangesInit => RestoreInv
  BY RestoreBegins DEF ChangesInit, RestoreAtRest
<1>2. RestoreInv /\ [ChangesNext]_changeVars => RestoreInv' /\ [WritesOnlyItsOwn]_restoreVars
  <2> SUFFICES ASSUME RestoreInv, [ChangesNext]_changeVars
               PROVE  RestoreInv' /\ [WritesOnlyItsOwn]_restoreVars
    OBVIOUS
  <2>1. [RestoreNext]_restoreVars
    BY DEF ChangesNext, changeVars
  <2> QED BY <2>1, RestoreSteps
<1> QED BY <1>1, <1>2, PTL DEF ChangesSpec
=============================================================================
