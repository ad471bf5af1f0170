--------------------------- MODULE CommitHistoryProofs ---------------------------
(***************************************************************************)
(* Proofs about what stands in a branch: commits, merges and single picks,  *)
(* then sequences of picks.                                                 *)
(***************************************************************************)
EXTENDS CommitHistory, TLAPS

-----------------------------------------------------------------------------
(* Types *)

Nothing == Merging!Nothing
Mine == Merging!Mine
Picked == Merging!Picked

Merged == Branches \cup {Nothing}
Trees == Merged \cup {Mine, Picked}
Commits == [merges : Merged, tree : Trees, author : {Mine, Picked}, amended : Nat]
History == Seq(Commits)
Jobs ==
  [pc : {"idle", "pre hook", "message hook", "pick hook", "write", "sign", "clear", "post hook"},
   kind : {"none", "commit", "amend", "pick"}, of : Merged, before : History,
   author : {Mine, Picked}, hooks : {"commit", "merge"}, tree : Trees]

MergeTypeOK ==
  /\ top \in History /\ merge \in Merged /\ pick \in BOOLEAN
  /\ staged \in Trees /\ conflict \in BOOLEAN
  /\ clean \in [head : History, of : Merged] /\ command \in Jobs /\ spoilt \in BOOLEAN

-----------------------------------------------------------------------------
(* The invariant.  What a branch may hold, as predicates of a history. *)

Distinct(c) ==
  \A i, j \in DOMAIN c : i # j /\ c[i].merges # Nothing => c[i].merges # c[j].merges
Matching(c) == \A i \in DOMAIN c : c[i].merges # Nothing => c[i].tree = c[i].merges
Authored(c) == \A i \in DOMAIN c : c[i].author = Picked <=> c[i].tree = Picked
Fresh(c) == \A i \in DOMAIN c : c[i].tree # Picked
EndsPicked(c) ==
  /\ c # << >> /\ Merging!LastOf(c).tree = Picked /\ Merging!LastOf(c).author = Picked
  /\ Merging!LastOf(c).merges = Nothing
Holds(c, b) == Merging!Reaches(c, b)

AtHook == command.pc \in {"pre hook", "message hook"}
Begun == command.pc \in {"pre hook", "message hook", "write"}
Unlanded == command.pc \in {"pre hook", "message hook", "write", "pick hook", "sign"}

JobShape ==
  /\ Begun => command.kind \in {"commit", "amend"}
  /\ command.pc = "pick hook" => command.kind = "pick"
  /\ command.pc \in {"sign", "post hook"} => command.kind \in {"commit", "amend", "pick"}
  /\ command.pc = "clear" => command.kind \in {"commit", "pick"}
  /\ command.kind # "commit" => command.of = Nothing
  /\ command.kind = "amend" => command.before # << >>

(* The merge that is being committed is not in HEAD yet, unless conflicts stop the commit. *)
NotTwice ==
  /\ AtHook /\ command.of # Nothing /\ merge = command.of /\ top = command.before =>
       conflict \/ ~Holds(top, command.of)
  /\ command.pc = "write" /\ command.of # Nothing =>
       merge = command.of /\ top = command.before /\ (conflict \/ ~Holds(top, command.of))
  /\ command.pc = "sign" /\ command.of # Nothing => ~Holds(command.before, command.of)

OnceInv == MergeTypeOK /\ Distinct(top) /\ JobShape /\ NotTwice

(* Where nobody acts while a commit is signed: what is staged and paused belongs together. *)
OwnIndex == merge # Nothing /\ ~Holds(top, merge) => staged \in {merge, Nothing}
Settled == merge # Nothing /\ Holds(top, merge) => ~conflict
PickStands ==
  ~spoilt /\ pick =>
    /\ merge = Nothing => staged = Picked \/ (EndsPicked(top) /\ ~conflict)
    /\ merge # Nothing /\ ~Holds(top, merge) => EndsPicked(top)
PickIsFresh == ~spoilt /\ staged = Picked => pick /\ merge = Nothing /\ Fresh(top)

StateRight ==
  /\ ~spoilt => Matching(top) /\ Authored(top)
  /\ OwnIndex /\ Settled /\ PickStands /\ PickIsFresh

(* The job has what it is for: the merge's own index, the pick's author, its hooks. *)
HasIndex ==
  /\ AtHook /\ command.of # Nothing /\ merge = command.of /\ top = command.before =>
       staged = command.of
  /\ command.pc = "write" /\ command.of # Nothing => staged = command.of
HasAuthor ==
  Unlanded /\ command.kind = "commit" =>
    /\ command.of = Nothing /\ command.author = Mine => ~pick
    /\ ~spoilt /\ command.author = Picked =>
         command.of = Nothing /\ pick /\ merge = Nothing /\ staged = Picked
    /\ ~spoilt /\ command.author = Mine => staged # Picked
HasNoPick == Unlanded /\ command.kind = "amend" => ~pick
HasTree ==
  command.pc = "sign" /\ command.kind # "pick" =>
    /\ staged = command.tree /\ ~conflict
    /\ command.of # Nothing => merge = command.of /\ command.tree = command.of
HasPick ==
  command.pc = "pick hook" \/ (command.pc = "sign" /\ command.kind = "pick") =>
    /\ command.tree = Picked /\ command.author = Picked
    /\ \/ Len(top) > Len(command.before)
       \/ top = command.before /\ pick /\ merge = Nothing /\ ~conflict /\ staged = Picked
HasLanded ==
  /\ command.pc = "clear" => ~conflict /\ (~spoilt => staged # Picked)
  /\ command.pc = "clear" /\ command.of # Nothing => merge = command.of /\ Holds(top, command.of)
  /\ command.pc = "clear" /\ command.kind = "pick" => merge = Nothing
  /\ command.pc = "post hook" /\ command.kind = "pick" =>
       pick /\ merge = Nothing /\ ~conflict /\ EndsPicked(top)
HasHooks ==
  Unlanded /\ command.hooks = "merge" =>
    command.of # Nothing /\ clean = [head |-> command.before, of |-> command.of]

JobRight == HasIndex /\ HasAuthor /\ HasNoPick /\ HasTree /\ HasPick /\ HasLanded /\ HasHooks

RightInv == OnceInv /\ StateRight /\ JobRight

-----------------------------------------------------------------------------
(* Histories: a commit at the end, and an amended one *)

USE DEF Nothing, Mine, Picked, Holds

LEMMA Names ==
  /\ Nothing # Mine /\ Nothing # Picked /\ Mine # Picked
  /\ \A b \in Branches : b # Nothing /\ b # Mine /\ b # Picked
BY BranchesAssumption DEF Merging!Nothing, Merging!Mine, Merging!Picked

LEMMA Appended ==
  ASSUME NEW c \in History, NEW e \in Commits
  PROVE  /\ Append(c, e) \in History /\ Append(c, e) # << >>
         /\ Len(Append(c, e)) > Len(c) /\ Append(c, e) # c
         /\ Len(c) \in Nat /\ Len(Append(c, e)) \in Nat
         /\ Merging!LastOf(Append(c, e)) = e
         /\ \A b : Holds(Append(c, e), b) <=> Holds(c, b) \/ e.merges = b
<1> DEFINE d == Append(c, e)
<1>1. /\ d \in History /\ Len(d) = Len(c) + 1 /\ DOMAIN d = 1..Len(d) /\ DOMAIN c = 1..Len(c)
      /\ Len(c) \in Nat /\ d[Len(d)] = e /\ \A i \in 1..Len(c) : d[i] = c[i]
  BY DEF History
<1>2. d # << >> /\ d # c
  <2> HIDE DEF d
  <2>1. Len(d) # Len(c) /\ Len(d) # 0
    <3>1. PICK n \in Nat : n = Len(c)
      BY <1>1
    <3>2. Len(d) = n + 1
      BY <1>1, <3>1
    <3>3. n + 1 # n /\ n + 1 # 0
      OBVIOUS
    <3> QED BY <3>1, <3>2, <3>3, Zenon
  <2>2. Len(<< >>) = 0
    OBVIOUS
  <2> QED BY <2>1, <2>2
<1>3. Merging!LastOf(d) = e
  BY <1>1 DEF Merging!LastOf
<1>4. ASSUME NEW b PROVE Holds(d, b) <=> Holds(c, b) \/ e.merges = b
  <2> HIDE DEF d
  <2>1. \A i \in DOMAIN d : i \in DOMAIN c \/ i = Len(d)
    BY <1>1
  <2>2. Len(d) \in DOMAIN d /\ \A i \in DOMAIN c : i \in DOMAIN d
    BY <1>1
  <2> QED BY <1>1, <2>1, <2>2 DEF Merging!Reaches
<1>5. Len(d) > Len(c) /\ Len(c) \in Nat /\ Len(d) \in Nat
  BY <1>1
<1> HIDE DEF d
<1> QED BY <1>1, <1>2, <1>3, <1>4, <1>5 DEF d

LEMMA AppendedHolds ==
  ASSUME NEW c \in History, NEW e \in Commits
  PROVE  /\ Distinct(c) /\ (e.merges # Nothing => ~Holds(c, e.merges)) => Distinct(Append(c, e))
         /\ Matching(c) /\ (e.merges # Nothing => e.tree = e.merges) => Matching(Append(c, e))
         /\ Authored(c) /\ (e.author = Picked <=> e.tree = Picked) => Authored(Append(c, e))
         /\ EndsPicked(Append(c, e)) <=>
              e.tree = Picked /\ e.author = Picked /\ e.merges = Nothing
<1> DEFINE d == Append(c, e)
<1>1. /\ \A i \in DOMAIN d : (i \in DOMAIN c /\ d[i] = c[i]) \/ (i = Len(c) + 1 /\ d[i] = e)
      /\ Len(c) + 1 \notin DOMAIN c
  BY DEF History
<1>2. d # << >> /\ Merging!LastOf(d) = e
  BY Appended
<1> HIDE DEF d
<1>3. Distinct(c) /\ (e.merges # Nothing => ~Holds(c, e.merges)) => Distinct(d)
  BY <1>1 DEF Distinct, Merging!Reaches
<1>4. Matching(c) /\ (e.merges # Nothing => e.tree = e.merges) => Matching(d)
  BY <1>1 DEF Matching
<1>5. Authored(c) /\ (e.author = Picked <=> e.tree = Picked) => Authored(d)
  BY <1>1 DEF Authored
<1>6. EndsPicked(d) <=> e.tree = Picked /\ e.author = Picked /\ e.merges = Nothing
  BY <1>2 DEF EndsPicked
<1> QED BY <1>3, <1>4, <1>5, <1>6 DEF d

LEMMA AmendedHolds ==
  ASSUME NEW c \in History, c # << >>
  PROVE  LET d == Merging!Amended(c)
         IN  /\ d \in History /\ d # << >> /\ \A b : Holds(d, b) <=> Holds(c, b)
             /\ Distinct(c) => Distinct(d)
             /\ Matching(c) => Matching(d)
             /\ Authored(c) => Authored(d)
             /\ Fresh(c) => Fresh(d)
             /\ EndsPicked(c) <=> EndsPicked(d)
<1> DEFINE d == Merging!Amended(c)
           last == [c[Len(c)] EXCEPT !.amended = @ + 1]
<1>1. Len(c) \in Nat /\ Len(c) >= 1 /\ DOMAIN c = 1..Len(c) /\ c[Len(c)] \in Commits
  BY DEF History
<1>2. /\ last \in Commits /\ last.merges = c[Len(c)].merges /\ last.tree = c[Len(c)].tree
      /\ last.author = c[Len(c)].author
  BY <1>1 DEF Commits
<1>3. d = [c EXCEPT ![Len(c)] = last]
  BY DEF Merging!Amended
<1> HIDE DEF last, d
<1>4. d \in History /\ DOMAIN d = DOMAIN c /\ Len(d) = Len(c) /\ d # << >>
  BY <1>1, <1>2, <1>3 DEF History
<1>5. \A i \in DOMAIN c :
        d[i].merges = c[i].merges /\ d[i].tree = c[i].tree /\ d[i].author = c[i].author
  BY <1>1, <1>2, <1>3
<1>6. EndsPicked(c) <=> EndsPicked(d)
  BY <1>1, <1>4, <1>5 DEF EndsPicked, Merging!LastOf
<1>7. \A b : Holds(d, b) <=> Holds(c, b)
  BY <1>4, <1>5 DEF Merging!Reaches
<1>8. Distinct(c) => Distinct(d)
  BY <1>4, <1>5 DEF Distinct
<1>9. (Matching(c) => Matching(d)) /\ (Authored(c) => Authored(d)) /\ (Fresh(c) => Fresh(d))
  BY <1>4, <1>5 DEF Matching, Authored, Fresh
<1> QED BY <1>4, <1>6, <1>7, <1>8, <1>9 DEF d

-----------------------------------------------------------------------------
(* Between commands *)

LEMMA NoJobFacts ==
  /\ << >> \in History /\ Merging!NoMerge \in [head : History, of : Merged]
  /\ Merging!NoJob \in Jobs /\ Merging!NoJob.pc = "idle" /\ Merging!NoJob.kind = "none"
  /\ Merging!NoJob.of = Nothing
<1>1. << >> \in History
  BY DEF History
<1>2. Merging!NoMerge \in [head : History, of : Merged]
  BY <1>1 DEF Merging!NoMerge, Merged
<1>3. Merging!NoJob \in Jobs
  BY <1>1 DEF Merging!NoJob, Jobs, Merged, Trees
<1>4. Merging!NoJob.pc = "idle" /\ Merging!NoJob.kind = "none" /\ Merging!NoJob.of = Nothing
  BY DEF Merging!NoJob
<1> QED BY <1>1, <1>2, <1>3, <1>4

LEMMA AtRest ==
  ASSUME JobShape, command' = command \/ command' = Merging!NoJob, command'.pc = "idle"
  PROVE  JobShape' /\ NotTwice' /\ JobRight'
<1>1. /\ command'.kind # "commit" => command'.of = Nothing
      /\ command'.kind = "amend" => command'.before # << >>
  BY NoJobFacts DEF JobShape
<1>2. JobShape'
  BY <1>1 DEF JobShape, Begun
<1>3. NotTwice'
  BY DEF NotTwice, AtHook
<1>4. JobRight'
  BY DEF JobRight, HasIndex, HasAuthor, HasNoPick, HasTree, HasPick, HasLanded, HasHooks,
         AtHook, Unlanded
<1> QED BY <1>2, <1>3, <1>4

LEMMA StartMergeKeeps ==
  ASSUME NEW b \in Branches, OnceInv, Merging!StartMerge(b)
  PROVE  OnceInv' /\ (StateRight => StateRight') /\ JobRight'
<1>1. /\ merge = Nothing /\ staged = Nothing /\ ~conflict /\ ~Holds(top, b)
      /\ merge' = b /\ staged' = b /\ conflict' \in BOOLEAN
      /\ top' = top /\ pick' = pick /\ command' = command /\ spoilt' = spoilt
      /\ command.pc = "idle" /\ clean' \in {Merging!NoMerge, [head |-> top, of |-> b]}
  BY DEF Merging!StartMerge, Merging!MayMerge, Merging!At
<1>2. MergeTypeOK'
  BY <1>1, NoJobFacts DEF OnceInv, MergeTypeOK, Merged, Trees
<1>3. JobShape' /\ NotTwice' /\ JobRight'
  BY <1>1, AtRest DEF OnceInv
<1>4. StateRight => StateRight'
  BY <1>1, Names DEF StateRight, OwnIndex, Settled, PickStands, PickIsFresh
<1> QED BY <1>1, <1>2, <1>3, <1>4 DEF OnceInv

LEMMA UpToDateKeeps ==
  ASSUME NEW b \in Branches, OnceInv, Merging!UpToDate(b)
  PROVE  OnceInv' /\ (StateRight => StateRight') /\ JobRight'
<1>1. /\ top' = top /\ merge' = merge /\ staged' = staged /\ conflict' = conflict /\ pick' = pick
      /\ command' = command /\ spoilt' = spoilt /\ command.pc = "idle" /\ clean' = Merging!NoMerge
  BY DEF Merging!UpToDate, Merging!MayMerge, Merging!At, Merging!git
<1>2. MergeTypeOK'
  BY <1>1, NoJobFacts DEF OnceInv, MergeTypeOK, Merged, Trees
<1>3. JobShape' /\ NotTwice' /\ JobRight'
  BY <1>1, AtRest DEF OnceInv
<1>4. StateRight => StateRight'
  BY <1>1, Names DEF StateRight, OwnIndex, Settled, PickStands, PickIsFresh
<1> QED BY <1>1, <1>2, <1>3, <1>4 DEF OnceInv

LEMMA SquashMergeKeeps ==
  ASSUME NEW b \in Branches, OnceInv, Merging!SquashMerge(b)
  PROVE  OnceInv' /\ (StateRight => StateRight') /\ JobRight'
<1>1. /\ merge = Nothing /\ staged = Nothing /\ ~conflict /\ ~Holds(top, b)
      /\ staged' = b /\ conflict' \in BOOLEAN /\ top' = top /\ spoilt' = spoilt
      /\ command' = command /\ command.pc = "idle" /\ clean' \in {clean, Merging!NoMerge}
      /\ \/ merge' = Nothing /\ pick' = FALSE
         \/ merge' = b /\ pick' = pick
  BY DEF Merging!SquashMerge, Merging!MayMerge, Merging!At, Merging!ClearState
<1>2. MergeTypeOK'
  BY <1>1, NoJobFacts DEF OnceInv, MergeTypeOK, Merged, Trees
<1>3. JobShape' /\ NotTwice' /\ JobRight'
  BY <1>1, AtRest DEF OnceInv
<1>4. StateRight => StateRight'
  BY <1>1, Names DEF StateRight, OwnIndex, Settled, PickStands, PickIsFresh
<1> QED BY <1>1, <1>2, <1>3, <1>4 DEF OnceInv

LEMMA PickNothingKeeps ==
  ASSUME OnceInv, Merging!PickNothing
  PROVE  OnceInv' /\ (StateRight => StateRight') /\ JobRight'
<1>1. /\ merge = Nothing /\ ~pick /\ staged = Nothing /\ ~conflict
      /\ top' = top /\ merge' = merge /\ staged' = staged /\ conflict' = conflict
      /\ pick' = TRUE /\ clean' = clean /\ command' = command /\ command.pc = "idle"
      /\ spoilt' \in BOOLEAN /\ (~spoilt' => ~spoilt /\ EndsPicked(top))
  BY DEF Merging!PickNothing, Merging!ReadyToPick, Merging!NoOperation, Merging!At,
     Merging!PickLeftover, EndsPicked, OnceInv, MergeTypeOK
<1>2. MergeTypeOK'
  BY <1>1, NoJobFacts DEF OnceInv, MergeTypeOK, Merged, Trees
<1>3. JobShape' /\ NotTwice' /\ JobRight'
  BY <1>1, AtRest DEF OnceInv
<1>4. StateRight => StateRight'
  BY <1>1, Names DEF StateRight, OwnIndex, Settled, PickStands, PickIsFresh
<1> QED BY <1>1, <1>2, <1>3, <1>4 DEF OnceInv

LEMMA AbortMergeKeeps ==
  ASSUME OnceInv, Merging!AbortMerge
  PROVE  OnceInv' /\ (StateRight => StateRight') /\ JobRight'
<1>1. /\ staged' = Nothing /\ conflict' = FALSE /\ clean' = Merging!NoMerge
      /\ top' = top /\ command' = command /\ command.pc = "idle"
      /\ \/ merge' = Nothing /\ pick' = FALSE /\ spoilt' = spoilt
         \/ /\ merge' = merge /\ pick' = pick /\ spoilt' \in BOOLEAN
            /\ ~spoilt' => /\ ~spoilt
                           /\ (merge # Nothing /\ Holds(top, merge)) \/ (merge = Nothing /\ EndsPicked(top))
  BY DEF Merging!AbortMerge, Merging!MayAbort, Merging!At, Merging!ClearState, Merging!StateStays,
     Merging!Leftover, Merging!MergeLeftover, Merging!PickLeftover, EndsPicked, OnceInv, MergeTypeOK
<1>2. MergeTypeOK'
  BY <1>1, NoJobFacts DEF OnceInv, MergeTypeOK, Merged, Trees
<1>3. JobShape' /\ NotTwice' /\ JobRight'
  BY <1>1, AtRest DEF OnceInv
<1>4. StateRight => StateRight'
  BY <1>1, Names DEF StateRight, OwnIndex, Settled, PickStands, PickIsFresh
<1> QED BY <1>1, <1>2, <1>3, <1>4 DEF OnceInv

LEMMA AbortFailsKeeps ==
  ASSUME OnceInv, Merging!AbortFails
  PROVE  OnceInv' /\ (StateRight => StateRight') /\ JobRight'
<1>1. /\ top' = top /\ merge' = merge /\ staged' = staged /\ conflict' = conflict /\ pick' = pick
      /\ command' = command /\ spoilt' = spoilt /\ command.pc = "idle" /\ clean' = Merging!NoMerge
  BY DEF Merging!AbortFails, Merging!MayAbort, Merging!At, Merging!git
<1>2. MergeTypeOK'
  BY <1>1, NoJobFacts DEF OnceInv, MergeTypeOK, Merged, Trees
<1>3. JobShape' /\ NotTwice' /\ JobRight'
  BY <1>1, AtRest DEF OnceInv
<1>4. StateRight => StateRight'
  BY <1>1, Names DEF StateRight, OwnIndex, Settled, PickStands, PickIsFresh
<1> QED BY <1>1, <1>2, <1>3, <1>4 DEF OnceInv

LEMMA ReopenKeeps ==
  ASSUME OnceInv, Merging!Reopen
  PROVE  OnceInv' /\ (StateRight => StateRight') /\ JobRight'
<1>1. /\ top' = top /\ merge' = merge /\ staged' = staged /\ conflict' = conflict /\ pick' = pick
      /\ command' = command /\ spoilt' = spoilt /\ command.pc = "idle" /\ clean' = Merging!NoMerge
  BY DEF Merging!Reopen, Merging!At, Merging!git
<1>2. MergeTypeOK'
  BY <1>1, NoJobFacts DEF OnceInv, MergeTypeOK, Merged, Trees
<1>3. JobShape' /\ NotTwice' /\ JobRight'
  BY <1>1, AtRest DEF OnceInv
<1>4. StateRight => StateRight'
  BY <1>1, Names DEF StateRight, OwnIndex, Settled, PickStands, PickIsFresh
<1> QED BY <1>1, <1>2, <1>3, <1>4 DEF OnceInv

LEMMA StageKeeps ==
  ASSUME OnceInv, Merging!Stage
  PROVE  OnceInv' /\ (StateRight => StateRight') /\ JobRight'
<1>1. /\ staged = Nothing /\ ~conflict /\ staged' = Mine /\ (merge = Nothing \/ Holds(top, merge))
      /\ top' = top /\ merge' = merge /\ conflict' = conflict /\ pick' = pick /\ clean' = clean
      /\ command' = command /\ spoilt' = spoilt /\ command.pc = "idle"
  BY DEF Merging!Stage, Merging!At
<1>2. MergeTypeOK'
  BY <1>1, NoJobFacts DEF OnceInv, MergeTypeOK, Merged, Trees
<1>3. JobShape' /\ NotTwice' /\ JobRight'
  BY <1>1, AtRest DEF OnceInv
<1>4. StateRight => StateRight'
  BY <1>1, Names DEF StateRight, OwnIndex, Settled, PickStands, PickIsFresh
<1> QED BY <1>1, <1>2, <1>3, <1>4 DEF OnceInv

LEMMA ResolveKeeps ==
  ASSUME OnceInv, Merging!Resolve
  PROVE  OnceInv' /\ (StateRight => StateRight') /\ JobRight'
<1>1. /\ conflict /\ conflict' = FALSE
      /\ top' = top /\ merge' = merge /\ staged' = staged /\ pick' = pick /\ clean' = clean
      /\ command' = command /\ spoilt' = spoilt /\ command.pc = "idle"
  BY DEF Merging!Resolve, Merging!At
<1>2. MergeTypeOK'
  BY <1>1, NoJobFacts DEF OnceInv, MergeTypeOK, Merged, Trees
<1>3. JobShape' /\ NotTwice' /\ JobRight'
  BY <1>1, AtRest DEF OnceInv
<1>4. StateRight => StateRight'
  BY <1>1, Names DEF StateRight, OwnIndex, Settled, PickStands, PickIsFresh
<1> QED BY <1>1, <1>2, <1>3, <1>4 DEF OnceInv

LEMMA FastForwardKeeps ==
  ASSUME NEW b \in Branches, OnceInv, Merging!FastForward(b)
  PROVE  OnceInv' /\ (StateRight => StateRight') /\ JobRight'
<1> DEFINE e == Merging!NewCommit(b, b, Mine)
<1>1. /\ merge = Nothing /\ staged = Nothing /\ ~conflict /\ ~Holds(top, b)
      /\ merge' = merge /\ pick' = pick /\ conflict' = conflict
      /\ command' = command /\ command.pc = "idle"
      /\ \/ /\ top' = Append(top, e) /\ clean' = Merging!NoMerge /\ staged' = staged
            /\ spoilt' = (spoilt \/ pick)
         \/ staged' = b /\ top' = top /\ clean' = clean /\ spoilt' = spoilt
  BY DEF Merging!FastForward, Merging!MayMerge, Merging!At
<1>2. e \in Commits /\ e.merges = b /\ e.tree = b /\ e.author = Mine
  BY DEF Merging!NewCommit, Commits, Merged, Trees
<1> HIDE DEF e
<1>3. spoilt' \in BOOLEAN /\ (~spoilt' => ~spoilt /\ (top' = top \/ ~pick))
  BY <1>1 DEF OnceInv, MergeTypeOK
<1>4. top' \in History /\ Distinct(top')
  <2>1. top \in History /\ Distinct(top)
    BY DEF OnceInv, MergeTypeOK
  <2>2. Append(top, e) \in History /\ Distinct(Append(top, e))
    BY <1>1, <1>2, <2>1, Appended, AppendedHolds
  <2> QED BY <1>1, <2>1, <2>2
<1>5. MergeTypeOK'
  BY <1>1, <1>3, <1>4, NoJobFacts DEF OnceInv, MergeTypeOK, Merged, Trees
<1>6. JobShape' /\ NotTwice' /\ JobRight'
  BY <1>1, AtRest DEF OnceInv
<1>7. ASSUME StateRight PROVE StateRight'
  <2>1. ~spoilt' => Matching(top') /\ Authored(top')
    BY <1>1, <1>2, <1>3, <1>7, Names, AppendedHolds DEF StateRight, OnceInv, MergeTypeOK
  <2>2. OwnIndex' /\ Settled' /\ PickStands' /\ PickIsFresh'
    BY <1>1, <1>3, <1>7, Names DEF StateRight, OwnIndex, Settled, PickStands, PickIsFresh
  <2> QED BY <2>1, <2>2 DEF StateRight
<1> QED BY <1>4, <1>5, <1>6, <1>7 DEF OnceInv

-----------------------------------------------------------------------------
(* A command begins *)

LEMMA Begins ==
  ASSUME OnceInv, NEW kind \in {"commit", "amend"}, NEW of \in Merged, NEW author \in {Mine, Picked},
         Merging!Begin(kind, of, author)
  PROVE  /\ command' \in Jobs /\ command'.pc = "pre hook" /\ command'.kind = kind
         /\ command'.of = of /\ command'.before = top /\ command'.author = author
         /\ command'.hooks = "merge" => of # Nothing /\ clean = [head |-> top, of |-> of]
<1> DEFINE hooks == Merging!HookSet(of)
<1>1. /\ hooks \in {"commit", "merge"}
      /\ hooks = "merge" => of # Nothing /\ clean = [head |-> top, of |-> of]
  BY DEF Merging!HookSet
<1> HIDE DEF hooks
<1>2. command' = [pc |-> "pre hook", kind |-> kind, of |-> of, before |-> top, author |-> author,
                  hooks |-> hooks, tree |-> Nothing]
  BY DEF Merging!Begin, Merging!NoJob, hooks
<1>3. command' \in Jobs
  BY <1>1, <1>2 DEF Jobs, OnceInv, MergeTypeOK, Trees, Merged
<1> QED BY <1>1, <1>2, <1>3

LEMMA Refused ==
  ASSUME OnceInv, Merging!Errs,
         UNCHANGED <<top, merge, pick, staged, conflict, clean, spoilt>>
  PROVE  OnceInv' /\ (StateRight => StateRight') /\ JobRight'
<1>1. command' = Merging!NoJob
  BY DEF Merging!Errs
<1>2. JobShape' /\ NotTwice' /\ JobRight'
  BY <1>1, NoJobFacts, AtRest DEF OnceInv
<1>3. MergeTypeOK'
  BY <1>1, NoJobFacts DEF OnceInv, MergeTypeOK
<1>4. StateRight => StateRight'
  BY DEF StateRight, OwnIndex, Settled, PickStands, PickIsFresh
<1> QED BY <1>2, <1>3, <1>4 DEF OnceInv

LEMMA CommitBeginKeeps ==
  ASSUME OnceInv, Merging!CommitBegin
  PROVE  OnceInv' /\ (StateRight => StateRight' /\ JobRight')
<1>1. /\ command.pc = "idle" /\ staged # Nothing
      /\ top' = top /\ staged' = staged /\ conflict' = conflict /\ clean' = clean /\ spoilt' = spoilt
  BY DEF Merging!CommitBegin, Merging!At
<1>2. CASE Merging!Leftover /\ Merging!StateStays /\ Merging!Errs
  BY <1>1, <1>2, Refused DEF Merging!StateStays
<1>3. CASE Merging!Leftover /\ Merging!ClearState /\ Merging!Begin("commit", Nothing, Mine)
  <2>1. /\ command' \in Jobs /\ command'.pc = "pre hook" /\ command'.kind = "commit"
        /\ command'.of = Nothing /\ command'.author = Mine /\ command'.hooks # "merge"
    BY <1>3, Begins DEF Merged
  <2>2. merge' = Nothing /\ pick' = FALSE
    BY <1>3 DEF Merging!ClearState
  <2>3. MergeTypeOK'
    BY <1>1, <2>1, <2>2 DEF OnceInv, MergeTypeOK, Merged
  <2>4. JobShape' /\ NotTwice'
    BY <2>1 DEF JobShape, NotTwice, Begun, AtHook
  <2>5. ASSUME StateRight PROVE StateRight' /\ JobRight'
    <3>1. ~spoilt => staged # Picked
      <4>1. CASE Merging!MergeLeftover
        BY <2>5, <4>1 DEF Merging!MergeLeftover, StateRight, PickIsFresh
      <4>2. CASE Merging!PickLeftover
        <5>1. ~Fresh(top)
          BY <4>2 DEF Merging!PickLeftover, Merging!LastOf, Fresh, OnceInv, MergeTypeOK, History
        <5> QED BY <2>5, <5>1 DEF StateRight, PickIsFresh
      <4> QED BY <1>3, <4>1, <4>2 DEF Merging!Leftover
    <3>2. StateRight'
      BY <1>1, <2>2, <2>5, <3>1, Names
      DEF StateRight, OwnIndex, Settled, PickStands, PickIsFresh
    <3>3. JobRight'
      BY <1>1, <2>1, <2>2, <3>1, Names
      DEF JobRight, HasIndex, HasAuthor, HasNoPick, HasTree, HasPick, HasLanded, HasHooks,
         AtHook, Unlanded
    <3> QED BY <3>2, <3>3
  <2> QED BY <1>1, <2>3, <2>4, <2>5 DEF OnceInv
<1>4. CASE /\ ~Merging!Leftover /\ Merging!StateStays
           /\ Merging!Begin("commit", merge, IF pick /\ merge = Nothing THEN Picked ELSE Mine)
  <2> DEFINE author == IF pick /\ merge = Nothing THEN Picked ELSE Mine
  <2>1. /\ command' \in Jobs /\ command'.pc = "pre hook" /\ command'.kind = "commit"
        /\ command'.of = merge /\ command'.before = top /\ command'.author = author
        /\ command'.hooks = "merge" => merge # Nothing /\ clean = [head |-> top, of |-> merge]
    BY <1>4, Begins DEF OnceInv, MergeTypeOK
  <2> HIDE DEF author
  <2>2. merge' = merge /\ pick' = pick
    BY <1>4 DEF Merging!StateStays
  <2>3. /\ merge # Nothing => conflict \/ ~Holds(top, merge)
        /\ pick /\ merge = Nothing /\ EndsPicked(top) => conflict
    BY <1>4 DEF Merging!Leftover, Merging!MergeLeftover, Merging!PickLeftover, EndsPicked
  <2>4. MergeTypeOK'
    BY <1>1, <2>1, <2>2 DEF OnceInv, MergeTypeOK
  <2>5. JobShape' /\ NotTwice'
    BY <1>1, <2>1, <2>2, <2>3 DEF JobShape, NotTwice, Begun, AtHook
  <2>6. ASSUME StateRight PROVE StateRight' /\ JobRight'
    <3>1. StateRight'
      BY <1>1, <2>2, <2>6 DEF StateRight, OwnIndex, Settled, PickStands, PickIsFresh
    <3>2. merge # Nothing => staged = merge \/ Holds(top, merge)
      BY <1>1, <2>6 DEF StateRight, OwnIndex
    <3>3. merge # Nothing => staged = merge
      BY <2>3, <2>6, <3>2 DEF StateRight, Settled
    <3>4. ~spoilt /\ pick /\ merge = Nothing => staged = Picked
      BY <2>3, <2>6 DEF StateRight, PickStands
    <3>5. ~spoilt /\ staged = Picked => pick /\ merge = Nothing
      BY <2>6 DEF StateRight, PickIsFresh
    <3>6. /\ author = Picked => pick /\ merge = Nothing
          /\ author = Mine => ~(pick /\ merge = Nothing)
      BY Names DEF author
    <3>7. JobRight'
      BY <1>1, <2>1, <2>2, <3>3, <3>4, <3>5, <3>6, Names
      DEF JobRight, HasIndex, HasAuthor, HasNoPick, HasTree, HasPick, HasLanded, HasHooks,
         AtHook, Unlanded
    <3> QED BY <3>1, <3>7
  <2> QED BY <1>1, <2>4, <2>5, <2>6 DEF OnceInv
<1> QED BY <1>1, <1>2, <1>3, <1>4 DEF Merging!CommitBegin

LEMMA AmendBeginKeeps ==
  ASSUME OnceInv, Merging!AmendBegin
  PROVE  OnceInv' /\ (StateRight => StateRight' /\ JobRight')
<1>1. /\ command.pc = "idle" /\ top # << >> /\ top' = top /\ staged' = staged
      /\ conflict' = conflict /\ clean' = clean /\ spoilt' = spoilt
  BY DEF Merging!AmendBegin, Merging!At
<1>2. CASE Merging!Leftover /\ Merging!StateStays /\ Merging!Errs
  BY <1>1, <1>2, Refused DEF Merging!StateStays
<1>3. CASE /\ Merging!Begin("amend", Nothing, Mine)
           /\ \/ Merging!Leftover /\ Merging!ClearState
              \/ Merging!NoOperation /\ Merging!StateStays
  <2>1. /\ command' \in Jobs /\ command'.pc = "pre hook" /\ command'.kind = "amend"
        /\ command'.of = Nothing /\ command'.before = top /\ command'.hooks # "merge"
    BY <1>3, Begins DEF Merged
  <2>2. merge' = Nothing /\ pick' = FALSE
    BY <1>3 DEF Merging!ClearState, Merging!StateStays, Merging!NoOperation, OnceInv, MergeTypeOK
  <2>3. MergeTypeOK'
    BY <1>1, <2>1, <2>2 DEF OnceInv, MergeTypeOK, Merged
  <2>4. JobShape' /\ NotTwice'
    BY <1>1, <2>1 DEF JobShape, NotTwice, Begun, AtHook
  <2>5. ASSUME StateRight PROVE StateRight' /\ JobRight'
    <3>1. ~spoilt => staged # Picked
      <4>1. CASE Merging!MergeLeftover \/ Merging!NoOperation
        BY <2>5, <4>1 DEF Merging!MergeLeftover, Merging!NoOperation, StateRight, PickIsFresh
      <4>2. CASE Merging!PickLeftover
        <5>1. ~Fresh(top)
          BY <4>2 DEF Merging!PickLeftover, Merging!LastOf, Fresh, OnceInv, MergeTypeOK, History
        <5> QED BY <2>5, <5>1 DEF StateRight, PickIsFresh
      <4> QED BY <1>3, <4>1, <4>2 DEF Merging!Leftover
    <3>2. StateRight'
      BY <1>1, <2>2, <2>5, <3>1, Names
      DEF StateRight, OwnIndex, Settled, PickStands, PickIsFresh
    <3>3. JobRight'
      BY <2>1, <2>2
      DEF JobRight, HasIndex, HasAuthor, HasNoPick, HasTree, HasPick, HasLanded, HasHooks,
          AtHook, Unlanded
    <3> QED BY <3>2, <3>3
  <2> QED BY <1>1, <2>3, <2>4, <2>5 DEF OnceInv
<1> QED BY <1>1, <1>2, <1>3 DEF Merging!AmendBegin

LEMMA PickOneKeeps ==
  ASSUME OnceInv, Merging!PickOne
  PROVE  OnceInv' /\ (StateRight => StateRight' /\ JobRight')
<1> DEFINE j == [pc |-> "pick hook", kind |-> "pick", of |-> Nothing, before |-> top,
                 author |-> Picked, hooks |-> "commit", tree |-> Picked]
<1>1. /\ command.pc = "idle" /\ merge = Nothing /\ ~pick /\ staged = Nothing /\ ~conflict /\ Fresh(top)
      /\ top' = top /\ merge' = merge /\ pick' = TRUE /\ staged' = Picked
      /\ clean' = clean /\ spoilt' = spoilt
  BY DEF Merging!PickOne, Merging!ReadyToPick, Merging!NoOperation, Merging!At, Fresh
<1>2. (conflict' = TRUE /\ command' = command) \/ (conflict' = conflict /\ command' = j)
  BY DEF Merging!PickOne, Merging!NoJob
<1>3. j \in Jobs
  BY DEF Jobs, OnceInv, MergeTypeOK, Trees, Merged
<1>4. /\ j.pc = "pick hook" /\ j.kind = "pick" /\ j.of = Nothing /\ j.before = top
      /\ j.author = Picked /\ j.hooks = "commit" /\ j.tree = Picked
  OBVIOUS
<1> HIDE DEF j
<1>5. MergeTypeOK'
  BY <1>1, <1>2, <1>3 DEF OnceInv, MergeTypeOK, Trees
<1>6. JobShape' /\ NotTwice' /\ JobRight'
  <2>1. CASE conflict' = TRUE /\ command' = command
    BY <1>1, <2>1, AtRest DEF OnceInv
  <2>2. CASE conflict' = conflict /\ command' = j
    <3>1. JobShape' /\ NotTwice'
      BY <1>4, <2>2 DEF JobShape, NotTwice, Begun, AtHook
    <3>2. HasIndex' /\ HasAuthor' /\ HasNoPick' /\ HasTree' /\ HasLanded' /\ HasHooks'
      BY <1>4, <2>2 DEF HasIndex, HasAuthor, HasNoPick, HasTree, HasLanded, HasHooks, AtHook, Unlanded
    <3>3. HasPick'
      BY <1>1, <1>4, <2>2 DEF HasPick
    <3> QED BY <3>1, <3>2, <3>3 DEF JobRight
  <2> QED BY <1>2, <2>1, <2>2
<1>7. StateRight => StateRight'
  BY <1>1, Names DEF StateRight, OwnIndex, Settled, PickStands, PickIsFresh
<1> QED BY <1>1, <1>5, <1>6, <1>7 DEF OnceInv

-----------------------------------------------------------------------------
(* The steps of a command *)

LEMMA Moves ==
  ASSUME OnceInv, Merging!Goto(command'.pc),
         command'.pc \in {"message hook", "write", "sign", "clear", "post hook"}
  PROVE  /\ command' \in Jobs /\ command'.kind = command.kind /\ command'.of = command.of
         /\ command'.before = command.before /\ command'.author = command.author
         /\ command'.hooks = command.hooks /\ command'.tree = command.tree
<1>1. command \in Jobs /\ command' = [command EXCEPT !.pc = command'.pc]
  BY DEF OnceInv, MergeTypeOK, Merging!Goto
<1> QED BY <1>1 DEF Jobs

LEMMA HookKeeps ==
  ASSUME OnceInv, NEW pc, NEW next, Merging!Hook(pc, next),
         \/ pc = "pre hook" /\ next = "message hook"
         \/ pc = "message hook" /\ next = "write"
         \/ pc = "pick hook" /\ next = "sign"
  PROVE  OnceInv' /\ (StateRight /\ JobRight => StateRight' /\ JobRight')
<1>1. /\ command.pc = pc /\ UNCHANGED <<top, merge, pick, staged, conflict, clean, spoilt>>
      /\ Merging!Errs \/ (~Merging!MergeChanged /\ Merging!Goto(next))
  BY DEF Merging!Hook, Merging!At, Merging!git
<1>2. CASE Merging!Errs
  BY <1>1, <1>2, Refused
<1>3. CASE ~Merging!MergeChanged /\ Merging!Goto(next)
  <2>1. command'.pc = next
    BY <1>3 DEF Merging!Goto, OnceInv, MergeTypeOK, Jobs
  <2>2. /\ command' \in Jobs /\ command'.kind = command.kind /\ command'.of = command.of
        /\ command'.before = command.before /\ command'.author = command.author
        /\ command'.hooks = command.hooks /\ command'.tree = command.tree
    BY <1>3, <2>1, Moves
  <2>3. command.of # Nothing => merge = command.of /\ top = command.before
    BY <1>3 DEF Merging!MergeChanged
  <2>4. MergeTypeOK'
    BY <1>1, <2>2 DEF OnceInv, MergeTypeOK
  <2>5. JobShape' /\ NotTwice'
    BY <1>1, <2>1, <2>2, <2>3 DEF OnceInv, JobShape, NotTwice, Begun, AtHook
  <2>6. ASSUME StateRight, JobRight PROVE StateRight' /\ JobRight'
    <3>1. StateRight'
      BY <1>1, <2>6 DEF StateRight, OwnIndex, Settled, PickStands, PickIsFresh
    <3>2. HasIndex' /\ HasAuthor' /\ HasNoPick'
      BY <1>1, <2>1, <2>2, <2>3, <2>6
      DEF JobRight, HasIndex, HasAuthor, HasNoPick, AtHook, Unlanded
    <3>3. HasTree' /\ HasPick' /\ HasLanded' /\ HasHooks'
      BY <1>1, <2>1, <2>2, <2>6
      DEF OnceInv, JobShape, JobRight, HasTree, HasPick, HasLanded, HasHooks, Unlanded
    <3> QED BY <3>1, <3>2, <3>3 DEF JobRight
  <2> QED BY <1>1, <2>4, <2>5, <2>6 DEF OnceInv
<1> QED BY <1>1, <1>2, <1>3

LEMMA WriteKeeps ==
  ASSUME OnceInv, Merging!Write
  PROVE  OnceInv' /\ (StateRight /\ JobRight => StateRight' /\ JobRight')
<1>1. command.pc = "write" /\ UNCHANGED <<top, merge, pick, staged, conflict, clean, spoilt>>
  BY DEF Merging!Write, Merging!At, Merging!git
<1>2. CASE conflict
  BY <1>1, <1>2, Refused DEF Merging!Write, Merging!WritesTree
<1>3. CASE ~conflict
  <2>1. command' = [command EXCEPT !.pc = "sign", !.tree = staged,
                      !.before = IF command.kind = "commit" THEN top ELSE @]
    BY <1>3 DEF Merging!Write, Merging!WritesTree
  <2>2. /\ command' \in Jobs /\ command'.pc = "sign" /\ command'.tree = staged
        /\ command'.kind = command.kind /\ command'.of = command.of
        /\ command'.author = command.author /\ command'.hooks = command.hooks
        /\ command'.before = IF command.kind = "commit" THEN top ELSE command.before
    BY <2>1 DEF OnceInv, MergeTypeOK, Jobs
  <2>3. /\ command.kind \in {"commit", "amend"}
        /\ command.kind = "amend" => command.before # << >>
        /\ command.kind # "commit" => command.of = Nothing
        /\ command.of # Nothing =>
             merge = command.of /\ top = command.before /\ ~Holds(top, command.of)
    BY <1>1, <1>3 DEF OnceInv, JobShape, NotTwice, Begun
  <2>4. MergeTypeOK'
    BY <1>1, <2>2 DEF OnceInv, MergeTypeOK
  <2>5. JobShape' /\ NotTwice'
    BY <1>1, <2>2, <2>3 DEF JobShape, NotTwice, Begun, AtHook
  <2>6. ASSUME StateRight, JobRight PROVE StateRight' /\ JobRight'
    <3>1. StateRight'
      BY <1>1, <2>6 DEF StateRight, OwnIndex, Settled, PickStands, PickIsFresh
    <3>2. HasIndex' /\ HasAuthor' /\ HasNoPick' /\ HasPick' /\ HasLanded'
      BY <1>1, <2>2, <2>3, <2>6
      DEF JobRight, HasIndex, HasAuthor, HasNoPick, HasPick, HasLanded, AtHook, Unlanded
    <3>3. HasTree'
      BY <1>1, <1>3, <2>2, <2>3, <2>6 DEF JobRight, HasIndex, HasTree
    <3>4. HasHooks'
      BY <1>1, <2>2, <2>3, <2>6 DEF JobRight, HasHooks, Unlanded
    <3> QED BY <3>1, <3>2, <3>3, <3>4 DEF JobRight
  <2> QED BY <1>1, <2>4, <2>5, <2>6 DEF OnceInv
<1> QED BY <1>2, <1>3

LEMMA SignerFailsKeeps ==
  ASSUME OnceInv, Merging!SignerFails
  PROVE  OnceInv' /\ (StateRight => StateRight') /\ JobRight'
BY Refused DEF Merging!SignerFails, Merging!git

LEMMA SwapKeeps ==
  ASSUME OnceInv, Merging!Swap
  PROVE  OnceInv' /\ (StateRight /\ JobRight => StateRight' /\ JobRight')
<1> DEFINE e == Merging!NewCommit(command.of, command.tree, command.author)
           next == IF command.kind = "commit" THEN "clear" ELSE "post hook"
<1>1. /\ command.pc = "sign" /\ UNCHANGED <<merge, pick, conflict, clean, spoilt>>
      /\ \/ Merging!Errs /\ UNCHANGED <<top, staged>>
         \/ /\ top = command.before
            /\ top' = IF command.kind = "amend" THEN Merging!Amended(top) ELSE Append(top, e)
            /\ staged' = IF staged = command.tree THEN Nothing ELSE staged
            /\ Merging!Goto(next)
  BY DEF Merging!Swap, Merging!At, Merging!Swaps
<1>2. /\ e \in Commits /\ e.merges = command.of /\ e.tree = command.tree
      /\ e.author = command.author
  BY DEF Merging!NewCommit, Commits, OnceInv, MergeTypeOK, Jobs
<1> HIDE DEF e, next
<1>3. CASE Merging!Errs /\ UNCHANGED <<top, staged>>
  BY <1>1, <1>3, Refused
<1>4. CASE /\ top = command.before
           /\ top' = IF command.kind = "amend" THEN Merging!Amended(top) ELSE Append(top, e)
           /\ staged' = IF staged = command.tree THEN Nothing ELSE staged
           /\ Merging!Goto(next)
  <2>1. command'.pc = next
    BY <1>4 DEF Merging!Goto, OnceInv, MergeTypeOK, Jobs
  <2>2. next \in {"clear", "post hook"} /\ (next = "clear" <=> command.kind = "commit")
    BY DEF next
  <2>3. /\ command' \in Jobs /\ command'.kind = command.kind /\ command'.of = command.of
        /\ command'.before = command.before
    BY <1>4, <2>1, <2>2, Moves
  <2>4. /\ top \in History /\ Distinct(top) /\ command.kind \in {"commit", "amend", "pick"}
        /\ command.kind # "commit" => command.of = Nothing
        /\ command.of # Nothing => ~Holds(top, command.of)
        /\ command.kind = "amend" => top # << >>
    BY <1>1, <1>4 DEF OnceInv, MergeTypeOK, JobShape, NotTwice
  <2>5. top' \in History /\ Distinct(top')
    <3>1. CASE command.kind = "amend"
      BY <1>4, <2>4, <3>1, AmendedHolds
    <3>2. CASE command.kind # "amend"
      BY <1>2, <1>4, <2>4, <3>2, Appended, AppendedHolds
    <3> QED BY <3>1, <3>2
  <2>6. MergeTypeOK'
    BY <1>1, <1>4, <2>3, <2>5 DEF OnceInv, MergeTypeOK, Merged, Trees
  <2>7. JobShape' /\ NotTwice'
    BY <1>4, <2>1, <2>2, <2>3, <2>4 DEF JobShape, NotTwice, Begun, AtHook
  <2>8. ASSUME StateRight, JobRight PROVE StateRight' /\ JobRight'
    <3>1. CASE command.kind = "commit"
      <4>1. /\ top' = Append(top, e) /\ command'.pc = "clear"
            /\ \A b : Holds(top', b) <=> Holds(top, b) \/ command.of = b
        BY <1>2, <1>4, <2>1, <2>2, <2>4, <3>1, Appended
      <4>2. /\ staged = command.tree /\ staged' = Nothing /\ ~conflict
            /\ command.of # Nothing => merge = command.of /\ command.tree = command.of
        BY <1>1, <1>4, <2>8, <3>1 DEF JobRight, HasTree
      <4>3. /\ command.of = Nothing /\ command.author = Mine => ~pick
            /\ ~spoilt /\ command.author = Picked =>
                 command.of = Nothing /\ merge = Nothing /\ command.tree = Picked
            /\ ~spoilt /\ command.author = Mine => command.tree # Picked
            /\ command.author \in {Mine, Picked}
        BY <1>1, <2>8, <3>1, <4>2 DEF JobRight, HasAuthor, Unlanded, OnceInv, MergeTypeOK, Jobs
      <4>4. ~spoilt => Matching(top') /\ Authored(top')
        BY <1>2, <2>4, <2>8, <4>1, <4>2, <4>3, Names, AppendedHolds DEF StateRight
      <4>5. ~spoilt /\ pick /\ merge = Nothing => EndsPicked(top')
        BY <1>2, <2>4, <4>1, <4>2, <4>3, AppendedHolds
      <4>6. OwnIndex' /\ Settled' /\ PickIsFresh'
        BY <1>1, <4>2, Names DEF OwnIndex, Settled, PickIsFresh
      <4>7. merge # Nothing /\ ~Holds(top', merge) /\ ~spoilt /\ pick => FALSE
        BY <4>1, <4>2, <4>3
      <4>8. PickStands'
        BY <1>1, <4>2, <4>5, <4>7 DEF PickStands
      <4>9. JobRight'
        BY <1>1, <2>3, <3>1, <4>1, <4>2, Names
        DEF JobRight, HasIndex, HasAuthor, HasNoPick, HasTree, HasPick, HasLanded, HasHooks,
            AtHook, Unlanded
      <4> QED BY <1>1, <4>4, <4>6, <4>8, <4>9 DEF StateRight
    <3>2. CASE command.kind = "amend"
      <4>1. /\ top' = Merging!Amended(top) /\ command'.pc = "post hook"
            /\ \A b : Holds(top', b) <=> Holds(top, b)
            /\ Matching(top) => Matching(top')
            /\ Authored(top) => Authored(top')
        BY <1>4, <2>1, <2>2, <2>4, <3>2, AmendedHolds
      <4>2. staged' = Nothing /\ ~conflict /\ ~pick
        BY <1>1, <1>4, <2>8, <3>2 DEF JobRight, HasTree, HasNoPick, Unlanded
      <4>3. StateRight'
        BY <1>1, <2>8, <4>1, <4>2, Names DEF StateRight, OwnIndex, Settled, PickStands, PickIsFresh
      <4>4. JobRight'
        BY <2>3, <3>2, <4>1
        DEF JobRight, HasIndex, HasAuthor, HasNoPick, HasTree, HasPick, HasLanded, HasHooks,
            AtHook, Unlanded
      <4> QED BY <4>3, <4>4
    <3>3. CASE command.kind = "pick"
      <4>1. Len(top) \in Nat
        BY <2>4 DEF History
      <4>2. /\ command.tree = Picked /\ command.author = Picked /\ command.of = Nothing
            /\ pick /\ merge = Nothing /\ ~conflict /\ staged = Picked
        BY <1>1, <1>4, <2>4, <2>8, <3>3, <4>1 DEF JobRight, HasPick
      <4>3. top' = Append(top, e) /\ staged' = Nothing /\ command'.pc = "post hook"
        BY <1>4, <2>1, <2>2, <3>3, <4>2
      <4>4. EndsPicked(top') /\ (~spoilt => Matching(top') /\ Authored(top'))
        BY <1>2, <2>4, <2>8, <4>2, <4>3, Names, AppendedHolds DEF StateRight
      <4>5. StateRight'
        BY <1>1, <4>2, <4>3, <4>4, Names DEF StateRight, OwnIndex, Settled, PickStands, PickIsFresh
      <4>6. JobRight'
        BY <1>1, <2>3, <3>3, <4>2, <4>3, <4>4
        DEF JobRight, HasIndex, HasAuthor, HasNoPick, HasTree, HasPick, HasLanded, HasHooks,
            AtHook, Unlanded
      <4> QED BY <4>5, <4>6
    <3> QED BY <2>4, <3>1, <3>2, <3>3
  <2> QED BY <1>1, <2>5, <2>6, <2>7, <2>8 DEF OnceInv
<1> QED BY <1>1, <1>3, <1>4

LEMMA ClearKeeps ==
  ASSUME OnceInv, Merging!Clear
  PROVE  OnceInv' /\ (StateRight /\ JobRight => StateRight' /\ JobRight')
<1>1. /\ command.pc = "clear" /\ UNCHANGED <<top, staged, conflict, clean, spoilt>>
      /\ IF command.kind = "pick" THEN Merging!Errs ELSE Merging!Goto("post hook")
      /\ (merge' = Nothing /\ pick' = FALSE) \/ (merge' = merge /\ pick' = pick)
  BY DEF Merging!Clear, Merging!At, Merging!Errs, Merging!ClearState, Merging!StateStays
<1>2. /\ command' \in Jobs /\ JobShape' /\ NotTwice' /\ JobRight'
  <2>1. CASE command.kind = "pick"
    <3>1. command' = Merging!NoJob
      BY <1>1, <2>1 DEF Merging!Errs
    <3> QED BY <3>1, NoJobFacts, AtRest DEF OnceInv
  <2>2. CASE command.kind # "pick"
    <3>1. command'.pc = "post hook"
      BY <1>1, <2>2 DEF Merging!Goto, OnceInv, MergeTypeOK, Jobs
    <3>2. /\ command' \in Jobs /\ command'.kind = command.kind /\ command'.of = command.of
      BY <1>1, <2>2, <3>1, Moves
    <3>3. command.kind = "commit"
      BY <1>1, <2>2 DEF OnceInv, JobShape
    <3>4. JobShape' /\ NotTwice'
      BY <3>1, <3>2, <3>3 DEF JobShape, NotTwice, Begun, AtHook
    <3>5. JobRight'
      BY <3>1, <3>2, <3>3
      DEF JobRight, HasIndex, HasAuthor, HasNoPick, HasTree, HasPick, HasLanded, HasHooks,
          AtHook, Unlanded
    <3> QED BY <3>2, <3>4, <3>5
  <2> QED BY <2>1, <2>2
<1>3. MergeTypeOK'
  BY <1>1, <1>2 DEF OnceInv, MergeTypeOK, Merged
<1>4. ASSUME StateRight, JobRight PROVE StateRight'
  <2>1. ~spoilt => staged # Picked
    BY <1>1, <1>4 DEF JobRight, HasLanded
  <2>2. CASE merge' = Nothing /\ pick' = FALSE
    BY <1>1, <1>4, <2>1, <2>2 DEF StateRight, OwnIndex, Settled, PickStands, PickIsFresh
  <2>3. CASE merge' = merge /\ pick' = pick
    BY <1>1, <1>4, <2>3 DEF StateRight, OwnIndex, Settled, PickStands, PickIsFresh
  <2> QED BY <1>1, <2>2, <2>3
<1> QED BY <1>1, <1>2, <1>3, <1>4 DEF OnceInv

LEMMA PostHookKeeps ==
  ASSUME OnceInv, Merging!PostHook
  PROVE  OnceInv' /\ (StateRight /\ JobRight => StateRight' /\ JobRight')
<1>1. /\ command.pc = "post hook" /\ UNCHANGED <<top, merge, pick, staged, conflict, spoilt>>
      /\ IF command.kind = "pick" THEN Merging!Goto("clear") ELSE Merging!Errs
      /\ clean' \in {clean, Merging!NoMerge}
  BY DEF Merging!PostHook, Merging!At, Merging!Errs, Merging!git
<1>2. /\ command' \in Jobs /\ JobShape' /\ NotTwice' /\ (StateRight /\ JobRight => JobRight')
  <2>1. CASE command.kind # "pick"
    <3>1. command' = Merging!NoJob
      BY <1>1, <2>1 DEF Merging!Errs
    <3> QED BY <3>1, NoJobFacts, AtRest DEF OnceInv
  <2>2. CASE command.kind = "pick"
    <3>1. command'.pc = "clear"
      BY <1>1, <2>2 DEF Merging!Goto, OnceInv, MergeTypeOK, Jobs
    <3>2. /\ command' \in Jobs /\ command'.kind = command.kind /\ command'.of = command.of
      BY <1>1, <2>2, <3>1, Moves
    <3>3. command.of = Nothing
      BY <2>2 DEF OnceInv, JobShape
    <3>4. JobShape' /\ NotTwice'
      BY <2>2, <3>1, <3>2, <3>3 DEF JobShape, NotTwice, Begun, AtHook
    <3>5. ASSUME StateRight, JobRight PROVE JobRight'
      <4>1. merge = Nothing /\ ~conflict /\ EndsPicked(top)
        BY <1>1, <2>2, <3>5 DEF JobRight, HasLanded
      <4>2. ~Fresh(top)
        BY <4>1 DEF EndsPicked, Merging!LastOf, Fresh, OnceInv, MergeTypeOK, History
      <4>3. ~spoilt => staged # Picked
        BY <3>5, <4>2 DEF StateRight, PickIsFresh
      <4> QED BY <1>1, <2>2, <3>1, <3>2, <3>3, <4>1, <4>3
              DEF JobRight, HasIndex, HasAuthor, HasNoPick, HasTree, HasPick, HasLanded, HasHooks,
                  AtHook, Unlanded
    <3> QED BY <3>2, <3>4, <3>5
  <2> QED BY <2>1, <2>2
<1>3. MergeTypeOK'
  BY <1>1, <1>2, NoJobFacts DEF OnceInv, MergeTypeOK
<1>4. StateRight => StateRight'
  BY <1>1 DEF StateRight, OwnIndex, Settled, PickStands, PickIsFresh
<1> QED BY <1>1, <1>2, <1>3, <1>4 DEF OnceInv

-----------------------------------------------------------------------------
(* A terminal, between commands and while a hook runs *)

LEMMA Waits ==
  ASSUME Merging!At("idle") \/ Merging!Waiting
  PROVE  /\ command.pc \in {"idle", "pre hook", "message hook", "pick hook", "post hook", "sign"}
         /\ ~Signs => command.pc # "sign"
BY DEF Merging!At, Merging!Waiting

LEMMA MergeAbortKeeps ==
  ASSUME OnceInv, Merging!MergeAbort
  PROVE  OnceInv' /\ (~Signs /\ StateRight /\ JobRight => StateRight' /\ JobRight')
<1>1. /\ merge # Nothing /\ ~Holds(top, merge)
      /\ merge' = Nothing /\ staged' = Nothing /\ conflict' = FALSE
      /\ UNCHANGED <<top, pick, clean, command, spoilt>>
  BY DEF Merging!MergeAbort
<1>2. /\ command.pc \in {"idle", "pre hook", "message hook", "pick hook", "post hook", "sign"}
      /\ ~Signs => command.pc # "sign"
  BY Waits DEF Merging!MergeAbort
<1>3. MergeTypeOK'
  BY <1>1 DEF OnceInv, MergeTypeOK, Merged, Trees
<1>4. JobShape' /\ NotTwice'
  BY <1>1, <1>2 DEF OnceInv, JobShape, NotTwice, Begun, AtHook
<1>5. ASSUME ~Signs, StateRight, JobRight PROVE StateRight' /\ JobRight'
  <2>1. StateRight'
    BY <1>1, <1>5, Names DEF StateRight, OwnIndex, Settled, PickStands, PickIsFresh
  <2>2. HasIndex' /\ HasAuthor' /\ HasNoPick' /\ HasTree'
    BY <1>1, <1>2, <1>5, Names
    DEF JobRight, HasIndex, HasAuthor, HasNoPick, HasTree, AtHook, Unlanded
  <2>3. HasPick' /\ HasLanded' /\ HasHooks'
    BY <1>1, <1>2, <1>5 DEF JobRight, HasPick, HasLanded, HasHooks, Unlanded
  <2> QED BY <2>1, <2>2, <2>3 DEF JobRight
<1> QED BY <1>1, <1>3, <1>4, <1>5 DEF OnceInv

LEMMA MergeStartKeeps ==
  ASSUME NEW b \in Branches, OnceInv, Merging!MergeStart(b)
  PROVE  OnceInv' /\ (~Signs /\ StateRight /\ JobRight => StateRight' /\ JobRight')
<1>1. /\ merge = Nothing /\ ~pick /\ ~Holds(top, b) /\ staged = Nothing
      /\ merge' = b /\ staged' = b /\ conflict' \in BOOLEAN
      /\ UNCHANGED <<top, pick, clean, command, spoilt>>
  BY DEF Merging!MergeStart, Merging!NoOperation
<1>2. /\ command.pc \in {"idle", "pre hook", "message hook", "pick hook", "post hook", "sign"}
      /\ ~Signs => command.pc # "sign"
  BY Waits DEF Merging!MergeStart
<1>3. MergeTypeOK'
  BY <1>1 DEF OnceInv, MergeTypeOK, Merged, Trees
<1>4. JobShape' /\ NotTwice'
  BY <1>1, <1>2 DEF OnceInv, JobShape, NotTwice, Begun, AtHook
<1>5. ASSUME ~Signs, StateRight, JobRight PROVE StateRight' /\ JobRight'
  <2>1. StateRight'
    BY <1>1, <1>5, Names DEF StateRight, OwnIndex, Settled, PickStands, PickIsFresh
  <2>2. HasIndex' /\ HasAuthor' /\ HasNoPick' /\ HasTree'
    BY <1>1, <1>2, <1>5, Names
    DEF JobRight, HasIndex, HasAuthor, HasNoPick, HasTree, AtHook, Unlanded
  <2>3. HasPick' /\ HasLanded' /\ HasHooks'
    BY <1>1, <1>2, <1>5 DEF JobRight, HasPick, HasLanded, HasHooks, Unlanded
  <2> QED BY <2>1, <2>2, <2>3 DEF JobRight
<1> QED BY <1>1, <1>3, <1>4, <1>5 DEF OnceInv

LEMMA CommitByHandKeeps ==
  ASSUME OnceInv, Merging!CommitByHand
  PROVE  OnceInv' /\ (~Signs /\ StateRight /\ JobRight => StateRight' /\ JobRight')
<1> DEFINE author == IF pick /\ merge = Nothing THEN Picked ELSE Mine
           e == Merging!NewCommit(merge, staged, author)
<1>1. /\ staged # Nothing /\ ~conflict /\ (merge = Nothing \/ ~Holds(top, merge))
      /\ pick /\ merge = Nothing => ~EndsPicked(top)
      /\ top' = Append(top, e) /\ merge' = Nothing /\ pick' = FALSE /\ staged' = Nothing
      /\ spoilt' = (spoilt \/ (pick /\ command.pc # "idle"))
      /\ UNCHANGED <<conflict, clean, command>>
  BY DEF Merging!CommitByHand, Merging!ClearState, Merging!PickLeftover, EndsPicked, Merging!At
<1>2. /\ command.pc \in {"idle", "pre hook", "message hook", "pick hook", "post hook", "sign"}
      /\ ~Signs => command.pc # "sign"
  BY Waits DEF Merging!CommitByHand
<1>3. /\ e \in Commits /\ e.merges = merge /\ e.tree = staged /\ e.author = author
      /\ author = Picked <=> pick /\ merge = Nothing
  BY Names DEF Merging!NewCommit, Commits, OnceInv, MergeTypeOK
<1> HIDE DEF e, author
<1>4. /\ top \in History /\ Distinct(top) /\ spoilt' \in BOOLEAN
      /\ ~spoilt' => ~spoilt /\ (pick => command.pc = "idle")
  BY <1>1 DEF OnceInv, MergeTypeOK
<1>5. top' \in History /\ Distinct(top') /\ Len(top') > Len(top) /\ Len(top) \in Nat /\ Len(top') \in Nat
  BY <1>1, <1>3, <1>4, Appended, AppendedHolds
<1>6. MergeTypeOK'
  BY <1>1, <1>4, <1>5 DEF OnceInv, MergeTypeOK, Merged, Trees
<1>7. JobShape' /\ NotTwice'
  BY <1>1, <1>2 DEF OnceInv, JobShape, NotTwice, Begun, AtHook
<1>8. ASSUME ~Signs, StateRight, JobRight PROVE StateRight' /\ JobRight'
  <2>1. merge # Nothing => staged = merge
    BY <1>1, <1>8 DEF StateRight, OwnIndex
  <2>2. ~spoilt => (staged = Picked <=> pick /\ merge = Nothing)
    BY <1>1, <1>8 DEF StateRight, PickStands, PickIsFresh
  <2>3. ~spoilt' => Matching(top') /\ Authored(top')
    BY <1>1, <1>3, <1>4, <1>8, <2>1, <2>2, AppendedHolds DEF StateRight
  <2>4. StateRight'
    BY <1>1, <2>3, Names DEF StateRight, OwnIndex, Settled, PickStands, PickIsFresh
  <2>5. HasIndex' /\ HasAuthor' /\ HasNoPick' /\ HasTree'
    BY <1>1, <1>2, <1>4, <1>8, Names
    DEF JobRight, HasIndex, HasAuthor, HasNoPick, HasTree, AtHook, Unlanded
  <2>6. HasPick'
    <3>1. PICK m \in Nat, n \in Nat : m = Len(top) /\ n = Len(top') /\ n > m
      BY <1>5
    <3>2. command.before \in History
      BY DEF OnceInv, MergeTypeOK, Jobs
    <3>3. PICK k \in Nat : k = Len(command.before)
      <4>1. Len(command.before) \in Nat
        BY <3>2 DEF History
      <4> QED BY <4>1, Zenon
    <3>4. m > k \/ top = command.before => n > k
      BY <3>1, <3>3
    <3> QED BY <1>1, <1>2, <1>8, <3>1, <3>3, <3>4 DEF JobRight, HasPick
  <2>7. HasLanded' /\ HasHooks'
    BY <1>1, <1>2, <1>8 DEF JobRight, HasLanded, HasHooks, Unlanded
  <2> QED BY <2>4, <2>5, <2>6, <2>7 DEF JobRight
<1> QED BY <1>1, <1>5, <1>6, <1>7, <1>8 DEF OnceInv

-----------------------------------------------------------------------------
(* Every step *)

LEMMA Starts == Merging!Init => RightInv
<1> SUFFICES ASSUME Merging!Init PROVE RightInv
  OBVIOUS
<1>1. /\ top = << >> /\ merge = Nothing /\ pick = FALSE /\ staged = Nothing /\ conflict = FALSE
      /\ clean = Merging!NoMerge /\ command = Merging!NoJob /\ spoilt = FALSE
  BY DEF Merging!Init
<1>2. MergeTypeOK
  BY <1>1, NoJobFacts DEF MergeTypeOK, Merged, Trees
<1>3. \A i : i \notin DOMAIN top
  BY <1>1
<1>4. Distinct(top) /\ Matching(top) /\ Authored(top)
  BY <1>3 DEF Distinct, Matching, Authored
<1>5. JobShape /\ NotTwice
  BY <1>1, NoJobFacts DEF JobShape, NotTwice, Begun, AtHook
<1>6. StateRight
  BY <1>1, <1>4, Names DEF StateRight, OwnIndex, Settled, PickStands, PickIsFresh
<1>7. JobRight
  BY <1>1, NoJobFacts
  DEF JobRight, HasIndex, HasAuthor, HasNoPick, HasTree, HasPick, HasLanded, HasHooks,
      AtHook, Unlanded
<1> QED BY <1>2, <1>4, <1>5, <1>6, <1>7 DEF RightInv, OnceInv

LEMMA StepKeeps ==
  ASSUME OnceInv, Merging!Next
  PROVE  OnceInv' /\ (~Signs /\ StateRight /\ JobRight => StateRight' /\ JobRight')
<1>1. ASSUME Merging!Command
      PROVE  OnceInv' /\ (StateRight => StateRight' /\ JobRight')
  BY <1>1, CommitBeginKeeps, AmendBeginKeeps, PickOneKeeps, PickNothingKeeps, AbortMergeKeeps,
     AbortFailsKeeps, ReopenKeeps, StartMergeKeeps, UpToDateKeeps, FastForwardKeeps,
     SquashMergeKeeps
  DEF Merging!Command
<1>2. ASSUME Merging!Step
      PROVE  OnceInv' /\ (StateRight /\ JobRight => StateRight' /\ JobRight')
  BY <1>2, HookKeeps, WriteKeeps, SignerFailsKeeps, SwapKeeps, ClearKeeps, PostHookKeeps
  DEF Merging!Step
<1>3. ASSUME Merging!Terminal
      PROVE  OnceInv' /\ (~Signs /\ StateRight /\ JobRight => StateRight' /\ JobRight')
  BY <1>3, StageKeeps, ResolveKeeps, MergeAbortKeeps, CommitByHandKeeps, MergeStartKeeps
  DEF Merging!Terminal
<1> QED BY <1>1, <1>2, <1>3 DEF Merging!Next

LEMMA RestKeeps ==
  ASSUME OnceInv, UNCHANGED mergeVars
  PROVE  OnceInv' /\ (StateRight /\ JobRight => StateRight' /\ JobRight')
<1>1. UNCHANGED <<top, merge, pick, staged, conflict, clean, command, spoilt>>
  BY DEF mergeVars
<1>2. OnceInv'
  BY <1>1 DEF OnceInv, MergeTypeOK, JobShape, NotTwice, Begun, AtHook
<1>3. StateRight => StateRight'
  BY <1>1 DEF StateRight, OwnIndex, Settled, PickStands, PickIsFresh
<1>4. /\ HasIndex => HasIndex'
      /\ HasAuthor => HasAuthor'
      /\ HasNoPick => HasNoPick'
  BY <1>1 DEF HasIndex, HasAuthor, HasNoPick, AtHook, Unlanded
<1>5. /\ HasTree => HasTree'
      /\ HasPick => HasPick'
  BY <1>1 DEF HasTree, HasPick
<1>6. /\ HasLanded => HasLanded'
      /\ HasHooks => HasHooks'
  BY <1>1 DEF HasLanded, HasHooks, Unlanded
<1> QED BY <1>2, <1>3, <1>4, <1>5, <1>6 DEF JobRight

(* The step that clears MERGE_HEAD has the merge in HEAD; git merge's hooks are for its own. *)
LEMMA BeginConcludes ==
  ASSUME OnceInv, Merging!CommitBegin \/ Merging!AmendBegin
  PROVE  merge # Nothing /\ merge' = Nothing => Holds(top', merge)
<1> SUFFICES ASSUME merge # Nothing, merge' = Nothing PROVE Holds(top', merge)
  OBVIOUS
<1>1. top' = top /\ (Merging!Leftover \/ merge' = merge)
  BY DEF Merging!CommitBegin, Merging!AmendBegin, Merging!StateStays
<1> QED BY <1>1 DEF Merging!Leftover, Merging!MergeLeftover, Merging!PickLeftover

LEMMA ClearConcludes ==
  ASSUME OnceInv, JobRight, Merging!Clear
  PROVE  merge # Nothing /\ merge' = Nothing => Holds(top', merge)
<1> SUFFICES ASSUME merge # Nothing, merge' = Nothing PROVE Holds(top', merge)
  OBVIOUS
<1>1. command.pc = "clear" /\ top' = top /\ (Merging!Concludes \/ merge' = merge)
  BY DEF Merging!Clear, Merging!At, Merging!StateStays
<1> QED BY <1>1 DEF Merging!Concludes, JobRight, HasLanded

LEMMA SwapConcludes ==
  ASSUME OnceInv, JobRight, Merging!Swap, command.hooks = "merge", top' # top
  PROVE  top = clean.head /\ Merging!LastOf(top') = Merging!NewCommit(clean.of, command.tree, command.author)
<1> DEFINE e == Merging!NewCommit(command.of, command.tree, command.author)
<1>1. /\ command.pc = "sign" /\ top = command.before
      /\ top' = IF command.kind = "amend" THEN Merging!Amended(top) ELSE Append(top, e)
  BY DEF Merging!Swap, Merging!At, Merging!Swaps
<1>2. command.of # Nothing /\ clean = [head |-> command.before, of |-> command.of]
  BY <1>1 DEF JobRight, HasHooks, Unlanded
<1>3. command.kind = "commit"
  BY <1>2 DEF OnceInv, JobShape
<1>4. e \in Commits /\ top \in History
  BY DEF Merging!NewCommit, Commits, OnceInv, MergeTypeOK, Jobs
<1> HIDE DEF e
<1>5. Merging!LastOf(top') = e /\ clean.head = top /\ clean.of = command.of
  BY <1>1, <1>2, <1>3, <1>4, Appended
<1> QED BY <1>5 DEF e

LEMMA StepConcludes ==
  ASSUME ~Signs, RightInv, Merging!Next
  PROVE  Merging!ConcludesItsOwn
<1>1. OnceInv /\ JobRight
  BY DEF RightInv
<1> DEFINE Harmless == command' = command \/ merge' = merge \/ merge = Nothing
<1>2. Harmless \/ Merging!CommitBegin \/ Merging!AmendBegin \/ Merging!Clear
  <2>1. ASSUME Merging!Command PROVE Harmless \/ Merging!CommitBegin \/ Merging!AmendBegin
    BY <2>1
    DEF Merging!Command, Merging!PickOne, Merging!PickNothing, Merging!AbortMerge,
        Merging!AbortFails, Merging!Reopen, Merging!StartMerge, Merging!UpToDate,
        Merging!FastForward, Merging!SquashMerge
  <2>2. ASSUME Merging!Step PROVE Harmless \/ Merging!Clear
    BY <2>2
    DEF Merging!Step, Merging!Hook, Merging!Write, Merging!SignerFails, Merging!Swap,
        Merging!PostHook, Merging!git
  <2>3. ASSUME Merging!Terminal PROVE Harmless
    BY <2>3
    DEF Merging!Terminal, Merging!Stage, Merging!Resolve, Merging!MergeAbort,
        Merging!CommitByHand, Merging!MergeStart
  <2> QED BY <2>1, <2>2, <2>3 DEF Merging!Next
<1>3. command' # command /\ merge # Nothing /\ merge' = Nothing => Holds(top', merge)
  BY <1>1, <1>2, BeginConcludes, ClearConcludes
<1>4. command.pc = "sign" => top' = top \/ Merging!Swap
  <2> SUFFICES ASSUME command.pc = "sign" PROVE top' = top \/ Merging!Swap
    OBVIOUS
  <2>1. ASSUME Merging!Command PROVE FALSE
    BY <2>1
    DEF Merging!Command, Merging!CommitBegin, Merging!AmendBegin, Merging!PickOne,
        Merging!PickNothing, Merging!AbortMerge, Merging!AbortFails, Merging!Reopen,
        Merging!StartMerge, Merging!UpToDate, Merging!FastForward, Merging!SquashMerge,
        Merging!MayMerge, Merging!MayAbort, Merging!ReadyToPick, Merging!At
  <2>2. ASSUME Merging!Step PROVE top' = top \/ Merging!Swap
    BY <2>2
    DEF Merging!Step, Merging!Hook, Merging!Write, Merging!SignerFails, Merging!Clear,
        Merging!PostHook, Merging!git
  <2>3. ASSUME Merging!Terminal PROVE top' = top
    BY <2>3
    DEF Merging!Terminal, Merging!Stage, Merging!Resolve, Merging!MergeAbort,
        Merging!CommitByHand, Merging!MergeStart, Merging!Waiting, Merging!At
  <2> QED BY <2>1, <2>2, <2>3 DEF Merging!Next
<1>5. command.pc = "sign" /\ command.hooks = "merge" /\ top' # top =>
        top = clean.head /\ Merging!LastOf(top').merges = clean.of
  BY <1>1, <1>4, SwapConcludes DEF Merging!NewCommit
<1> QED BY <1>3, <1>5 DEF Merging!ConcludesItsOwn, Merging!At

-----------------------------------------------------------------------------
(* Sequences of picks: types *)

Entries == Listed..Steps
Tips == Seq(Entries)
Refs == {"own", "other", "renamed"}
Sequence == [next : Nat, expected : Tips, original : Tips, ref : Refs, conflict : BOOLEAN]
Running == {"clear leftover", "retry", "adopt", "finish", "step", "hook", "commit", "landed", "keep"}
Aborting == {"reset", "unmark", "rewind", "forget"}

SeqJobs ==
  [pc : Running \cup Aborting \cup {"idle"},
   mode : {"none", "run", "abort", "abort step", "abort list"},
   st : Sequence, parent : Tips, resumed : BOOLEAN, cancelled : BOOLEAN]

SeqTypeOK ==
  /\ head \in Tips /\ away \in Tips /\ ref \in Refs /\ op \in ListOp..Steps
  /\ list \in [left : Nat, start : Tips, safety : Tips]
  /\ index \in {"clean", "staged", "conflict"} /\ file \in Sequence
  /\ job \in SeqJobs
  /\ disturbed \in BOOLEAN

(* The invariant of a sequence.  What a branch may hold, and a stored sequence: the steps of *)
(* a branch ascend, and all of a sequence's commits stand above the HEAD it started from.    *)

Ordered(c) == \A i, j \in DOMAIN c : i < j /\ c[i] > 0 /\ c[j] > 0 => c[i] < c[j]
Below(c, n) == \A i \in DOMAIN c : c[i] < n
OwnTail(c, o) == Len(o) <= Len(c) /\ \A i \in (Len(o) + 1)..Len(c) : c[i] \in 1..Steps

Stored(st) ==
  /\ Ordered(st.original) /\ Below(st.expected, st.next) /\ OwnTail(st.expected, st.original)
  /\ st # NoSequence => st.next \in 1..Steps

TipsOK == Ordered(head) /\ Ordered(away) /\ Ordered(list.start)
OpOK ==
  /\ op > 0 /\ index # "clean" => Below(head, op)
  /\ op > 0 => list = NoList

(* Each step starts where every step before it has landed, and none after it. *)
StepOK ==
  /\ At("step") =>
       /\ job.st.next \in 1..(Steps + 1) /\ Ordered(job.st.original)
       /\ Below(head, job.st.next) /\ OwnTail(head, job.st.original)
  /\ At("landed") =>
       /\ job.st.next \in 1..Steps /\ Ordered(job.st.original)
       /\ Below(head, job.st.next + 1) /\ OwnTail(head, job.st.original)
  /\ job.pc \in Running \ {"step", "landed"} => Stored(job.st)
  /\ job.pc \in Running \ {"step", "landed", "keep"} => job.st.next \in 1..Steps
  /\ At("hook") \/ At("commit") => Below(job.parent, job.st.next) /\ OwnTail(job.parent, job.st.original)
  /\ At("clear leftover") \/ At("retry") \/ At("finish") => head = job.st.expected
  /\ At("adopt") => head = Append(job.st.expected, job.st.next)
  /\ job.pc \in Running => list = NoList

AbortOK ==
  /\ job.pc \in Aborting => job.mode \in {"abort", "abort step", "abort list"}
  /\ At("rewind") \/ At("forget") => job.mode # "abort step"
  /\ job.pc \in Aborting =>
       IF job.mode = "abort" THEN job.st = file /\ file # NoSequence ELSE file = NoSequence
  /\ job.pc \in Aborting /\ job.mode = "abort list" => op <= 0
  /\ job.pc \in {"reset", "unmark", "rewind"} /\ job.mode = "abort list" =>
       confirmed.head = head /\ confirmed.start = list.start /\ confirmed.rewinds = Rewinds

(* Where nobody has disturbed the sequence: what Continue and Abort find. *)

RefOK(st) == ref = st.ref \/ (st.ref = "own" /\ ref = "renamed")
Rests(st) ==
  /\ list = NoList /\ RefOK(st)
  /\ \/ op = NoOp /\ index = "clean" /\ (head = st.expected \/ head = st.original \/ ByHand(st))
     \/ op = st.next /\ head = st.expected
     \/ Leftover(st) /\ index = "clean"

RestsInv ==
  ~disturbed =>
    /\ At("idle") /\ file # NoSequence => Rests(file)
    /\ job.pc \in Running /\ ~At("keep") => RefOK(job.st)
    /\ At("clear leftover") => Leftover(job.st) /\ index = "clean"
    /\ At("retry") \/ At("adopt") => op = NoOp /\ index = "clean"
    /\ At("finish") => op = job.st.next /\ index # "conflict"
    /\ At("step") => index = "clean" /\ (op = NoOp \/ op = job.st.next - 1)
    /\ At("hook") \/ At("commit") =>
         op = job.st.next /\ head = job.st.expected /\ job.parent = head
    /\ At("landed") => op = job.st.next /\ index = "clean"
    /\ At("keep") /\ job.st # NoSequence => Rests(job.st)
    /\ job.pc \in Aborting /\ job.mode = "abort" => Rests(file)
    /\ At("unmark") /\ job.mode = "abort" => index = "clean"
    /\ At("rewind") /\ job.mode = "abort" => op = NoOp
    /\ At("forget") /\ job.mode = "abort" =>
         op = NoOp /\ (head = job.st.original \/ ByHand(job.st))

Base == SeqTypeOK /\ Stored(file) /\ TipsOK /\ OpOK
StepsInv == Base /\ StepOK /\ AbortOK
SeqInv == StepsInv /\ RestsInv

(* A commit put on a branch. *)
LEMMA Ends ==
  ASSUME NEW c \in Tips, NEW n \in Entries
  PROVE  /\ Append(c, n) \in Tips /\ Append(c, n) # c
         /\ Ordered(c) /\ (n > 0 => Below(c, n)) => Ordered(Append(c, n))
         /\ \A m \in Int : Below(c, m) /\ n < m => Below(Append(c, n), m)
         /\ \A o \in Tips : OwnTail(c, o) /\ n \in 1..Steps => OwnTail(Append(c, n), o)
<1> DEFINE d == Append(c, n)
<1>1. /\ d \in Tips /\ Len(c) \in Nat /\ DOMAIN c = 1..Len(c) /\ Len(d) = Len(c) + 1
      /\ DOMAIN d = 1..(Len(c) + 1) /\ d[Len(c) + 1] = n /\ \A i \in 1..Len(c) : d[i] = c[i]
      /\ \A i \in 1..Len(c) : c[i] \in Entries
  BY DEF Tips
<1>0. Entries \subseteq Int /\ n \in Int
  BY StepsAssumption DEF Entries, Listed
<1>2. PICK k \in Nat : k = Len(c)
  BY <1>1
<1> HIDE DEF d
<1>3. d # c
  BY <1>1, <1>2
<1>4. Ordered(c) /\ (n > 0 => Below(c, n)) => Ordered(d)
  BY <1>0, <1>1, <1>2 DEF Ordered, Below
<1>5. \A m \in Int : Below(c, m) /\ n < m => Below(d, m)
  BY <1>0, <1>1, <1>2 DEF Below
<1>6. ASSUME NEW o \in Tips, OwnTail(c, o), n \in 1..Steps PROVE OwnTail(d, o)
  <2>1. Len(o) \in Nat /\ Len(o) <= k
    BY <1>2, <1>6 DEF Tips, OwnTail
  <2>2. \A i \in (Len(o) + 1)..(k + 1) : d[i] \in 1..Steps
    BY <1>1, <1>2, <1>6, <2>1 DEF OwnTail
  <2> QED BY <1>1, <1>2, <2>1, <2>2 DEF OwnTail
<1> QED BY <1>1, <1>3, <1>4, <1>5, <1>6 DEF d

(* How steps, commits of the user's and picks of a list are told apart. *)
LEMMA Numbers ==
  /\ ListOp \in ListOp..Steps /\ NoOp \in ListOp..Steps /\ 1..Steps \subseteq ListOp..Steps
  /\ Listed \in Entries /\ Own \in Entries /\ 1..Steps \subseteq Entries
  /\ ~(ListOp > 0) /\ ~(NoOp > 0) /\ ~(Listed > 0) /\ ~(Own > 0) /\ ListOp # NoOp
  /\ ListOp..Steps \subseteq Int /\ Entries \subseteq Int /\ 1..Steps \subseteq Nat
  /\ NoOp <= 0 /\ ListOp <= 0
  /\ \A n \in ListOp..Steps : (n <= 0 => ~(n > 0)) /\ (n \notin {NoOp, ListOp} => n \in 1..Steps)
BY StepsAssumption DEF ListOp, NoOp, Listed, Own, Entries

(* What is below a step is below every later one. *)
LEMMA Higher ==
  ASSUME NEW c \in Tips, NEW m \in Int, NEW n \in Int, m < n, Below(c, m)
  PROVE  Below(c, n)
<1> SUFFICES ASSUME NEW i \in DOMAIN c PROVE c[i] < n
  BY DEF Below
<1>1. c[i] \in Int
  <2>1. c[i] \in Entries
    BY DEF Tips
  <2> QED BY <2>1, Numbers
<1>2. c[i] < m
  BY DEF Below
<1> QED BY <1>1, <1>2

LEMMA Starting ==
  /\ << >> \in Tips /\ Ordered(<< >>)
  /\ NoSequence \in Sequence /\ NoSequence.next = 0 /\ Stored(NoSequence)
  /\ NoList \in [left : Nat, start : Tips, safety : Tips] /\ NoList.left = 0 /\ NoList.start = << >>
  /\ NoJob.pc = "idle" /\ NoJob.st = NoSequence /\ NoJob.parent = << >> /\ NoJob.mode = "none"
  /\ NoJob.resumed = FALSE /\ NoJob.cancelled = FALSE
  /\ NoJob = [pc |-> "idle", mode |-> "none", st |-> NoSequence, parent |-> << >>,
              resumed |-> FALSE, cancelled |-> FALSE]
<1>1. << >> \in Tips /\ Ordered(<< >>) /\ Below(<< >>, 0) /\ OwnTail(<< >>, << >>)
  BY DEF Tips, Ordered, Below, OwnTail
<1>2. NoSequence \in Sequence /\ NoSequence.next = 0 /\ NoSequence.expected = << >> /\ NoSequence.original = << >>
  BY <1>1 DEF NoSequence, Sequence, Refs
<1>3. Stored(NoSequence)
  BY <1>1, <1>2 DEF Stored
<1>4. NoList \in [left : Nat, start : Tips, safety : Tips] /\ NoList.left = 0 /\ NoList.start = << >>
  BY <1>1 DEF NoList
<1>5. /\ NoJob.pc = "idle" /\ NoJob.st = NoSequence /\ NoJob.parent = << >> /\ NoJob.mode = "none"
      /\ NoJob.resumed = FALSE /\ NoJob.cancelled = FALSE
      /\ NoJob = [pc |-> "idle", mode |-> "none", st |-> NoSequence, parent |-> << >>,
              resumed |-> FALSE, cancelled |-> FALSE]
  BY DEF NoJob
<1> QED BY <1>1, <1>2, <1>3, <1>4, <1>5

LEMMA NothingLeft == NoList.left # 1
BY DEF NoList

(* Between commands the invariant says only what the files hold. *)
LEMMA Idles ==
  ASSUME Base', At("idle")',
         ~disturbed' /\ file' # NoSequence => Rests(file)'
  PROVE  SeqInv'
<1>1. job'.pc = "idle"
  BY DEF At
<1>2. StepOK' /\ AbortOK'
  BY <1>1 DEF StepOK, AbortOK, At, Running, Aborting
<1>3. RestsInv'
  BY <1>1 DEF RestsInv, At, Running, Aborting
<1> QED BY <1>2, <1>3 DEF SeqInv, StepsInv, Base

LEMMA Facts ==
  ASSUME SeqInv
  PROVE  /\ Base /\ SeqTypeOK /\ Stored(file) /\ TipsOK /\ OpOK /\ StepOK /\ AbortOK
         /\ ~disturbed /\ At("idle") /\ file # NoSequence => Rests(file)
BY DEF SeqInv, StepsInv, Base, RestsInv

LEMMA ShowGoesOn == SeqInv /\ Show => SeqInv'
<1> SUFFICES ASSUME SeqInv, Show PROVE SeqInv'
  OBVIOUS
<1>1. At("idle") /\ UNCHANGED <<head, ref, away, op, list, index, file, job, disturbed>>
  BY DEF Show, git
<1>2. Base' /\ At("idle")'
  <2>1. SeqTypeOK'
    BY <1>1, Facts, Numbers DEF SeqTypeOK
  <2>2. Stored(file)' /\ At("idle")'
    BY <1>1, Facts DEF Stored, At
  <2>3. TipsOK'
    BY <1>1, Facts DEF TipsOK
  <2>4. OpOK'
    BY <1>1, Facts DEF OpOK
  <2> QED BY <2>1, <2>2, <2>3, <2>4 DEF Base
<1>3. ~disturbed' /\ file' # NoSequence => Rests(file)'
  BY <1>1, Facts DEF Rests, RefOK, Leftover, ByHand
<1> QED BY <1>2, <1>3, Idles

LEMMA ResolveGoesOn == SeqInv /\ Resolve => SeqInv'
<1> SUFFICES ASSUME SeqInv, Resolve PROVE SeqInv'
  OBVIOUS
<1>1. /\ At("idle") /\ index = "conflict" /\ index' \in {"staged", "clean"}
      /\ UNCHANGED <<head, ref, away, op, list, file, job, disturbed>>
  BY DEF Resolve
<1>2. Base' /\ At("idle")'
  <2>1. SeqTypeOK'
    BY <1>1, Facts, Numbers DEF SeqTypeOK
  <2>2. Stored(file)' /\ At("idle")'
    BY <1>1, Facts DEF Stored, At
  <2>3. TipsOK'
    BY <1>1, Facts DEF TipsOK
  <2>4. OpOK'
    BY <1>1, Facts DEF OpOK
  <2> QED BY <2>1, <2>2, <2>3, <2>4 DEF Base
<1>3. ~disturbed' /\ file' # NoSequence => Rests(file)'
  BY <1>1, Facts DEF Rests, RefOK, Leftover, ByHand
<1> QED BY <1>2, <1>3, Idles

LEMMA SkipByHandGoesOn == SeqInv /\ SkipByHand => SeqInv'
<1> SUFFICES ASSUME SeqInv, SkipByHand PROVE SeqInv'
  OBVIOUS
<1>1. /\ At("idle") /\ op # NoOp /\ op' = NoOp /\ index' = "clean"
      /\ UNCHANGED <<head, ref, away, list, file, job, disturbed>>
  BY DEF SkipByHand
<1>2. Base' /\ At("idle")'
  <2>1. SeqTypeOK'
    BY <1>1, Facts, Numbers DEF SeqTypeOK
  <2>2. Stored(file)' /\ At("idle")'
    BY <1>1, Facts DEF Stored, At
  <2>3. TipsOK'
    BY <1>1, Facts DEF TipsOK
  <2>4. OpOK'
    BY <1>1, Facts DEF OpOK, NoOp
  <2> QED BY <2>1, <2>2, <2>3, <2>4 DEF Base
<1>3. ~disturbed' /\ file' # NoSequence => Rests(file)'
  BY <1>1, Facts DEF Rests, RefOK, Leftover
<1> QED BY <1>2, <1>3, Idles

LEMMA SwitchGoesOn == SeqInv /\ Switch => SeqInv'
<1> SUFFICES ASSUME SeqInv, Switch PROVE SeqInv'
  OBVIOUS
<1>1. /\ At("idle") /\ op = NoOp /\ index = "clean" /\ disturbed' = TRUE
      /\ away' = head /\ head' \in {away, head} /\ ref' \in {"own", "other"}
      /\ UNCHANGED <<op, list, index, file, job>>
  BY DEF Switch
<1>2. Base' /\ At("idle")'
  <2>1. SeqTypeOK'
    BY <1>1, Facts DEF SeqTypeOK, Refs, NoOp, ListOp
  <2>2. Stored(file)' /\ At("idle")'
    BY <1>1, Facts DEF Stored, At
  <2>3. TipsOK'
    BY <1>1, Facts DEF TipsOK
  <2>4. OpOK'
    BY <1>1, Facts DEF OpOK, NoOp
  <2> QED BY <2>1, <2>2, <2>3, <2>4 DEF Base
<1> QED BY <1>1, <1>2, Idles

LEMMA RenameGoesOn == SeqInv /\ Rename => SeqInv'
<1> SUFFICES ASSUME SeqInv, Rename PROVE SeqInv'
  OBVIOUS
<1>1. /\ At("idle") /\ ref = "own" /\ ref' = "renamed"
      /\ UNCHANGED <<head, away, op, list, index, file, job, disturbed>>
  BY DEF Rename
<1>2. Base' /\ At("idle")'
  <2>1. SeqTypeOK'
    BY <1>1, Facts DEF SeqTypeOK, Refs, ListOp
  <2>2. Stored(file)' /\ At("idle")'
    BY <1>1, Facts DEF Stored, At
  <2>3. TipsOK'
    BY <1>1, Facts DEF TipsOK
  <2>4. OpOK'
    BY <1>1, Facts DEF OpOK
  <2> QED BY <2>1, <2>2, <2>3, <2>4 DEF Base
<1>3. ~disturbed' /\ file' # NoSequence => Rests(file)'
  BY <1>1, Facts DEF Rests, RefOK, Leftover, ByHand
<1> QED BY <1>2, <1>3, Idles

LEMMA ListStartGoesOn == SeqInv /\ ListStart => SeqInv'
<1> SUFFICES ASSUME SeqInv, ListStart PROVE SeqInv'
  OBVIOUS
<1>1. /\ At("idle") /\ disturbed' = TRUE /\ op' = ListOp /\ index' = "conflict"
      /\ list' = [left |-> 2, start |-> head, safety |-> head]
      /\ UNCHANGED <<head, ref, away, file, job>>
  BY DEF ListStart
<1>2. Base' /\ At("idle")'
  <2>1. SeqTypeOK'
    BY <1>1, Facts, Numbers DEF SeqTypeOK
  <2>2. Stored(file)' /\ At("idle")'
    BY <1>1, Facts DEF Stored, At
  <2>3. TipsOK'
    BY <1>1, Facts DEF TipsOK
  <2>4. OpOK'
    BY <1>1, Facts DEF OpOK, ListOp
  <2> QED BY <2>1, <2>2, <2>3, <2>4 DEF Base
<1> QED BY <1>1, <1>2, Idles

LEMMA ListContinueGoesOn == SeqInv /\ ListContinue => SeqInv'
<1> SUFFICES ASSUME SeqInv, ListContinue PROVE SeqInv'
  OBVIOUS
<1>1. /\ At("idle") /\ op = ListOp /\ list.left = 2 /\ head' = Append(head, Listed)
      /\ list' = [list EXCEPT !.left = 1, !.safety = Append(head, Listed)] /\ index' = "conflict"
      /\ UNCHANGED <<ref, away, op, file, job, disturbed>>
  BY DEF ListContinue
<1>2. head' \in Tips /\ Ordered(head')
  <2>1. Listed \in Entries /\ ~(Listed > 0)
    BY StepsAssumption DEF Entries, Listed
  <2>2. head \in Tips /\ Ordered(head)
    BY Facts DEF SeqTypeOK, TipsOK
  <2> QED BY <1>1, <2>1, <2>2, Ends
<1>3. list' \in [left : Nat, start : Tips, safety : Tips] /\ list'.start = list.start
  BY <1>1, <1>2, Facts DEF SeqTypeOK
<1>4. Base' /\ At("idle")'
  <2>1. SeqTypeOK'
    BY <1>1, <1>2, <1>3, Facts DEF SeqTypeOK
  <2>2. Stored(file)' /\ At("idle")'
    BY <1>1, <1>2, <1>3, Facts DEF Stored, At
  <2>3. TipsOK'
    BY <1>1, <1>2, <1>3, Facts DEF TipsOK
  <2>4. OpOK'
    BY <1>1, <1>2, <1>3, Facts DEF OpOK, ListOp
  <2> QED BY <2>1, <2>2, <2>3, <2>4 DEF Base
<1>5. list.left # 0
  BY <1>1
<1>6. ~disturbed' /\ file' # NoSequence => Rests(file)'
  BY <1>1, <1>5, Facts, Starting DEF Rests
<1> QED BY <1>4, <1>6, Idles

-----------------------------------------------------------------------------
(* A command of a sequence begins *)

(* What has to be shown where a command goes on to each of its steps. *)
LEMMA AtStep ==
  ASSUME Base', At("step")', list' = NoList,
         job'.st.next \in 1..(Steps + 1), Ordered(job'.st.original),
         Below(head', job'.st.next), OwnTail(head', job'.st.original),
         ~disturbed' => RefOK(job.st)' /\ index' = "clean" /\ (op' = NoOp \/ op' = job'.st.next - 1)
  PROVE  SeqInv'
<1>1. job'.pc = "step"
  BY DEF At
<1>2. StepOK' /\ AbortOK'
  BY <1>1 DEF StepOK, AbortOK, At, Running, Aborting
<1>3. RestsInv'
  BY <1>1 DEF RestsInv, At, Running, Aborting
<1> QED BY <1>2, <1>3 DEF SeqInv, StepsInv

LEMMA AtKeep ==
  ASSUME Base', At("keep")', list' = NoList, Stored(job.st)',
         ~disturbed' /\ job'.st # NoSequence => Rests(job.st)'
  PROVE  SeqInv'
<1>1. job'.pc = "keep"
  BY DEF At
<1>2. StepOK' /\ AbortOK'
  BY <1>1 DEF StepOK, AbortOK, At, Running, Aborting
<1>3. RestsInv'
  BY <1>1 DEF RestsInv, At, Running, Aborting
<1> QED BY <1>2, <1>3 DEF SeqInv, StepsInv

LEMMA AtResume ==
  ASSUME Base', list' = NoList, Stored(job.st)', job'.st.next \in 1..Steps,
         \/ At("clear leftover")' /\ head' = job'.st.expected /\ (~disturbed' => Leftover(job.st)' /\ index' = "clean")
         \/ At("retry")' /\ head' = job'.st.expected /\ (~disturbed' => op' = NoOp /\ index' = "clean")
         \/ At("finish")' /\ head' = job'.st.expected /\ (~disturbed' => op' = job'.st.next /\ index' # "conflict")
         \/ At("adopt")' /\ head' = Append(job'.st.expected, job'.st.next) /\ (~disturbed' => op' = NoOp /\ index' = "clean"),
         ~disturbed' => RefOK(job.st)'
  PROVE  SeqInv'
<1>1. job'.pc \in {"clear leftover", "retry", "finish", "adopt"}
  BY DEF At
<1>2. StepOK' /\ AbortOK'
  BY <1>1 DEF StepOK, AbortOK, At, Running, Aborting
<1>3. RestsInv'
  BY <1>1 DEF RestsInv, At, Running, Aborting
<1> QED BY <1>2, <1>3 DEF SeqInv, StepsInv

LEMMA AtHookOrCommit ==
  ASSUME Base', At("hook")' \/ At("commit")', list' = NoList, Stored(job.st)',
         job'.st.next \in 1..Steps, Below(job'.parent, job'.st.next),
         OwnTail(job'.parent, job'.st.original),
         ~disturbed' => RefOK(job.st)' /\ op' = job'.st.next /\ head' = job'.st.expected
                        /\ job'.parent = head'
  PROVE  SeqInv'
<1>1. job'.pc \in {"hook", "commit"}
  BY DEF At
<1>2. StepOK' /\ AbortOK'
  BY <1>1 DEF StepOK, AbortOK, At, Running, Aborting
<1>3. RestsInv'
  BY <1>1 DEF RestsInv, At, Running, Aborting
<1> QED BY <1>2, <1>3 DEF SeqInv, StepsInv

LEMMA StartGoesOn == SeqInv /\ Start => SeqInv'
<1> SUFFICES ASSUME SeqInv, Start PROVE SeqInv'
  OBVIOUS
<1> DEFINE st == [next |-> 1, expected |-> head, original |-> head, ref |-> ref, conflict |-> FALSE]
<1>1. /\ op = NoOp /\ list = NoList /\ index = "clean"
      /\ \A i \in 1..Len(head) : head[i] \notin 1..Steps
      /\ job' = [NoJob EXCEPT !.pc = "step", !.mode = "run", !.st = st]
      /\ UNCHANGED <<head, ref, away, op, list, index, file, confirmed>>
      /\ disturbed' = FALSE
  BY DEF Start, Ready, git
<1>2. /\ st \in Sequence /\ st.next = 1 /\ st.original = head /\ st.ref = ref
  BY StepsAssumption, Facts DEF Sequence, SeqTypeOK
<1> HIDE DEF st
<1>3. job' = [pc |-> "step", mode |-> "run", st |-> st, parent |-> << >>, resumed |-> FALSE,
              cancelled |-> FALSE]
  BY <1>1, Starting
<1>4. Base'
  <2>1. SeqTypeOK'
    BY <1>1, <1>2, <1>3, Facts, Starting DEF SeqTypeOK, SeqJobs, Running
  <2>2. Stored(file)'
    BY <1>1, Facts DEF Stored
  <2>3. TipsOK' /\ OpOK'
    BY <1>1, Facts DEF TipsOK, OpOK
  <2> QED BY <2>1, <2>2, <2>3 DEF Base
<1>5. Ordered(head) /\ Below(head, 1) /\ OwnTail(head, head)
  <2>1. head \in Tips /\ Ordered(head)
    BY Facts DEF TipsOK, SeqTypeOK
  <2>2. \A i \in 1..Len(head) : head[i] < 1
    BY <1>1, <2>1, StepsAssumption DEF Tips, Entries, Listed
  <2> QED BY <2>1, <2>2 DEF Below, OwnTail, Tips
<1>6. /\ job'.pc = "step" /\ job'.st = st
      /\ st.next \in 1..(Steps + 1) /\ (op' = NoOp /\ index' = "clean" /\ list' = NoList)
      /\ Ordered(st.original) /\ Below(head', st.next) /\ OwnTail(head', st.original)
  BY <1>1, <1>2, <1>3, <1>5, StepsAssumption
<1>7. RefOK(job.st)'
  BY <1>1, <1>2, <1>6 DEF RefOK
<1> QED BY <1>4, <1>6, <1>7, AtStep DEF At

(* What Continue finds, for each way it goes on. *)
LEMMA Resumes ==
  ASSUME NEW st \in Sequence, Resume(st) # "refuse"
  PROVE  /\ list = NoList
         /\ \/ Resume(st) = "clear leftover" /\ Leftover(st)
            \/ Resume(st) = "finish" /\ OwnPaused(st) /\ index # "conflict" /\ head = st.expected
            \/ Resume(st) = "retry" /\ op = NoOp /\ index = "clean" /\ head = st.expected
            \/ Resume(st) = "adopt" /\ op = NoOp /\ index = "clean" /\ ByHand(st)
<1>1. ~(OwnPaused(st) /\ Leftover(st)) /\ ~(op = NoOp /\ (OwnPaused(st) \/ Leftover(st)))
  BY DEF OwnPaused, Leftover, Sequence
<1> QED BY <1>1 DEF Resume, Ready

LEMMA Leftovers ==
  ASSUME NEW st, Leftover(st)
  PROVE  op = st.next - 1 /\ op # NoOp /\ head = st.expected /\ ~st.conflict
BY DEF Leftover

LEMMA ContinueGoesOn == SeqInv /\ Continue => SeqInv'
<1> SUFFICES ASSUME SeqInv, Continue PROVE SeqInv'
  OBVIOUS
<1>1. /\ At("idle") /\ file # NoSequence /\ Resume(file) # "refuse"
      /\ job' = [NoJob EXCEPT !.pc = Resume(file), !.mode = "run", !.st = file]
      /\ UNCHANGED <<head, ref, away, op, list, index, file, confirmed, disturbed>>
  BY DEF Continue, git
<1>2. job' = [pc |-> Resume(file), mode |-> "run", st |-> file, parent |-> << >>,
              resumed |-> FALSE, cancelled |-> FALSE]
  BY <1>1, Starting
<1>3. job'.pc = Resume(file) /\ job'.st = file
  BY <1>2
<1>4. Base'
  <2>1. SeqTypeOK'
    <3>1. Resume(file) \in Running
      BY <1>1, Facts, Resumes DEF Running, SeqTypeOK
    <3> QED BY <1>1, <1>2, <3>1, Facts, Starting DEF SeqTypeOK, SeqJobs
  <2>2. Stored(file)'
    BY <1>1, Facts DEF Stored
  <2>3. TipsOK' /\ OpOK'
    BY <1>1, Facts DEF TipsOK, OpOK
  <2> QED BY <2>1, <2>2, <2>3 DEF Base
<1>5. Stored(job.st)' /\ file.next \in 1..Steps
  BY <1>1, <1>3, Facts DEF Stored
<1>6. ~disturbed => Rests(file)
  BY <1>1, Facts
<1>7. ~disturbed' => RefOK(job.st)'
  BY <1>1, <1>3, <1>6 DEF Rests, RefOK
<1>8. \/ At("clear leftover")' /\ Leftover(file)
      \/ At("retry")' /\ head = file.expected /\ op = NoOp /\ index = "clean"
      \/ At("finish")' /\ head = file.expected /\ op = file.next /\ index # "conflict"
      \/ At("adopt")' /\ ByHand(file) /\ op = NoOp /\ index = "clean"
  BY <1>1, <1>3, Facts, Resumes DEF At, OwnPaused, SeqTypeOK
<1>9. Leftover(file) /\ ~disturbed => index = "clean" /\ Leftover(job.st)'
  <2>1. SUFFICES ASSUME Leftover(file), ~disturbed PROVE index = "clean" /\ Leftover(job.st)'
    OBVIOUS
  <2>2. op = file.next - 1 /\ op # NoOp
    BY <2>1, Leftovers
  <2>3. op # file.next
    BY <2>2, <1>5
  <2> QED BY <1>1, <1>3, <1>6, <2>1, <2>2, <2>3 DEF Rests, Leftover
<1>10. list' = NoList
  BY <1>1, Facts, Resumes DEF SeqTypeOK
<1> QED BY <1>1, <1>3, <1>4, <1>5, <1>7, <1>8, <1>9, <1>10, AtResume, Leftovers DEF ByHand

LEMMA AtAbort ==
  ASSUME Base', job'.pc \in Aborting, job'.mode \in {"abort", "abort step", "abort list"},
         At("rewind")' \/ At("forget")' => job'.mode # "abort step",
         IF job'.mode = "abort" THEN job'.st = file' /\ file' # NoSequence
         ELSE file' = NoSequence,
         job'.mode = "abort list" => op' <= 0,
         job'.pc # "forget" /\ job'.mode = "abort list" =>
           confirmed'.head = head' /\ confirmed'.start = list'.start /\ confirmed'.rewinds = Rewinds',
         ~disturbed' /\ job'.mode = "abort" =>
           /\ Rests(file)'
           /\ At("unmark")' => index' = "clean"
           /\ At("rewind")' => op' = NoOp
           /\ At("forget")' => op' = NoOp /\ (head' = job'.st.original \/ ByHand(job.st)')
  PROVE  SeqInv'
<1>1. job'.pc \in {"reset", "unmark", "rewind", "forget"}
  BY DEF Aborting
<1>2. StepOK' /\ AbortOK'
  BY <1>1 DEF StepOK, AbortOK, At, Running, Aborting
<1>3. RestsInv'
  BY <1>1 DEF RestsInv, At, Running, Aborting
<1> QED BY <1>2, <1>3 DEF SeqInv, StepsInv

LEMMA Aborts ==
  ASSUME SeqInv, NEW pc \in Aborting, NEW mode \in {"abort", "abort step", "abort list"},
         NEW st \in Sequence, job' = [NoJob EXCEPT !.pc = pc, !.mode = mode, !.st = st],
         UNCHANGED <<head, ref, away, op, list, index, file, disturbed>>
  PROVE  /\ Base' /\ job'.pc = pc /\ job'.mode = mode /\ job'.st = st
         /\ ~disturbed' /\ Rests(file) => Rests(file)'
<1>1. job' = [pc |-> pc, mode |-> mode, st |-> st, parent |-> << >>,
              resumed |-> FALSE, cancelled |-> FALSE]
  BY Starting
<1>2. SeqTypeOK'
  BY <1>1, Facts, Starting DEF SeqTypeOK, SeqJobs
<1>3. Stored(file)'
  BY <1>1, Facts DEF Stored
<1>4. TipsOK' /\ OpOK'
  BY <1>1, Facts DEF TipsOK, OpOK
<1>5. Rests(file) => Rests(file)'
  BY DEF Rests, RefOK, Leftover, ByHand
<1> QED BY <1>1, <1>2, <1>3, <1>4, <1>5 DEF Base

LEMMA AbortSequenceGoesOn == SeqInv /\ AbortSequence => SeqInv'
<1> SUFFICES ASSUME SeqInv, AbortSequence PROVE SeqInv'
  OBVIOUS
<1> DEFINE pc == FirstOfAbort(file)
<1>1. /\ At("idle") /\ file # NoSequence
      /\ job' = [NoJob EXCEPT !.pc = pc, !.mode = "abort", !.st = file]
      /\ UNCHANGED <<head, ref, away, op, list, index, file, confirmed, disturbed>>
  BY DEF AbortSequence, git
<1>2. /\ pc \in {"reset", "unmark", "rewind"}
      /\ pc = "unmark" => Leftover(file)
      /\ pc = "rewind" => ~OwnPaused(file) /\ ~Leftover(file)
  BY DEF FirstOfAbort
<1> HIDE DEF pc
<1>3. /\ Base' /\ job'.pc = pc /\ job'.mode = "abort" /\ job'.st = file
      /\ ~disturbed' /\ Rests(file) => Rests(file)'
  <2>1. pc \in Aborting /\ file \in Sequence
    BY <1>2, Facts DEF Aborting, SeqTypeOK
  <2> QED BY <1>1, <2>1, Aborts
<1>4. ~disturbed => Rests(file)
  BY <1>1, Facts
<1>5. ~disturbed /\ pc = "unmark" => index = "clean"
  <2>1. SUFFICES ASSUME ~disturbed, pc = "unmark" PROVE index = "clean"
    OBVIOUS
  <2>2. op = file.next - 1 /\ file.next \in 1..Steps
    BY <1>1, <1>2, <2>1, Leftovers, Facts DEF Stored
  <2>3. op # file.next
    BY <2>2
  <2> QED BY <1>4, <2>1, <2>3 DEF Rests
<1>6. ~disturbed /\ pc = "rewind" => op = NoOp
  BY <1>2, <1>4 DEF Rests, OwnPaused, NoOp
<1> QED BY <1>1, <1>2, <1>3, <1>4, <1>5, <1>6, AtAbort DEF Aborting, At

LEMMA AbortMergeGoesOn == SeqInv /\ AbortMerge => SeqInv'
<1> SUFFICES ASSUME SeqInv, AbortMerge PROVE SeqInv'
  OBVIOUS
<1>1. /\ file = NoSequence /\ job' = [NoJob EXCEPT !.pc = "reset", !.mode = "abort step"]
      /\ UNCHANGED <<head, ref, away, op, list, index, file, confirmed, disturbed>>
  BY DEF AbortMerge, git
<1>2. job' = [NoJob EXCEPT !.pc = "reset", !.mode = "abort step", !.st = NoSequence]
  BY <1>1, Starting
<1>3. Base' /\ job'.pc = "reset" /\ job'.mode = "abort step"
  <2>1. /\ "reset" \in Aborting /\ NoSequence \in Sequence
        /\ "abort step" \in {"abort", "abort step", "abort list"}
    BY Starting DEF Aborting
  <2> QED BY <1>1, <1>2, <2>1, Aborts
<1> QED BY <1>1, <1>3, AtAbort DEF Aborting, At

LEMMA AbortTerminalGoesOn == SeqInv /\ AbortTerminal => SeqInv'
<1> SUFFICES ASSUME SeqInv, AbortTerminal PROVE SeqInv'
  OBVIOUS
<1> DEFINE pc == IF op # NoOp \/ index = "conflict" THEN "reset" ELSE "rewind"
<1>1. /\ file = NoSequence /\ op \in {NoOp, ListOp} /\ confirmed = Shown
      /\ job' = [NoJob EXCEPT !.mode = "abort list", !.pc = pc]
      /\ UNCHANGED <<head, ref, away, op, list, index, file, confirmed, disturbed>>
  BY DEF AbortTerminal, git, StillConfirmed
<1>2. pc \in Aborting
  BY DEF Aborting
<1> HIDE DEF pc
<1>3. job' = [NoJob EXCEPT !.pc = pc, !.mode = "abort list", !.st = NoSequence]
  BY <1>1, Starting
<1>4. Base' /\ job'.pc = pc /\ job'.mode = "abort list"
  <2>1. NoSequence \in Sequence /\ "abort list" \in {"abort", "abort step", "abort list"}
    BY Starting
  <2> QED BY <1>1, <1>2, <1>3, <2>1, Aborts
<1>5. op' <= 0
  BY <1>1 DEF NoOp, ListOp
<1>6. confirmed'.head = head' /\ confirmed'.start = list'.start /\ confirmed'.rewinds = Rewinds'
  BY <1>1 DEF Shown, Rewinds
<1> QED BY <1>1, <1>2, <1>4, <1>5, <1>6, AtAbort

-----------------------------------------------------------------------------
(* Running the steps *)

Storable(st) ==
  /\ st \in Sequence /\ st.next \in 1..Steps /\ Ordered(st.original)
  /\ Below(st.expected, st.next) /\ OwnTail(st.expected, st.original)

(* A step of a running sequence, which no list stands beside. *)
LEMMA StepBase ==
  ASSUME SeqInv, list' = NoList, job' \in SeqJobs, head' \in Tips, Ordered(head'),
         UNCHANGED <<ref, away, file>>, disturbed' \in BOOLEAN,
         index' \in {"clean", "staged", "conflict"}, op' \in ListOp..Steps,
         op' > 0 /\ index' # "clean" => Below(head', op')
  PROVE  Base'
<1>1. SeqTypeOK'
  BY Facts, Starting DEF SeqTypeOK
<1>2. Stored(file)'
  BY Facts DEF Stored
<1>3. TipsOK'
  BY Facts, Starting DEF TipsOK
<1>4. OpOK'
  BY DEF OpOK
<1> QED BY <1>1, <1>2, <1>3, <1>4 DEF Base

LEMMA Cleared ==
  ASSUME list = NoList, ClearState
  PROVE  op' = NoOp /\ list' = NoList
BY DEF ClearState

LEMMA WentWith ==
  ASSUME SeqInv, NEW pc \in Running, NEW st \in Sequence, GotoWith(pc, st)
  PROVE  /\ job' \in SeqJobs /\ job'.pc = pc /\ job'.st = st /\ job'.parent = job.parent
         /\ job'.resumed = job.resumed /\ job'.cancelled = job.cancelled
<1>1. job \in SeqJobs
  BY Facts DEF SeqTypeOK
<1> QED BY <1>1 DEF GotoWith, SeqJobs

LEMMA WentOn ==
  ASSUME SeqInv, NEW pc \in Running \cup Aborting, Goto(pc)
  PROVE  /\ job' \in SeqJobs /\ job'.pc = pc /\ job'.st = job.st /\ job'.parent = job.parent
         /\ job'.mode = job.mode
<1>1. job \in SeqJobs
  BY Facts DEF SeqTypeOK
<1> QED BY <1>1 DEF Goto, SeqJobs

LEMMA ClearLeftoverGoesOn == SeqInv /\ ClearLeftover => SeqInv'
<1> SUFFICES ASSUME SeqInv, ClearLeftover PROVE SeqInv'
  OBVIOUS
<1>1. /\ job.pc = "clear leftover"
      /\ UNCHANGED <<head, ref, away, index, file, confirmed, disturbed>>
      /\ \/ ClearState /\ Goto("retry")
         \/ UNCHANGED <<op, list>> /\ GotoWith("keep", job.st)
  BY DEF ClearLeftover, At, StateStays
<1>2. /\ list = NoList /\ Stored(job.st) /\ job.st.next \in 1..Steps /\ head = job.st.expected
      /\ job.st \in Sequence
  BY <1>1, Facts DEF StepOK, At, Running, SeqTypeOK, SeqJobs
<1>3. ~disturbed => RefOK(job.st) /\ Leftover(job.st) /\ index = "clean"
  BY <1>1 DEF SeqInv, RestsInv, At, Running
<1>4. CASE ClearState /\ Goto("retry")
  <2>1. op' = NoOp /\ list' = NoList
    BY <1>2, <1>4, Cleared
  <2>2. job' \in SeqJobs /\ job'.pc = "retry" /\ job'.st = job.st
    BY <1>4, WentOn DEF Running
  <2>3. Base'
    BY <1>1, <2>1, <2>2, Facts, Numbers, StepBase DEF SeqTypeOK, TipsOK
  <2>4. Stored(job.st)' /\ (~disturbed' => RefOK(job.st)')
    BY <1>1, <1>2, <1>3, <2>2 DEF Stored, RefOK
  <2> QED BY <1>1, <1>2, <1>3, <2>1, <2>2, <2>3, <2>4, AtResume DEF At
<1>5. CASE UNCHANGED <<op, list>> /\ GotoWith("keep", job.st)
  <2>1. job' \in SeqJobs /\ job'.pc = "keep" /\ job'.st = job.st
    BY <1>2, <1>5, WentWith DEF Running
  <2>2. Base'
    BY <1>1, <1>2, <1>5, <2>1, Facts, StepBase DEF SeqTypeOK, TipsOK, OpOK
  <2>3. Stored(job.st)' /\ (~disturbed' => Rests(job.st)')
    BY <1>1, <1>2, <1>3, <1>5, <2>1 DEF Stored, Rests, RefOK, Leftover
  <2> QED BY <1>2, <1>5, <2>1, <2>2, <2>3, AtKeep DEF At
<1> QED BY <1>1, <1>4, <1>5

LEMMA Skipped ==
  ASSUME SeqInv, NEW st \in Sequence, Skip(st)
  PROVE  /\ job' \in SeqJobs /\ job'.pc = "step" /\ job'.st.next = st.next + 1
         /\ job'.st.original = st.original /\ job'.st.ref = st.ref
<1> DEFINE after == [st EXCEPT !.next = @ + 1]
<1>1. /\ after \in Sequence /\ after.next = st.next + 1 /\ after.original = st.original
      /\ after.ref = st.ref
  BY DEF Sequence
<1>2. GotoWith("step", after)
  BY DEF Skip
<1> HIDE DEF after
<1> QED BY <1>1, <1>2, WentWith DEF Running

LEMMA ResumeCleanGoesOn == SeqInv /\ ResumeClean => SeqInv'
<1> SUFFICES ASSUME SeqInv, ResumeClean PROVE SeqInv'
  OBVIOUS
<1>1. /\ job.pc \in {"retry", "adopt"}
      /\ UNCHANGED <<head, ref, away, op, list, index, file, confirmed, disturbed>>
      /\ \/ ~Ready /\ GotoWith("keep", job.st)
         \/ job.pc = "retry" /\ Goto("step")
         \/ job.pc = "adopt" /\ Skip(job.st)
  BY DEF ResumeClean, At, git
<1>2. /\ list = NoList /\ Stored(job.st) /\ job.st.next \in 1..Steps /\ job.st \in Sequence
      /\ job.pc = "retry" => head = job.st.expected
      /\ job.pc = "adopt" => head = Append(job.st.expected, job.st.next)
  BY <1>1, Facts DEF StepOK, At, Running, SeqTypeOK, SeqJobs
<1>3. ~disturbed => RefOK(job.st) /\ op = NoOp /\ index = "clean"
  BY <1>1 DEF SeqInv, RestsInv, At, Running
<1>4. job' \in SeqJobs => Base'
  BY <1>1, <1>2, Facts, StepBase DEF SeqTypeOK, TipsOK, OpOK
<1>5. CASE ~Ready /\ GotoWith("keep", job.st)
  <2>1. job' \in SeqJobs /\ job'.pc = "keep" /\ job'.st = job.st
    BY <1>2, <1>5, WentWith DEF Running
  <2>2. Stored(job.st)' /\ disturbed'
    BY <1>1, <1>2, <1>3, <1>5, <2>1 DEF Stored, Ready
  <2> QED BY <1>1, <1>2, <1>4, <2>1, <2>2, AtKeep DEF At
<1>6. CASE job.pc = "retry" /\ Goto("step")
  <2>1. job' \in SeqJobs /\ job'.pc = "step" /\ job'.st = job.st
    BY <1>6, WentOn DEF Running
  <2>2. job'.st.next \in 1..(Steps + 1)
    BY <1>2, <2>1, StepsAssumption
  <2>3. /\ Ordered(job'.st.original) /\ Below(head', job'.st.next) /\ OwnTail(head', job'.st.original)
        /\ ~disturbed' => RefOK(job.st)'
    BY <1>1, <1>2, <1>3, <1>6, <2>1 DEF Stored, RefOK
  <2> QED BY <1>1, <1>2, <1>3, <1>4, <2>1, <2>2, <2>3, AtStep DEF At
<1>7. CASE job.pc = "adopt" /\ Skip(job.st)
  <2>1. /\ job' \in SeqJobs /\ job'.pc = "step" /\ job'.st.next = job.st.next + 1
        /\ job'.st.original = job.st.original /\ job'.st.ref = job.st.ref
    BY <1>2, <1>7, Skipped
  <2>2. job'.st.next \in 1..(Steps + 1) /\ job.st.next < job'.st.next /\ job'.st.next \in Int
    BY <1>2, <2>1, StepsAssumption
  <2>3. job.st.expected \in Tips /\ job.st.original \in Tips /\ job.st.next \in Entries
    BY <1>2, Numbers DEF Sequence
  <2>4. Below(job.st.expected, job.st.next) /\ OwnTail(job.st.expected, job.st.original)
    BY <1>2 DEF Stored
  <2>5. Below(job.st.expected, job'.st.next)
    BY <1>2, <2>2, <2>3, <2>4, Numbers, Higher
  <2>6. Below(head', job'.st.next) /\ OwnTail(head', job'.st.original) /\ Ordered(job'.st.original)
    BY <1>1, <1>2, <1>7, <2>1, <2>2, <2>3, <2>4, <2>5, Ends DEF Stored
  <2>7. ~disturbed' => RefOK(job.st)'
    BY <1>1, <1>3, <2>1 DEF RefOK
  <2> QED BY <1>1, <1>2, <1>3, <1>4, <2>1, <2>2, <2>6, <2>7, AtStep DEF At
<1> QED BY <1>1, <1>5, <1>6, <1>7

LEMMA FinishPausedGoesOn == SeqInv /\ FinishPaused => SeqInv'
<1> SUFFICES ASSUME SeqInv, FinishPaused PROVE SeqInv'
  OBVIOUS
<1>1. /\ job.pc = "finish" /\ UNCHANGED <<head, ref, away, index, file, confirmed, disturbed>>
      /\ \/ /\ index = "staged" /\ UNCHANGED <<op, list>>
            /\ job' = [job EXCEPT !.pc = "hook", !.parent = head, !.resumed = TRUE]
         \/ index = "clean" /\ ClearState /\ Skip(job.st)
         \/ index = "clean" /\ UNCHANGED <<op, list>> /\ GotoWith("keep", job.st)
  BY DEF FinishPaused, At, StateStays
<1>2. /\ list = NoList /\ Stored(job.st) /\ job.st.next \in 1..Steps /\ job.st \in Sequence
      /\ head = job.st.expected
  BY <1>1, Facts DEF StepOK, At, Running, SeqTypeOK, SeqJobs
<1>3. ~disturbed => RefOK(job.st) /\ op = job.st.next
  BY <1>1 DEF SeqInv, RestsInv, At, Running
<1>4. job' \in SeqJobs /\ UNCHANGED <<op, list>> => Base'
  BY <1>1, <1>2, Facts, StepBase DEF SeqTypeOK, TipsOK, OpOK
<1>5. CASE /\ index = "staged" /\ UNCHANGED <<op, list>>
           /\ job' = [job EXCEPT !.pc = "hook", !.parent = head, !.resumed = TRUE]
  <2>1. job' \in SeqJobs /\ job'.pc = "hook" /\ job'.st = job.st /\ job'.parent = head
    <3>1. job \in SeqJobs /\ head \in Tips
      BY Facts DEF SeqTypeOK
    <3> QED BY <1>5, <3>1 DEF SeqJobs, Running
  <2>2. Stored(job.st)' /\ (~disturbed' => RefOK(job.st)')
    BY <1>1, <1>2, <1>3, <2>1 DEF Stored, RefOK
  <2>3. Below(head, job.st.next) /\ OwnTail(head, job.st.original)
    BY <1>2 DEF Stored
  <2> QED BY <1>1, <1>2, <1>3, <1>4, <1>5, <2>1, <2>2, <2>3, AtHookOrCommit DEF At
<1>6. CASE index = "clean" /\ ClearState /\ Skip(job.st)
  <2>1. op' = NoOp /\ list' = NoList
    BY <1>2, <1>6, Cleared
  <2>2. /\ job' \in SeqJobs /\ job'.pc = "step" /\ job'.st.next = job.st.next + 1
        /\ job'.st.original = job.st.original /\ job'.st.ref = job.st.ref
    BY <1>2, <1>6, Skipped
  <2>3. Base'
    BY <1>1, <2>1, <2>2, Facts, Numbers, StepBase DEF SeqTypeOK, TipsOK
  <2>4. job'.st.next \in 1..(Steps + 1) /\ job.st.next < job'.st.next /\ job'.st.next \in Int
    BY <1>2, <2>2, StepsAssumption
  <2>5. Below(head', job'.st.next) /\ OwnTail(head', job'.st.original) /\ Ordered(job'.st.original)
    <3>1. Below(head, job.st.next) /\ OwnTail(head, job.st.original) /\ Ordered(job.st.original)
      BY <1>2 DEF Stored
    <3>2. head \in Tips
      BY Facts DEF SeqTypeOK
    <3>3. Below(head, job'.st.next)
      BY <1>2, <2>4, <3>1, <3>2, Numbers, Higher
    <3> QED BY <1>1, <2>2, <3>1, <3>3
  <2>6. ~disturbed' => RefOK(job.st)'
    BY <1>1, <1>3, <2>2 DEF RefOK
  <2> QED BY <1>1, <1>6, <2>1, <2>2, <2>3, <2>4, <2>5, <2>6, AtStep DEF At
<1>7. CASE index = "clean" /\ UNCHANGED <<op, list>> /\ GotoWith("keep", job.st)
  <2>1. job' \in SeqJobs /\ job'.pc = "keep" /\ job'.st = job.st
    BY <1>2, <1>7, WentWith DEF Running
  <2>2. Stored(job.st)' /\ (~disturbed' => Rests(job.st)')
    BY <1>1, <1>2, <1>3, <1>7, <2>1 DEF Stored, Rests, RefOK
  <2> QED BY <1>2, <1>4, <1>7, <2>1, <2>2, AtKeep DEF At
<1> QED BY <1>1, <1>5, <1>6, <1>7

(* A step that stops: what is stored is where it stopped. *)
LEMMA AtStop ==
  ASSUME SeqInv, NEW st, Storable(st), Stopped(st) \/ Paused(st)
  PROVE  /\ job' \in SeqJobs /\ job'.pc = "keep" /\ Stored(job'.st)
         /\ job'.st # NoSequence =>
              /\ job'.st.next = st.next /\ job'.st.expected = st.expected
              /\ job'.st.original = st.original /\ job'.st.ref = st.ref
<1> DEFINE stop == [st EXCEPT !.conflict = FALSE]
           pause == [st EXCEPT !.conflict = TRUE]
<1>1. /\ stop \in Sequence /\ stop.next = st.next /\ stop.expected = st.expected
      /\ stop.original = st.original /\ stop.ref = st.ref
      /\ pause \in Sequence /\ pause.next = st.next /\ pause.expected = st.expected
      /\ pause.original = st.original /\ pause.ref = st.ref
  BY DEF Storable, Sequence
<1>2. Stored(stop) /\ Stored(pause)
  BY <1>1 DEF Stored, Storable
<1>3. job' \in {[job EXCEPT !.pc = "keep", !.st = NoSequence], [job EXCEPT !.pc = "keep", !.st = stop],
                [job EXCEPT !.pc = "keep", !.st = pause]}
  BY DEF Stopped, Paused
<1> HIDE DEF stop, pause
<1>4. GotoWith("keep", NoSequence) \/ GotoWith("keep", stop) \/ GotoWith("keep", pause)
  BY <1>3 DEF GotoWith
<1>5. job' \in SeqJobs /\ job'.pc = "keep" /\ job'.st \in {NoSequence, stop, pause}
  BY <1>1, <1>4, Starting, WentWith DEF Running
<1> QED BY <1>1, <1>2, <1>5, Starting

LEMMA ApplyGoesOn == SeqInv /\ Apply => SeqInv'
<1> SUFFICES ASSUME SeqInv, Apply PROVE SeqInv'
  OBVIOUS
<1> DEFINE st == AtHead(job.st)
<1>1. /\ job.pc = "step" /\ st.next <= Steps
      /\ UNCHANGED <<head, ref, away, file, confirmed, disturbed>>
      /\ \/ index' = index /\ (ClearState \/ (op' = st.next /\ list' = list)) /\ Stopped(st)
         \/ op' = st.next /\ index' = "conflict" /\ list' = list /\ Paused(st)
         \/ /\ op' = st.next /\ index' = "staged" /\ list' = list
            /\ job' = [job EXCEPT !.pc = "hook", !.st = st, !.parent = head, !.resumed = FALSE]
         \/ index' = index /\ ClearState /\ Skip(st)
  BY DEF Apply, At
<1>2. /\ list = NoList /\ job.st.next \in 1..(Steps + 1) /\ Ordered(job.st.original)
      /\ Below(head, job.st.next) /\ OwnTail(head, job.st.original) /\ job.st \in Sequence
      /\ head \in Tips /\ Ordered(head)
  BY <1>1, Facts DEF StepOK, At, Running, SeqTypeOK, SeqJobs, TipsOK
<1>3. /\ st \in Sequence /\ st.next = job.st.next /\ st.expected = head
      /\ st.original = job.st.original /\ st.ref = job.st.ref
  BY <1>2 DEF AtHead, Sequence
<1> HIDE DEF st
<1>4. st.next \in 1..Steps
  BY <1>1, <1>2, <1>3, StepsAssumption
<1>5. Storable(st)
  BY <1>2, <1>3, <1>4 DEF Storable
<1>6. ~disturbed => RefOK(st) /\ index = "clean"
  BY <1>1, <1>3 DEF SeqInv, RestsInv, At, Running, RefOK
<1>7. st.next \in ListOp..Steps
  BY <1>4, Numbers
<1>8. job' \in SeqJobs /\ list' = NoList /\ op' \in {NoOp, st.next} => Base'
  <2>1. SUFFICES ASSUME job' \in SeqJobs, list' = NoList, op' \in {NoOp, st.next} PROVE Base'
    OBVIOUS
  <2>2. op' > 0 => Below(head', op')
    BY <1>1, <1>2, <1>3, <2>1, Numbers
  <2>3. index' \in {"clean", "staged", "conflict"} /\ disturbed' \in BOOLEAN /\ op' \in ListOp..Steps
    BY <1>1, <1>7, <2>1, Facts, Numbers DEF SeqTypeOK
  <2> QED BY <1>1, <1>2, <2>1, <2>2, <2>3, StepBase
<1>9. ASSUME Stopped(st) \/ Paused(st), list' = NoList,
             (op' = NoOp /\ index' = index) \/ op' = st.next
      PROVE  SeqInv'
  <2>1. /\ job' \in SeqJobs /\ job'.pc = "keep" /\ Stored(job'.st)
        /\ job'.st # NoSequence =>
             job'.st.next = st.next /\ job'.st.expected = st.expected /\ job'.st.ref = st.ref
    BY <1>5, <1>9, AtStop
  <2>2. Base'
    BY <1>8, <1>9, <2>1
  <2>3. Stored(job.st)'
    BY <2>1 DEF Stored
  <2>4. ~disturbed' /\ job'.st # NoSequence => Rests(job.st)'
    BY <1>1, <1>3, <1>6, <1>9, <2>1 DEF Rests, RefOK
  <2> QED BY <1>9, <2>1, <2>2, <2>3, <2>4, AtKeep DEF At
<1>10. CASE index' = index /\ (ClearState \/ (op' = st.next /\ list' = list)) /\ Stopped(st)
  <2>1. list' = NoList /\ (op' = NoOp \/ op' = st.next)
    BY <1>2, <1>10, Cleared
  <2> QED BY <1>9, <1>10, <2>1
<1>11. CASE op' = st.next /\ index' = "conflict" /\ list' = list /\ Paused(st)
  BY <1>2, <1>9, <1>11
<1>12. CASE /\ op' = st.next /\ index' = "staged" /\ list' = list
            /\ job' = [job EXCEPT !.pc = "hook", !.st = st, !.parent = head, !.resumed = FALSE]
  <2>1. job' \in SeqJobs /\ job'.pc = "hook" /\ job'.st = st /\ job'.parent = head
    <3>1. job \in SeqJobs
      BY Facts DEF SeqTypeOK
    <3> QED BY <1>2, <1>3, <1>12, <3>1 DEF SeqJobs, Running
  <2>2. Base'
    BY <1>2, <1>8, <1>12, <2>1
  <2>3. Stored(job.st)' /\ (~disturbed' => RefOK(job.st)')
    BY <1>1, <1>5, <1>6, <2>1 DEF Stored, Storable, RefOK
  <2> QED BY <1>1, <1>2, <1>3, <1>4, <1>12, <2>1, <2>2, <2>3, AtHookOrCommit DEF At
<1>13. CASE index' = index /\ ClearState /\ Skip(st)
  <2>1. op' = NoOp /\ list' = NoList
    BY <1>2, <1>13, Cleared
  <2>2. /\ job' \in SeqJobs /\ job'.pc = "step" /\ job'.st.next = st.next + 1
        /\ job'.st.original = st.original /\ job'.st.ref = st.ref
    BY <1>3, <1>13, Skipped
  <2>3. Base'
    BY <1>8, <2>1, <2>2
  <2>4. job'.st.next \in 1..(Steps + 1) /\ st.next < job'.st.next /\ job'.st.next \in Int /\ st.next \in Int
    BY <1>4, <2>2, StepsAssumption
  <2>5. Below(head', job'.st.next) /\ OwnTail(head', job'.st.original) /\ Ordered(job'.st.original)
    BY <1>1, <1>2, <1>3, <2>2, <2>4, Higher
  <2>6. ~disturbed' => RefOK(job.st)' /\ index' = "clean"
    BY <1>1, <1>6, <1>13, <2>2 DEF RefOK
  <2> QED BY <2>1, <2>2, <2>3, <2>4, <2>5, <2>6, AtStep DEF At
<1> QED BY <1>1, <1>10, <1>11, <1>12, <1>13

LEMMA EndOfStepsGoesOn == SeqInv /\ EndOfSteps => SeqInv'
<1> SUFFICES ASSUME SeqInv, EndOfSteps PROVE SeqInv'
  OBVIOUS
<1> DEFINE st == [AtHead(job.st) EXCEPT !.conflict = FALSE]
<1>1. /\ job.pc = "step"
      /\ UNCHANGED <<head, ref, away, op, list, index, file, confirmed, disturbed>>
      /\ \/ GotoWith("keep", NoSequence)
         \/ job.st.next <= Steps /\ GotoWith("keep", st)
  BY DEF EndOfSteps, Cancelled, At, git
<1>2. /\ list = NoList /\ job.st.next \in 1..(Steps + 1) /\ Ordered(job.st.original)
      /\ Below(head, job.st.next) /\ OwnTail(head, job.st.original) /\ job.st \in Sequence
      /\ head \in Tips /\ Ordered(head)
  BY <1>1, Facts DEF StepOK, At, Running, SeqTypeOK, SeqJobs, TipsOK
<1>3. /\ st \in Sequence /\ st.next = job.st.next /\ st.expected = head
      /\ st.original = job.st.original /\ st.ref = job.st.ref /\ st.conflict = FALSE
  BY <1>2 DEF AtHead, Sequence
<1> HIDE DEF st
<1>4. ~disturbed => RefOK(st) /\ index = "clean" /\ (op = NoOp \/ op = st.next - 1)
  BY <1>1, <1>3 DEF SeqInv, RestsInv, At, Running, RefOK
<1>5. job' \in SeqJobs => Base'
  BY <1>1, <1>2, Facts, StepBase DEF SeqTypeOK, OpOK
<1>6. CASE GotoWith("keep", NoSequence)
  <2>1. job' \in SeqJobs /\ job'.pc = "keep" /\ job'.st = NoSequence
    BY <1>6, WentWith, Starting DEF Running
  <2>2. Stored(job.st)'
    BY <2>1, Starting DEF Stored
  <2> QED BY <1>1, <1>2, <1>5, <2>1, <2>2, AtKeep DEF At
<1>7. CASE job.st.next <= Steps /\ GotoWith("keep", st)
  <2>1. job' \in SeqJobs /\ job'.pc = "keep" /\ job'.st = st
    BY <1>3, <1>7, WentWith DEF Running
  <2>2. st.next \in 1..Steps
    BY <1>2, <1>3, <1>7, StepsAssumption
  <2>3. Stored(job.st)'
    BY <1>2, <1>3, <2>1, <2>2 DEF Stored
  <2>4. ~disturbed' => Rests(job.st)'
    BY <1>1, <1>2, <1>3, <1>4, <2>1 DEF Rests, RefOK, Leftover
  <2> QED BY <1>1, <1>2, <1>5, <2>1, <2>3, <2>4, AtKeep DEF At
<1> QED BY <1>1, <1>6, <1>7

LEMMA Landing ==
  ASSUME Base', At("landed")', list' = NoList, job'.st.next \in 1..Steps, Ordered(job'.st.original),
         Below(head', job'.st.next + 1), OwnTail(head', job'.st.original),
         ~disturbed' => RefOK(job.st)' /\ op' = job'.st.next /\ index' = "clean"
  PROVE  SeqInv'
<1>1. job'.pc = "landed"
  BY DEF At
<1>2. StepOK' /\ AbortOK'
  BY <1>1 DEF StepOK, AbortOK, At, Running, Aborting
<1>3. RestsInv'
  BY <1>1 DEF RestsInv, At, Running, Aborting
<1> QED BY <1>2, <1>3 DEF SeqInv, StepsInv

(* A step that failed, or waits for the user, is kept; its branch and its files stay. *)
LEMMA AtFailure ==
  ASSUME SeqInv, job.pc \in {"hook", "commit"},
         GotoWith("keep", job.st) \/ Stopped(job.st) \/ Paused(job.st),
         UNCHANGED <<head, ref, away, op, list, index, file, disturbed>>
  PROVE  SeqInv'
<1>1. /\ list = NoList /\ Stored(job.st) /\ job.st.next \in 1..Steps /\ job.st \in Sequence
  BY Facts DEF StepOK, At, Running, SeqTypeOK, SeqJobs
<1>2. ~disturbed => RefOK(job.st) /\ op = job.st.next /\ head = job.st.expected
  BY DEF SeqInv, RestsInv, At, Running
<1>3. Storable(job.st)
  BY <1>1 DEF Stored, Storable
<1>4. /\ job' \in SeqJobs /\ job'.pc = "keep" /\ Stored(job'.st)
      /\ job'.st # NoSequence =>
           job'.st.next = job.st.next /\ job'.st.expected = job.st.expected /\ job'.st.ref = job.st.ref
  <2>1. CASE GotoWith("keep", job.st)
    BY <1>1, <2>1, WentWith DEF Running
  <2>2. CASE Stopped(job.st) \/ Paused(job.st)
    BY <1>3, <2>2, AtStop
  <2> QED BY <2>1, <2>2
<1>5. Base'
  BY <1>1, <1>4, Facts, StepBase DEF SeqTypeOK, TipsOK, OpOK
<1>6. Stored(job.st)' /\ (~disturbed' /\ job'.st # NoSequence => Rests(job.st)')
  BY <1>1, <1>2, <1>4 DEF Stored, Rests, RefOK
<1> QED BY <1>1, <1>4, <1>5, <1>6, AtKeep DEF At

LEMMA HookGoesOn == SeqInv /\ Hook => SeqInv'
<1> SUFFICES ASSUME SeqInv, Hook PROVE SeqInv'
  OBVIOUS
<1>1. /\ job.pc = "hook" /\ UNCHANGED <<head, ref, away, file, confirmed, disturbed>>
      /\ \/ Goto("commit") /\ UNCHANGED <<op, list, index>>
         \/ /\ UNCHANGED <<op, list, index>>
            /\ GotoWith("keep", job.st) \/ Stopped(job.st) \/ Paused(job.st)
         \/ head = job.parent /\ index' = "clean" /\ ClearState /\ Skip(job.st)
  BY DEF Hook, At, StateStays, StepFailed
<1>2. /\ list = NoList /\ Stored(job.st) /\ job.st.next \in 1..Steps /\ job.st \in Sequence
      /\ Below(job.parent, job.st.next) /\ OwnTail(job.parent, job.st.original)
      /\ head \in Tips /\ Ordered(head)
  BY <1>1, Facts DEF StepOK, At, Running, SeqTypeOK, SeqJobs, TipsOK
<1>3. ~disturbed => RefOK(job.st) /\ op = job.st.next /\ head = job.st.expected /\ job.parent = head
  BY <1>1 DEF SeqInv, RestsInv, At, Running
<1>4. CASE Goto("commit") /\ UNCHANGED <<op, list, index>>
  <2>1. job' \in SeqJobs /\ job'.pc = "commit" /\ job'.st = job.st /\ job'.parent = job.parent
    BY <1>4, WentOn DEF Running
  <2>2. Base'
    BY <1>1, <1>2, <1>4, <2>1, Facts, StepBase DEF SeqTypeOK, OpOK
  <2>3. Stored(job.st)' /\ (~disturbed' => RefOK(job.st)')
    BY <1>1, <1>2, <1>3, <2>1 DEF Stored, RefOK
  <2> QED BY <1>1, <1>2, <1>3, <1>4, <2>1, <2>2, <2>3, AtHookOrCommit DEF At
<1>5. CASE /\ UNCHANGED <<op, list, index>>
           /\ GotoWith("keep", job.st) \/ Stopped(job.st) \/ Paused(job.st)
  BY <1>1, <1>5, AtFailure
<1>6. CASE head = job.parent /\ index' = "clean" /\ ClearState /\ Skip(job.st)
  <2>1. op' = NoOp /\ list' = NoList
    BY <1>2, <1>6, Cleared
  <2>2. /\ job' \in SeqJobs /\ job'.pc = "step" /\ job'.st.next = job.st.next + 1
        /\ job'.st.original = job.st.original /\ job'.st.ref = job.st.ref
    BY <1>2, <1>6, Skipped
  <2>3. Base'
    BY <1>1, <1>2, <1>6, <2>1, <2>2, Facts, Numbers, StepBase DEF SeqTypeOK
  <2>4. /\ job'.st.next \in 1..(Steps + 1) /\ job.st.next < job'.st.next
        /\ job'.st.next \in Int /\ job.st.next \in Int
    BY <1>2, <2>2, StepsAssumption
  <2>5. Below(head', job'.st.next) /\ OwnTail(head', job'.st.original) /\ Ordered(job'.st.original)
    BY <1>1, <1>2, <1>6, <2>2, <2>4, Higher DEF Stored
  <2>6. ~disturbed' => RefOK(job.st)'
    BY <1>1, <1>3, <2>2 DEF RefOK
  <2> QED BY <1>6, <2>1, <2>2, <2>3, <2>4, <2>5, <2>6, AtStep DEF At
<1> QED BY <1>1, <1>4, <1>5, <1>6

LEMMA CommitGoesOn == SeqInv /\ Commit => SeqInv'
<1> SUFFICES ASSUME SeqInv, Commit PROVE SeqInv'
  OBVIOUS
<1>1. /\ job.pc = "commit" /\ UNCHANGED <<ref, away, op, list, file, confirmed, disturbed>>
      /\ \/ /\ head = job.parent /\ head' = Append(job.parent, job.st.next) /\ index' = "clean"
            /\ Goto("landed")
         \/ /\ UNCHANGED <<head, index>>
            /\ GotoWith("keep", job.st) \/ Stopped(job.st)
  BY DEF Commit, At, Swaps, StepFailed
<1>2. /\ list = NoList /\ Stored(job.st) /\ job.st.next \in 1..Steps /\ job.st \in Sequence
      /\ Below(job.parent, job.st.next) /\ OwnTail(job.parent, job.st.original)
      /\ head \in Tips /\ Ordered(head)
  BY <1>1, Facts DEF StepOK, At, Running, SeqTypeOK, SeqJobs, TipsOK
<1>3. ~disturbed => RefOK(job.st) /\ op = job.st.next
  BY <1>1 DEF SeqInv, RestsInv, At, Running
<1>4. CASE /\ head = job.parent /\ head' = Append(job.parent, job.st.next) /\ index' = "clean"
           /\ Goto("landed")
  <2>1. job' \in SeqJobs /\ job'.pc = "landed" /\ job'.st = job.st
    BY <1>4, WentOn DEF Running
  <2>2. /\ job.st.next \in Entries /\ job.st.next \in Int /\ job.st.next + 1 \in Int
        /\ job.st.next < job.st.next + 1 /\ job.st.original \in Tips
    BY <1>2, Numbers DEF Sequence
  <2>3. Below(head, job.st.next + 1)
    BY <1>2, <1>4, <2>2, Higher
  <2>4. /\ head' \in Tips /\ Ordered(head') /\ Below(head', job.st.next + 1)
        /\ OwnTail(head', job.st.original)
    BY <1>2, <1>4, <2>2, <2>3, Ends
  <2>5. Base'
    BY <1>1, <1>2, <1>4, <2>1, <2>4, Facts, StepBase DEF SeqTypeOK
  <2>6. Ordered(job'.st.original) /\ (~disturbed' => RefOK(job.st)')
    BY <1>1, <1>2, <1>3, <2>1 DEF Stored, RefOK
  <2> QED BY <1>1, <1>2, <1>3, <1>4, <2>1, <2>4, <2>5, <2>6, Landing DEF At
<1>5. CASE UNCHANGED <<head, index>> /\ (GotoWith("keep", job.st) \/ Stopped(job.st))
  BY <1>1, <1>5, AtFailure
<1> QED BY <1>1, <1>4, <1>5

LEMMA LandedGoesOn == SeqInv /\ Landed => SeqInv'
<1> SUFFICES ASSUME SeqInv, Landed PROVE SeqInv'
  OBVIOUS
<1>1. /\ job.pc = "landed" /\ UNCHANGED <<head, ref, away, index, file, confirmed, disturbed>>
      /\ ClearState \/ UNCHANGED <<op, list>>
      /\ job' = [job EXCEPT !.pc = "step", !.st.next = @ + 1,
                            !.cancelled = job.cancelled \/ stops' # stops]
  BY DEF Landed, At, StateStays
<1>2. /\ list = NoList /\ job.st.next \in 1..Steps /\ Ordered(job.st.original)
      /\ Below(head, job.st.next + 1) /\ OwnTail(head, job.st.original) /\ job.st \in Sequence
      /\ job \in SeqJobs
  BY <1>1, Facts DEF StepOK, At, Running, SeqTypeOK, SeqJobs
<1>3. ~disturbed => RefOK(job.st) /\ op = job.st.next /\ index = "clean"
  BY <1>1 DEF SeqInv, RestsInv, At, Running
<1>4. list' = NoList /\ (op' = NoOp \/ op' = op)
  BY <1>1, <1>2, Cleared
<1>5. /\ job' \in SeqJobs /\ job'.pc = "step" /\ job'.st.next = job.st.next + 1
      /\ job'.st.original = job.st.original /\ job'.st.ref = job.st.ref
  <2> DEFINE st == [job.st EXCEPT !.next = @ + 1]
             stopped == job.cancelled \/ stops' # stops
  <2>1. st \in Sequence /\ st.next = job.st.next + 1 /\ st.original = job.st.original /\ st.ref = job.st.ref
    BY <1>2 DEF Sequence
  <2>2. stopped \in BOOLEAN
    BY <1>2 DEF SeqJobs
  <2>3. job' = [job EXCEPT !.pc = "step", !.st = st, !.cancelled = stopped]
    BY <1>1
  <2> HIDE DEF st, stopped
  <2> QED BY <1>2, <2>1, <2>2, <2>3 DEF SeqJobs, Running
<1>6. Base'
  <2>1. op' > 0 /\ index' # "clean" => Below(head', op')
    BY <1>1, <1>4, Facts, Numbers DEF OpOK
  <2>2. head \in Tips /\ Ordered(head)
    BY Facts DEF SeqTypeOK, TipsOK
  <2>3. index \in {"clean", "staged", "conflict"} /\ disturbed \in BOOLEAN /\ op' \in ListOp..Steps
    BY <1>4, Facts, Numbers DEF SeqTypeOK
  <2> QED BY <1>1, <1>4, <1>5, <2>1, <2>2, <2>3, StepBase
<1>7. job'.st.next \in 1..(Steps + 1) /\ job.st.next = job'.st.next - 1
  BY <1>2, <1>5, StepsAssumption
<1>8. ~disturbed' => RefOK(job.st)' /\ index' = "clean" /\ (op' = NoOp \/ op' = job'.st.next - 1)
  BY <1>1, <1>3, <1>4, <1>5, <1>7 DEF RefOK
<1> QED BY <1>1, <1>2, <1>4, <1>5, <1>6, <1>7, <1>8, AtStep DEF At

LEMMA KeepGoesOn == SeqInv /\ Keep => SeqInv'
<1> SUFFICES ASSUME SeqInv, Keep PROVE SeqInv'
  OBVIOUS
<1>1. /\ job.pc = "keep" /\ job' = NoJob /\ UNCHANGED <<head, ref, away, op, list, index>>
      /\ file' = job.st \/ file' = file
      /\ disturbed' \in BOOLEAN /\ (~disturbed' => ~disturbed /\ file' = job.st)
  <2>1. disturbed \in BOOLEAN
    BY Facts DEF SeqTypeOK
  <2> QED BY <2>1 DEF Keep, At, git, Works
<1>2. Stored(job.st) /\ job.st \in Sequence
  BY <1>1, Facts DEF StepOK, At, Running, SeqTypeOK, SeqJobs
<1>3. ~disturbed /\ job.st # NoSequence => Rests(job.st)
  BY <1>1 DEF SeqInv, RestsInv, At
<1>4. Base' /\ At("idle")'
  <2>1. SeqTypeOK'
    BY <1>1, <1>2, Facts, Starting DEF SeqTypeOK, SeqJobs
  <2>2. Stored(file)'
    BY <1>1, <1>2, Facts DEF Stored
  <2>3. TipsOK' /\ OpOK'
    BY <1>1, Facts DEF TipsOK, OpOK
  <2>4. At("idle")'
    BY <1>1, Starting DEF At
  <2> QED BY <2>1, <2>2, <2>3, <2>4 DEF Base
<1>5. ~disturbed' /\ file' # NoSequence => Rests(file)'
  BY <1>1, <1>3 DEF Rests, RefOK, Leftover, ByHand
<1> QED BY <1>4, <1>5, Idles

-----------------------------------------------------------------------------
(* Aborting, a crash, and commits by hand *)

LEMMA AbortBase ==
  ASSUME SeqInv, job' \in SeqJobs, head' \in Tips, Ordered(head'),
         UNCHANGED <<ref, away, file, disturbed>>, list' \in {list, NoList},
         index' \in {"clean", "staged", "conflict"}, op' \in ListOp..Steps,
         op' > 0 => list' = NoList, op' > 0 /\ index' # "clean" => Below(head', op')
  PROVE  Base'
<1>1. SeqTypeOK'
  BY Facts, Starting DEF SeqTypeOK
<1>2. Stored(file)'
  BY Facts DEF Stored
<1>3. TipsOK'
  BY Facts, Starting DEF TipsOK
<1>4. OpOK'
  BY DEF OpOK
<1> QED BY <1>1, <1>2, <1>3, <1>4 DEF Base

LEMMA AbortFacts ==
  ASSUME SeqInv, job.pc \in Aborting
  PROVE  /\ job.mode \in {"abort", "abort step", "abort list"}
         /\ At("rewind") \/ At("forget") => job.mode # "abort step"
         /\ IF job.mode = "abort" THEN job.st = file /\ file # NoSequence ELSE file = NoSequence
         /\ job.mode = "abort list" => op <= 0
         /\ job.pc # "forget" /\ job.mode = "abort list" =>
              confirmed.head = head /\ confirmed.start = list.start /\ confirmed.rewinds = Rewinds
         /\ ~disturbed /\ file # NoSequence => Rests(file)
BY Facts DEF AbortOK, SeqInv, RestsInv, Aborting, At

LEMMA StopsThere ==
  ASSUME SeqInv, job.pc \in Aborting, job' = NoJob,
         UNCHANGED <<head, ref, away, op, list, index, file, disturbed>>
  PROVE  SeqInv'
<1>1. job' \in SeqJobs /\ At("idle")'
  BY Facts, Starting DEF SeqJobs, At
<1>2. Base'
  BY <1>1, Facts, AbortBase DEF SeqTypeOK, TipsOK, OpOK
<1>3. ~disturbed' /\ file' # NoSequence => Rests(file)'
  BY AbortFacts DEF Rests, RefOK, Leftover, ByHand
<1> QED BY <1>1, <1>2, <1>3, Idles

LEMMA ResetGoesOn == SeqInv /\ Reset => SeqInv'
<1> SUFFICES ASSUME SeqInv, Reset PROVE SeqInv'
  OBVIOUS
<1>1. /\ job.pc = "reset" /\ job.pc \in Aborting
      /\ UNCHANGED <<head, ref, away, op, list, file, confirmed, disturbed>>
      /\ \/ index' = "clean" /\ Goto("unmark")
         \/ index' = index /\ job' = NoJob
  BY DEF Reset, At, Aborting
<1>2. CASE index' = "clean" /\ Goto("unmark")
  <2>1. job' \in SeqJobs /\ job'.pc = "unmark" /\ job'.st = job.st /\ job'.mode = job.mode
    BY <1>2, WentOn DEF Aborting
  <2>2. Base'
    BY <1>1, <1>2, <2>1, Facts, AbortBase DEF SeqTypeOK, TipsOK, OpOK
  <2>3. ~disturbed /\ file # NoSequence => Rests(file)'
    BY <1>1, <1>2, AbortFacts DEF Rests, RefOK, Leftover, ByHand
  <2>4. Rewinds' = Rewinds
    BY <1>1 DEF Rewinds
  <2> QED BY <1>1, <1>2, <2>1, <2>2, <2>3, <2>4, AbortFacts, AtAbort DEF Aborting, At
<1>3. CASE index' = index /\ job' = NoJob
  BY <1>1, <1>3, StopsThere
<1> QED BY <1>1, <1>2, <1>3

LEMMA UnmarkGoesOn == SeqInv /\ Unmark => SeqInv'
<1> SUFFICES ASSUME SeqInv, Unmark PROVE SeqInv'
  OBVIOUS
<1>1. /\ job.pc = "unmark" /\ job.pc \in Aborting
      /\ UNCHANGED <<head, ref, away, index, file, confirmed, disturbed>>
      /\ \/ /\ op' = NoOp /\ list' \in {list, NoList} /\ (job.mode = "abort list" => list' = list)
            /\ IF job.mode = "abort step" THEN job' = NoJob ELSE Goto("rewind")
         \/ UNCHANGED <<op, list>> /\ job' = NoJob
  BY DEF Unmark, At, Aborting, StateStays, ClearState
<1>2. ~disturbed /\ job.mode = "abort" => index = "clean"
  BY <1>1 DEF SeqInv, RestsInv, At
<1>3. CASE UNCHANGED <<op, list>> /\ job' = NoJob
  BY <1>1, <1>3, StopsThere
<1>4. CASE op' = NoOp /\ list' \in {list, NoList} /\ job.mode = "abort step" /\ job' = NoJob
  <2>1. job' \in SeqJobs /\ At("idle")'
    BY <1>4, Facts, Starting DEF SeqJobs, At
  <2>2. Base'
    BY <1>1, <1>4, <2>1, Facts, Numbers, AbortBase DEF SeqTypeOK, TipsOK
  <2> QED BY <1>1, <1>4, <2>1, <2>2, AbortFacts, Idles
<1>5. CASE /\ op' = NoOp /\ list' \in {list, NoList} /\ (job.mode = "abort list" => list' = list)
           /\ job.mode # "abort step" /\ Goto("rewind")
  <2>1. job' \in SeqJobs /\ job'.pc = "rewind" /\ job'.st = job.st /\ job'.mode = job.mode
    BY <1>5, WentOn DEF Aborting
  <2>2. Base'
    BY <1>1, <1>5, <2>1, Facts, Numbers, AbortBase DEF SeqTypeOK, TipsOK
  <2>3. ~disturbed /\ job.mode = "abort" => Rests(file)'
    BY <1>1, <1>2, <1>5, AbortFacts DEF Rests, RefOK, Leftover, ByHand
  <2>4. job.mode = "abort list" => Rewinds' = Rewinds
    BY <1>1, <1>5 DEF Rewinds
  <2>5. op' <= 0
    BY <1>5, Numbers
  <2> QED BY <1>1, <1>5, <2>1, <2>2, <2>3, <2>4, <2>5, AbortFacts, AtAbort DEF Aborting, At
<1> QED BY <1>1, <1>3, <1>4, <1>5

LEMMA RewindGoesOn == SeqInv /\ Rewind => SeqInv'
<1> SUFFICES ASSUME SeqInv, Rewind PROVE SeqInv'
  OBVIOUS
<1>1. /\ job.pc = "rewind" /\ job.pc \in Aborting
      /\ UNCHANGED <<ref, away, op, list, index, file, confirmed, disturbed>>
      /\ \/ head' = Target /\ Goto("forget")
         \/ head' = head /\ job' = NoJob
  BY DEF Rewind, At, Aborting
<1>2. CASE head' = head /\ job' = NoJob
  BY <1>1, <1>2, StopsThere
<1>3. CASE head' = Target /\ Goto("forget")
  <2>1. job' \in SeqJobs /\ job'.pc = "forget" /\ job'.st = job.st /\ job'.mode = job.mode
    BY <1>3, WentOn DEF Aborting
  <2>2. /\ job.mode \in {"abort", "abort list"}
        /\ job.mode = "abort" => job.st = file /\ file # NoSequence
        /\ job.mode = "abort list" => op <= 0 /\ file = NoSequence
        /\ ~disturbed /\ file # NoSequence => Rests(file)
    BY <1>1, AbortFacts DEF At
  <2>3. \/ job.mode = "abort list" /\ head' = list.start
        \/ head' = head
        \/ job.mode = "abort" /\ op = NoOp /\ head' = file.original
    BY <1>3, <2>2 DEF Target
  <2>4. /\ head' \in Tips /\ Ordered(head')
        /\ op' > 0 /\ index' # "clean" => Below(head', op')
    <3>1. /\ head \in Tips /\ list.start \in Tips /\ file.original \in Tips
          /\ Ordered(head) /\ Ordered(list.start) /\ Ordered(file.original)
      BY Facts DEF SeqTypeOK, TipsOK, Stored, Sequence
    <3>2. op > 0 /\ index # "clean" => Below(head, op)
      BY Facts DEF OpOK
    <3>3. op \in ListOp..Steps
      BY Facts DEF SeqTypeOK
    <3>4. op > 0 => head' = head
      <4>1. job.mode = "abort list" => ~(op > 0)
        BY <2>2, <3>3, Numbers
      <4>2. op = NoOp => ~(op > 0)
        BY Numbers
      <4> QED BY <2>3, <4>1, <4>2
    <3> QED BY <1>1, <2>3, <3>1, <3>2, <3>4
  <2>5. Base'
    BY <1>1, <2>1, <2>4, Facts, AbortBase DEF SeqTypeOK, OpOK
  <2>6. ASSUME ~disturbed, job.mode = "abort"
        PROVE  /\ Rests(file)' /\ op' = NoOp
               /\ head' = job'.st.original \/ ByHand(job.st)'
    <3>1. op = NoOp
      BY <1>1, <2>6 DEF SeqInv, RestsInv, At
    <3>2. file.next \in 1..Steps /\ op # file.next
      BY <2>2, <2>6, <3>1, Facts DEF Stored, NoOp
    <3>3. /\ list = NoList /\ RefOK(file) /\ index = "clean"
          /\ head = file.expected \/ head = file.original \/ ByHand(file)
      BY <2>2, <2>6, <3>1, <3>2 DEF Rests, Leftover
    <3>4. head = file.expected => SameRef(file)
      BY <3>3 DEF RefOK, SameRef
    <3>5. head' = IF head = file.expected THEN file.original ELSE head
      BY <1>3, <2>2, <2>6, <3>1, <3>4 DEF Target
    <3>6. head' = file.original \/ ByHand(file)'
      BY <1>1, <3>3, <3>5 DEF ByHand
    <3>7. Rests(file)'
      BY <1>1, <3>1, <3>3, <3>6 DEF Rests, RefOK
    <3> QED BY <1>1, <2>1, <2>2, <2>6, <3>1, <3>6, <3>7 DEF ByHand
  <2> QED BY <1>1, <2>1, <2>2, <2>5, <2>6, AtAbort DEF Aborting, At
<1> QED BY <1>1, <1>2, <1>3

LEMMA ForgetGoesOn == SeqInv /\ Forget => SeqInv'
<1> SUFFICES ASSUME SeqInv, Forget PROVE SeqInv'
  OBVIOUS
<1>1. /\ job.pc = "forget" /\ job.pc \in Aborting /\ job' = NoJob
      /\ UNCHANGED <<head, ref, away, op, index, confirmed, disturbed>>
      /\ \/ job.mode = "abort list" /\ list' = NoList /\ file' = file
         \/ job.mode # "abort list" /\ list' = list /\ file' = NoSequence
         \/ UNCHANGED <<list, file>>
  BY DEF Forget, At, Aborting
<1>2. CASE UNCHANGED <<list, file>>
  BY <1>1, <1>2, StopsThere
<1>3. CASE (job.mode = "abort list" /\ list' = NoList /\ file' = file)
           \/ (job.mode # "abort list" /\ list' = list /\ file' = NoSequence)
  <2>1. file' = NoSequence
    BY <1>1, <1>3, AbortFacts
  <2>2. Base' /\ At("idle")'
    <3>1. SeqTypeOK'
      BY <1>1, <1>3, <2>1, Facts, Starting DEF SeqTypeOK, SeqJobs
    <3>2. Stored(file)'
      BY <2>1, Starting DEF Stored
    <3>3. TipsOK'
      BY <1>1, <1>3, Facts, Starting DEF TipsOK
    <3>4. OpOK'
      BY <1>1, <1>3, Facts DEF OpOK
    <3>5. At("idle")'
      BY <1>1, Starting DEF At
    <3> QED BY <3>1, <3>2, <3>3, <3>4, <3>5 DEF Base
  <2> QED BY <2>1, <2>2, Idles
<1> QED BY <1>1, <1>2, <1>3

LEMMA CrashGoesOn == SeqInv /\ Crash => SeqInv'
<1> SUFFICES ASSUME SeqInv, Crash PROVE SeqInv'
  OBVIOUS
<1>1. /\ job' = NoJob /\ disturbed' = TRUE
      /\ UNCHANGED <<head, ref, away, op, list, index, file>>
  BY DEF Crash, git
<1>2. Base' /\ At("idle")'
  <2>1. SeqTypeOK'
    BY <1>1, Facts, Starting DEF SeqTypeOK, SeqJobs
  <2>2. Stored(file)'
    BY <1>1, Facts DEF Stored
  <2>3. TipsOK' /\ OpOK'
    BY <1>1, Facts DEF TipsOK, OpOK
  <2>4. At("idle")'
    BY <1>1, Starting DEF At
  <2> QED BY <2>1, <2>2, <2>3, <2>4 DEF Base
<1> QED BY <1>1, <1>2, Idles

LEMMA CommitByHandGoesOn == SeqInv /\ CommitByHand => SeqInv'
<1> SUFFICES ASSUME SeqInv, CommitByHand PROVE SeqInv'
  OBVIOUS
<1> DEFINE n == IF op = ListOp THEN Listed ELSE op
<1>1. /\ At("idle") \/ At("hook")
      /\ index = "staged" /\ op # NoOp /\ head' = Append(head, n) /\ index' = "clean" /\ ClearState
      /\ disturbed' = (disturbed \/ ~At("idle") \/ ~OwnPaused(file) \/ ~file.conflict
                       \/ ref # file.ref)
      /\ UNCHANGED <<ref, away, file, job>>
  BY DEF CommitByHand
<1>2. op' = NoOp /\ list' \in {list, NoList} /\ (list = NoList => list' = NoList)
  BY <1>1 DEF ClearState
<1>3. n \in Entries /\ (n > 0 => Below(head, n)) /\ (op # ListOp => n = op)
  <2>1. op \in ListOp..Steps
    BY Facts DEF SeqTypeOK
  <2>2. CASE op = ListOp
    BY <2>2, Numbers
  <2>3. CASE op # ListOp
    <3>1. op \in 1..Steps
      BY <1>1, <2>1, <2>3, Numbers
    <3>2. op > 0 /\ n = op
      BY <2>3, <3>1
    <3>3. Below(head, op)
      BY <1>1, <3>2, Facts DEF OpOK
    <3> QED BY <3>1, <3>2, <3>3, Numbers
  <2> QED BY <2>2, <2>3
<1> HIDE DEF n
<1>4. head' \in Tips /\ Ordered(head')
  <2>1. head \in Tips /\ Ordered(head)
    BY Facts DEF SeqTypeOK, TipsOK
  <2> QED BY <1>1, <1>3, <2>1, Ends
<1>5. Base'
  <2>1. disturbed' \in BOOLEAN
    BY <1>1
  <2>2. SeqTypeOK'
    BY <1>1, <1>2, <1>4, <2>1, Facts, Starting, Numbers DEF SeqTypeOK
  <2>3. Stored(file)'
    BY <1>1, Facts DEF Stored
  <2>4. TipsOK'
    BY <1>1, <1>2, <1>4, Facts, Starting DEF TipsOK
  <2>5. OpOK'
    BY <1>2, Numbers DEF OpOK
  <2> QED BY <2>2, <2>3, <2>4, <2>5 DEF Base
<1>6. CASE At("idle")
  <2>1. ASSUME ~disturbed', file' # NoSequence PROVE Rests(file)'
    <3>1. ~disturbed /\ op = file.next /\ file.conflict /\ ref = file.ref
      BY <1>1, <2>1 DEF OwnPaused
    <3>2. Rests(file)
      BY <1>1, <1>6, <2>1, <3>1, Facts
    <3>3. list = NoList /\ head = file.expected
      BY <1>1, <3>1, <3>2, Leftovers DEF Rests
    <3>4. file.next \in 1..Steps
      BY <1>1, <2>1, Facts DEF Stored
    <3>5. op # ListOp
      BY <3>1, <3>4 DEF ListOp
    <3>6. ByHand(file)'
      BY <1>1, <1>3, <3>1, <3>3, <3>5 DEF ByHand
    <3> QED BY <1>1, <1>2, <3>1, <3>3, <3>6 DEF Rests, RefOK
  <2> QED BY <1>1, <1>5, <1>6, <2>1, Idles DEF At
<1>7. CASE At("hook")
  <2>1. disturbed'
    BY <1>1, <1>7 DEF At
  <2>2. /\ list = NoList /\ Stored(job.st) /\ job.st.next \in 1..Steps
        /\ Below(job.parent, job.st.next) /\ OwnTail(job.parent, job.st.original)
    BY <1>7, Facts DEF StepOK, At, Running
  <2>3. Stored(job.st)'
    BY <1>1, <2>2 DEF Stored
  <2> QED BY <1>1, <1>2, <1>5, <1>7, <2>1, <2>2, <2>3, AtHookOrCommit DEF At
<1> QED BY <1>1, <1>6, <1>7

LEMMA CommitOwnGoesOn == SeqInv /\ CommitOwn => SeqInv'
<1> SUFFICES ASSUME SeqInv, CommitOwn PROVE SeqInv'
  OBVIOUS
<1>1. /\ At("idle") \/ At("hook")
      /\ head' = Append(head, Own) /\ disturbed' = TRUE
      /\ UNCHANGED <<ref, away, op, list, index, file, job>>
  BY DEF CommitOwn
<1>2. /\ head' \in Tips /\ Ordered(head')
      /\ op > 0 /\ index # "clean" => Below(head', op)
  <2>1. head \in Tips /\ Ordered(head) /\ (op > 0 /\ index # "clean" => Below(head, op))
    BY Facts DEF SeqTypeOK, TipsOK, OpOK
  <2>2. Own \in Entries /\ ~(Own > 0)
    BY Numbers
  <2>3. op \in Int /\ (op > 0 => Own < op)
    BY Facts, Numbers DEF SeqTypeOK, Own
  <2> QED BY <1>1, <2>1, <2>2, <2>3, Ends
<1>3. Base'
  <2>1. SeqTypeOK'
    BY <1>1, <1>2, Facts DEF SeqTypeOK
  <2>2. Stored(file)'
    BY <1>1, Facts DEF Stored
  <2>3. TipsOK'
    BY <1>1, <1>2, Facts DEF TipsOK
  <2>4. OpOK'
    BY <1>1, <1>2, Facts DEF OpOK
  <2> QED BY <2>1, <2>2, <2>3, <2>4 DEF Base
<1>4. CASE At("idle")
  BY <1>1, <1>3, <1>4, Idles DEF At
<1>5. CASE At("hook")
  <2>1. /\ list = NoList /\ Stored(job.st) /\ job.st.next \in 1..Steps
        /\ Below(job.parent, job.st.next) /\ OwnTail(job.parent, job.st.original)
    BY <1>5, Facts DEF StepOK, At, Running
  <2>2. Stored(job.st)'
    BY <1>1, <2>1 DEF Stored
  <2> QED BY <1>1, <1>3, <1>5, <2>1, <2>2, AtHookOrCommit DEF At
<1> QED BY <1>1, <1>4, <1>5

-----------------------------------------------------------------------------
(* Every step of a sequence *)

LEMMA SequenceStarts == Init => SeqInv
<1> SUFFICES ASSUME Init PROVE SeqInv
  OBVIOUS
<1>1. /\ head = << >> /\ ref = "own" /\ away = << >> /\ op = NoOp /\ list = NoList
      /\ index = "clean" /\ file = NoSequence /\ job = NoJob /\ disturbed = FALSE
  BY DEF Init
<1>2. job.pc = "idle"
  BY <1>1, Starting
<1>3. Base
  <2>1. SeqTypeOK
    BY <1>1, Starting, Numbers DEF SeqTypeOK, SeqJobs, Refs
  <2>2. Stored(file)
    BY <1>1, Starting
  <2>3. TipsOK
    BY <1>1, Starting DEF TipsOK
  <2>4. OpOK
    BY <1>1 DEF OpOK
  <2> QED BY <2>1, <2>2, <2>3, <2>4 DEF Base
<1>4. StepOK /\ AbortOK
  BY <1>2 DEF StepOK, AbortOK, At, Running, Aborting
<1>5. RestsInv
  BY <1>1, <1>2 DEF RestsInv, At, Running, Aborting
<1> QED BY <1>3, <1>4, <1>5 DEF SeqInv, StepsInv

LEMMA SequenceRests == SeqInv /\ UNCHANGED vars => SeqInv'
<1> SUFFICES ASSUME SeqInv, UNCHANGED vars PROVE SeqInv'
  OBVIOUS
<1>1. UNCHANGED <<head, ref, away, op, list, index, file, confirmed, job, disturbed>>
  BY DEF vars, git
<1>2. Base'
  <2>1. SeqTypeOK'
    BY <1>1, Facts DEF SeqTypeOK
  <2>2. Stored(file)'
    BY <1>1, Facts DEF Stored
  <2>3. TipsOK'
    BY <1>1, Facts DEF TipsOK
  <2>4. OpOK'
    BY <1>1, Facts DEF OpOK
  <2> QED BY <2>1, <2>2, <2>3, <2>4 DEF Base
<1>3. StepOK'
  BY <1>1, Facts DEF StepOK, At, Stored
<1>4. AbortOK'
  BY <1>1, Facts DEF AbortOK, At, Rewinds
<1>5. RestsInv'
  <2>1. RestsInv
    BY DEF SeqInv
  <2> QED BY <1>1, <2>1 DEF RestsInv, At, Rests, RefOK, Leftover, ByHand
<1> QED BY <1>2, <1>3, <1>4, <1>5 DEF SeqInv, StepsInv

LEMMA SequenceGoesOn == SeqInv /\ [Next]_vars => SeqInv'
<1>1. SeqInv /\ Command => SeqInv'
  BY StartGoesOn, ContinueGoesOn, AbortSequenceGoesOn, AbortMergeGoesOn, ShowGoesOn,
     AbortTerminalGoesOn DEF Command
<1>2. SeqInv /\ Step => SeqInv'
  BY ClearLeftoverGoesOn, ResumeCleanGoesOn, FinishPausedGoesOn, ApplyGoesOn, EndOfStepsGoesOn,
     HookGoesOn, CommitGoesOn, LandedGoesOn, KeepGoesOn, ResetGoesOn, UnmarkGoesOn, RewindGoesOn,
     ForgetGoesOn DEF Step
<1>3. SeqInv /\ Terminal => SeqInv'
  BY ResolveGoesOn, CommitByHandGoesOn, SkipByHandGoesOn, CommitOwnGoesOn, SwitchGoesOn, RenameGoesOn,
     ListStartGoesOn, ListContinueGoesOn DEF Terminal
<1> QED BY <1>1, <1>2, <1>3, CrashGoesOn, SequenceRests DEF Next

-----------------------------------------------------------------------------
(* What the invariant of a sequence gives *)

LEMMA InOrder == SeqInv => StepsOnceInOrder
BY Facts DEF TipsOK, Ordered, StepsOnceInOrder

LEMMA NotStuck == SeqInv => NeverStuck
<1> SUFFICES ASSUME SeqInv, At("idle") PROVE NeverStuck
  BY DEF NeverStuck
<1>1. op # NoOp => file # NoSequence \/ list = NoList \/ op = ListOp
  <2>1. op \in ListOp..Steps /\ (op > 0 => list = NoList)
    BY Facts DEF SeqTypeOK, OpOK
  <2>2. op \in {NoOp, ListOp} \/ op \in 1..Steps
    BY <2>1, Numbers
  <2>3. op \in 1..Steps => op > 0
    OBVIOUS
  <2> QED BY <2>1, <2>2, <2>3
<1>2. ASSUME file # NoSequence, ~disturbed, index # "conflict"
      PROVE  Resume(file) # "refuse" \/ head = file.original
  <2>1. Rests(file)
    BY <1>2, Facts
  <2>2. file.next \in 1..Steps
    BY <1>2, Facts DEF Stored
  <2>3. list = NoList
    BY <2>1 DEF Rests
  <2>4. CASE op = NoOp /\ index = "clean" /\ (head = file.expected \/ ByHand(file))
    <3>1. Ready /\ ~Leftover(file) /\ ~OwnPaused(file)
      BY <2>3, <2>4 DEF Ready, Leftover, OwnPaused
    <3> QED BY <2>4, <3>1 DEF Resume
  <2>5. CASE op = file.next /\ head = file.expected
    <3>1. op # NoOp /\ op # file.next - 1
      BY <2>2, <2>5 DEF NoOp
    <3>2. OwnPaused(file) /\ ~Leftover(file) /\ ~Ready
      BY <2>5, <3>1 DEF OwnPaused, Leftover, Ready
    <3> QED BY <1>2, <2>3, <2>5, <3>2 DEF Resume
  <2>6. CASE Leftover(file)
    <3>1. ~OwnPaused(file) /\ ~Ready
      BY <2>2, <2>6 DEF OwnPaused, Leftover, Ready
    <3> QED BY <2>3, <2>6, <3>1 DEF Resume
  <2> QED BY <2>1, <2>4, <2>5, <2>6 DEF Rests
<1> QED BY <1>1, <1>2 DEF NeverStuck

(* Abort moves HEAD in one place. *)
LEMMA OnlyRewindMoves == Next /\ At("rewind") /\ head' # head => Rewind
<1> SUFFICES ASSUME Next, job.pc = "rewind", head' # head PROVE Rewind
  BY DEF At
<1>1. ~Command
  BY DEF Command, Start, Continue, AbortSequence, AbortMerge, Show, AbortTerminal, At
<1>2. ~Crash
  BY DEF Crash, git
<1>3. ~Terminal
  BY DEF Terminal, Resolve, CommitByHand, SkipByHand, CommitOwn, Switch, Rename, ListStart,
         ListContinue, At
<1>4. Step => Rewind
  BY DEF Step, ClearLeftover, ResumeClean, FinishPaused, Apply, EndOfSteps, Hook, Commit, Landed,
         Keep, Reset, Unmark, Forget, At
<1> QED BY <1>1, <1>2, <1>3, <1>4 DEF Next

(* The three parts of AbortTakesBackItsOwn, each for a step from a state of the invariant. *)
LEMMA TakesBackItsOwn ==
  ASSUME SeqInv, Next, At("rewind"), head' # head
  PROVE  /\ away' = away
         /\ job.mode = "abort" => (ref = "other" <=> job.st.ref = "other")
         /\ IF job.mode = "abort list"
            THEN confirmed.head = head /\ confirmed.start = head' /\ confirmed.rewinds
            ELSE \A i \in (Len(head') + 1)..Len(head) : head[i] \in 1..Steps
<1>1. away' = away /\ head' = Target /\ head # Target
  BY OnlyRewindMoves DEF Rewind
<1>2. /\ job.mode \in {"abort", "abort list"}
      /\ job.mode = "abort" => job.st = file
      /\ job.mode = "abort list" =>
           confirmed.head = head /\ confirmed.start = list.start /\ confirmed.rewinds = Rewinds
  BY AbortFacts DEF At, Aborting
<1>3. CASE job.mode = "abort list"
  <2>1. Rewinds /\ head' = list.start
    BY <1>1, <1>3 DEF Target
  <2> QED BY <1>1, <1>2, <1>3, <2>1
<1>4. CASE job.mode = "abort"
  <2>1. SameRef(file) /\ head = file.expected /\ head' = file.original
    BY <1>1, <1>2, <1>4 DEF Target
  <2>2. ref = "other" <=> file.ref = "other"
    BY <2>1 DEF SameRef
  <2>3. OwnTail(head, head')
    BY <2>1, Facts DEF Stored
  <2> QED BY <1>1, <1>2, <1>4, <2>2, <2>3 DEF OwnTail
<1> QED BY <1>2, <1>3, <1>4

LEMMA LosesOnlyWhatIsDone ==
  ASSUME SeqInv, Next, list # NoList, list' = NoList
  PROVE  list.left = 1 \/ job.mode = "abort list"
<1> SUFFICES ASSUME job.mode # "abort list" PROVE list.left = 1
  OBVIOUS
<1>1. SUFFICES ClearState
  BY DEF ClearState
<1>2. list' # list
  OBVIOUS
<1>3. ~Command /\ ~Crash
  BY <1>2 DEF Command, Start, Continue, AbortSequence, AbortMerge, Show, AbortTerminal, Crash, git
<1>4. Step => ClearState
  BY <1>2 DEF Step, ClearLeftover, ResumeClean, FinishPaused, Apply, EndOfSteps, Hook, Commit,
         Landed, Keep, Reset, Unmark, Rewind, Forget, StateStays, git
<1>5. Terminal => ClearState
  <2>1. ~ListStart
    BY DEF ListStart, Ready
  <2>2. ListContinue => list'.left = 1
    <3>1. list = [left |-> list.left, start |-> list.start, safety |-> list.safety]
      BY Facts DEF SeqTypeOK
    <3>2. ListContinue => list' = [list EXCEPT !.left = 1, !.safety = Append(head, Listed)]
      BY DEF ListContinue
    <3> QED BY <3>1, <3>2
  <2>3. NoList.left # 1
    BY NothingLeft, Zenon
  <2>4. ~ListContinue
    BY <2>2, <2>3
  <2> QED BY <1>2, <2>1, <2>4 DEF Terminal, Resolve, CommitByHand, SkipByHand, CommitOwn, Switch, Rename
<1> QED BY <1>3, <1>4, <1>5 DEF Next

LEMMA LeavesNothing ==
  ASSUME SeqInv, At("forget"), job.mode = "abort", ~disturbed, ~ByHand(job.st)
  PROVE  head = job.st.original /\ op = NoOp /\ index = "clean"
<1>1. op = NoOp /\ head = job.st.original
  BY DEF SeqInv, RestsInv
<1>2. file # NoSequence /\ Rests(file)
  BY AbortFacts DEF At, Aborting
<1>3. file.next \in 1..Steps
  BY <1>2, Facts DEF Stored
<1>4. op # file.next
  BY <1>1, <1>3 DEF NoOp
<1> QED BY <1>1, <1>2, <1>4 DEF Rests, Leftover

LEMMA AbortsStepwise ==
  SeqInv /\ [Next]_vars =>
    [/\ At("rewind") /\ head' # head =>
          /\ away' = away
          /\ job.mode = "abort" => (ref = "other" <=> job.st.ref = "other")
          /\ IF job.mode = "abort list"
             THEN confirmed.head = head /\ confirmed.start = head' /\ confirmed.rewinds
             ELSE \A i \in (Len(head') + 1)..Len(head) : head[i] \in 1..Steps
     /\ list # NoList /\ list' = NoList => list.left = 1 \/ job.mode = "abort list"
     /\ (At("forget") /\ job.mode = "abort" /\ file' = NoSequence
           /\ ~disturbed /\ ~ByHand(job.st)) =>
          head = job.st.original /\ op = NoOp /\ index = "clean"]_vars
BY TakesBackItsOwn, LosesOnlyWhatIsDone, LeavesNothing

-----------------------------------------------------------------------------
(* Every behaviour *)

(* No branch is merged twice, signed commits or not, whatever merges, squash merges, amends, *)
(* aborts, leftovers and commits by hand come in between, and however often hooks and calls  *)
(* fail (start_merge, commit_with, merge_changed, clear_leftover).                           *)
THEOREM NoneMergedTwice == HistorySpec => []Merging!MergedOnce
<1>1. HistoryInit => OnceInv
  BY Starts DEF HistoryInit, RightInv
<1>2. ASSUME OnceInv, [HistoryNext]_<<vars, mergeVars, focus>> PROVE OnceInv'
  <2>1. CASE Merging!Next
    BY <1>2, <2>1, StepKeeps
  <2>2. CASE UNCHANGED mergeVars
    BY <1>2, <2>2, RestKeeps
  <2> QED BY <1>2, <2>1, <2>2 DEF HistoryNext
<1>3. OnceInv => Merging!MergedOnce
  BY DEF OnceInv, Distinct, Merging!MergedOnce
<1> QED BY <1>1, <1>2, <1>3, PTL DEF HistorySpec

(* Where nobody acts while a commit is signed, every merge commit holds the merge it names,  *)
(* every picked change keeps its author and no other gets it, and MERGE_HEAD goes with its   *)
(* own commit alone (commit_with, amend_head, pick_already_committed, cleanup_after_commit). *)
THEOREM CommitsStayRight ==
  ASSUME ~Signs
  PROVE  HistorySpec => CommitsAreRight
<1>1. HistoryInit => RightInv
  BY Starts DEF HistoryInit
<1>2. ASSUME RightInv, [HistoryNext]_<<vars, mergeVars, focus>> PROVE RightInv'
  <2>1. CASE Merging!Next
    BY <1>2, <2>1, StepKeeps DEF RightInv
  <2>2. CASE UNCHANGED mergeVars
    BY <1>2, <2>2, RestKeeps DEF RightInv
  <2> QED BY <1>2, <2>1, <2>2 DEF HistoryNext
<1>3. RightInv => Merging!MergedOnce /\ Merging!ParentsMatchTree /\ Merging!AuthorsAreRight
  BY DEF RightInv, OnceInv, Distinct, StateRight, Matching, Authored, JobRight, HasLanded,
     Merging!MergedOnce, Merging!ParentsMatchTree, Merging!AuthorsAreRight, Merging!At
<1>4. ASSUME RightInv, [HistoryNext]_<<vars, mergeVars, focus>>
      PROVE  [Merging!ConcludesItsOwn]_mergeVars
  BY <1>4, StepConcludes DEF HistoryNext
<1> QED BY <1>1, <1>2, <1>3, <1>4, PTL DEF HistorySpec, CommitsAreRight

(* Whatever fails, is cancelled, crashes or is done by hand, and however often a sequence is *)
(* continued or aborted, no step stands twice in a branch and none out of its order (run,    *)
(* continue_sequence, is_leftover_of_committed_step, is_step_committed_by_hand).             *)
THEOREM StepsStayInOrder == HistorySpec => []StepsOnceInOrder
<1>1. HistoryInit => SeqInv
  BY SequenceStarts DEF HistoryInit
<1>2. SeqInv /\ [HistoryNext]_<<vars, mergeVars, focus>> => SeqInv'
  BY SequenceGoesOn DEF HistoryNext
<1> QED BY <1>1, <1>2, InOrder, PTL DEF HistorySpec

(* A stopped sequence nobody has disturbed can be continued once its conflicts are resolved, *)
(* and where a pick is paused there is an Abort that ends it, after a crash or a failed save *)
(* too (persist, continue_sequence, abort_sequence, abort_merge_refusal).                    *)
THEOREM NobodyIsStuck == HistorySpec => []NeverStuck
<1>1. HistoryInit => SeqInv
  BY SequenceStarts DEF HistoryInit
<1>2. SeqInv /\ [HistoryNext]_<<vars, mergeVars, focus>> => SeqInv'
  BY SequenceGoesOn DEF HistoryNext
<1> QED BY <1>1, <1>2, NotStuck, PTL DEF HistorySpec

(* Abort takes back the commits of its own sequence alone, moves no other branch, leaves a   *)
(* list to its own Abort with what its dialog has shown, and where nobody disturbed the      *)
(* sequence leaves nothing of it behind, however often it had to be tried (abort_sequence,   *)
(* abort_terminal_sequence, rewind_to, apply_operation_reset, clear_commit_state).           *)
THEOREM AbortsTakeBackTheirOwn == HistorySpec => AbortTakesBackItsOwn
<1>1. HistoryInit => SeqInv
  BY SequenceStarts DEF HistoryInit
<1>2. SeqInv /\ [HistoryNext]_<<vars, mergeVars, focus>> => SeqInv'
  BY SequenceGoesOn DEF HistoryNext
<1>3. [HistoryNext]_<<vars, mergeVars, focus>> => [Next]_vars
  BY DEF HistoryNext
<1> QED BY <1>1, <1>2, <1>3, AbortsStepwise, PTL DEF HistorySpec, AbortTakesBackItsOwn
=============================================================================
