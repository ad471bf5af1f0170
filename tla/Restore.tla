--------------------------------- MODULE Restore ---------------------------------
(***************************************************************************)
(* Putting one snapshot of a repository back over another, for Undo and for  *)
(* Redo (git-core's undo): what a snapshot records, what is compared before  *)
(* anything is written, the writes in their order and where they may stop.   *)
(* The user and terminals change things between the tries, not during one.   *)
(* A tree gives each path a blob or "none"; a file that a filter smudges has *)
(* other bytes on disk.  A folder is there by what is below it.              *)
(***************************************************************************)
EXTENDS Naturals, Sequences, SequencesExt, FiniteSets

CONSTANTS
  Ordered, FolderAbove,  \* the paths as a snapshot sorts them; the folder of each in one
  IgnoreFile, Rules,     \* .gitignore, and what each of its versions ignores
  Smudged,               \* filtered path -> blob -> its bytes once checked out
  TreeAt,                \* commit -> its tree
  Worlds,                \* repositories an operation may start from
  MaxEdits, MaxTries     \* bounds: what the user changes, and how often he asks

IsWorld(w) ==
  /\ w = [disk |-> w.disk, idx |-> w.idx, refs |-> w.refs, at |-> w.at]
  /\ DOMAIN w.disk = ToSet(Ordered)
  /\ w.refs = [r \in DOMAIN w.refs |-> w.refs[r]] /\ IsFiniteSet(DOMAIN w.refs)

ASSUME RestoreAssumption == Ordered \in Seq(ToSet(Ordered)) /\ \A w \in Worlds : IsWorld(w)

VARIABLES
  present,    \* the repository: disk, index, refs, HEAD
  entry,      \* the two snapshots of the entry, and the worlds they were taken in (ghost)
  onto,       \* the snapshot Undo or Redo is to go to
  elsewhere,  \* branches on which other worktrees have their HEAD
  underway,   \* "nothing", an "operation" of git, or "conflicts" in the index alone
  tried,      \* how the last try ended
  touched,    \* ghost: what was changed since the entry was made
  tries, edits

restoreVars == <<present, entry, onto, elsewhere, underway, tried, touched, tries, edits>>

Files == ToSet(Ordered)
Blobs == {"a", "b"}
Above(p) == IF p \in DOMAIN FolderAbove THEN {FolderAbove[p]} ELSE {}
Below(f) == {p \in Files : f \in Above(p)}
Other(side) == IF side = "before" THEN "after" ELSE "before"
IsFolder(disk, p) == \E q \in Below(p) : disk[q] # "none"
Smudge(p, c) == IF p \in DOMAIN Smudged /\ c # "none" THEN Smudged[p][c] ELSE c
Clean(p, bytes) == IF \E c \in Blobs : Smudge(p, c) = bytes
                   THEN CHOOSE c \in Blobs : Smudge(p, c) = bytes ELSE bytes
IgnoredBy(disk, p) == p \in Rules[disk[IgnoreFile]]
CommitAt(w) == IF w.at \in DOMAIN TreeAt THEN w.at ELSE w.refs[w.at]

-----------------------------------------------------------------------------
(* What status reports, and a snapshot of the work tree overlays on HEAD's tree as it is on  *)
(* disk.                                                                                     *)
Unstaged(w, p) ==
  IF w.idx[p] # "none" THEN Clean(p, w.disk[p]) # w.idx[p]
  ELSE w.disk[p] # "none" /\ ~IgnoredBy(w.disk, p)
Reported(w, p) == Unstaged(w, p) \/ w.idx[p] # TreeAt[CommitAt(w)][p]

Recorded(w, p) == IF Reported(w, p) THEN w.disk[p] ELSE TreeAt[CommitAt(w)][p]

Capture(w, scope) ==
  [at |-> w.at, refs |-> w.refs, idx |-> w.idx, full |-> scope = "full",
   tree |-> [p \in Files |-> IF scope = "full" THEN Recorded(w, p) ELSE "none"]]

From == entry[Other(onto)].snapshot
To == entry[onto].snapshot

-----------------------------------------------------------------------------
ChangedPaths == {p \in Files : From.full /\ From.tree[p] # To.tree[p]}
RefsChanged == {r \in DOMAIN From.refs : From.refs[r] # To.refs[r]}
IndexDiffers == From.idx # To.idx
Tracked(p) == From.idx[p] # "none" \/ To.idx[p] # "none"
Wanted(p) == To.tree[p] # "none"
WantedBelow(p) == \E q \in Below(p) : Wanted(q)

(* Checked out from the index, once that is written, and not as raw bytes.                   *)
FromIndex(current) ==
  {p \in ChangedPaths \ {IgnoreFile} :
     Wanted(p) /\ To.idx[p] = To.tree[p] /\ (IndexDiffers \/ current[p] = To.tree[p])}

CleanAgainstIndex(p, blob) ==
  /\ blob # "none" /\ present.idx[p] = blob
  /\ present.disk[p] # "none" /\ Clean(p, present.disk[p]) = present.idx[p]

\* A deviation: what a stopped restore wrote counts as a change of the user's.
AlreadyRestored_Never(p) == FALSE

AlreadyRestored(p) ==
  IF Wanted(p) THEN present.disk[p] = To.tree[p]
  ELSE present.disk[p] = "none" /\ (IsFolder(present.disk, p) => WantedBelow(p))

IgnoredUntouched(p) ==
  /\ From.tree[p] = "none" /\ present.disk[p] # "none" /\ IgnoredBy(present.disk, p)
  /\ Wanted(p) => present.disk[p] = To.tree[p]

\* A deviation: an ignored file may go whatever it is.
AsExpected_AnyIgnored(p) ==
  \/ present.disk[p] = From.tree[p]
  \/ CleanAgainstIndex(p, From.tree[p])
  \/ AlreadyRestored(p)
  \/ p \in FromIndex(present.idx) /\ CleanAgainstIndex(p, To.tree[p])
  \/ From.tree[p] = "none" /\ IgnoredBy(present.disk, p)

AsExpected(p) ==
  \/ present.disk[p] = From.tree[p]
  \/ CleanAgainstIndex(p, From.tree[p])
  \/ AlreadyRestored(p)
  \/ p \in FromIndex(present.idx) /\ CleanAgainstIndex(p, To.tree[p])
  \/ IgnoredUntouched(p)

(* A folder that is to become a file holds nothing but what goes.                            *)
Removable(p) ==
  Wanted(p) => \A q \in Below(p) : present.disk[q] # "none" => q \in ChangedPaths /\ ~Wanted(q) /\ Tracked(q)

\* A deviation: an index that a stopped restore wrote counts as a change.
IndexAsExpected_OnlyFrom == IndexDiffers => present.idx = From.idx

IndexAsExpected ==
  IndexDiffers => underway # "conflicts" /\ present.idx \in {From.idx, To.idx}

BranchesFree ==
  /\ RefsChanged \cap elsewhere = {}
  /\ From.at # To.at => To.at \notin elsewhere
  /\ (From.at = To.at /\ present.at \in RefsChanged /\ To.refs[present.at] = "none") => To.at = present.at

Refused ==
  \/ underway = "operation"
  \/ From.at # To.at /\ present.at # From.at
  \/ \E r \in RefsChanged : present.refs[r] # From.refs[r]
  \/ ~BranchesFree
  \/ ~IndexAsExpected
  \/ \E p \in ChangedPaths : ~AsExpected(p) \/ ~Removable(p)

-----------------------------------------------------------------------------
(* The writes, in their order: ignore files, deletions, raw writes, the index, the checkout  *)
(* from it, the refs, HEAD.                                                                   *)
InOrder(S) ==
  LET chosen[n \in 0..Len(Ordered)] ==
        IF n = 0 THEN <<>>
        ELSE IF Ordered[n] \in S THEN Append(chosen[n - 1], Ordered[n]) ELSE chosen[n - 1]
  IN  chosen[Len(Ordered)]
Step(do, S) == LET ps == InOrder(S) IN [i \in DOMAIN ps |-> [do |-> do, on |-> ps[i]]]
Single(do, needed) == IF needed THEN <<[do |-> do, on |-> IgnoreFile]>> ELSE <<>>

Program ==
  LET others == ChangedPaths \ {IgnoreFile}
  IN  Step(IF Wanted(IgnoreFile) THEN "write" ELSE "delete", ChangedPaths \cap {IgnoreFile})
      \o Step("delete", {p \in others : ~Wanted(p)})
      \o Step("write", {p \in others : Wanted(p)} \ FromIndex(present.idx))
      \o Single("index", IndexDiffers)
      \o Step("check out", FromIndex(present.idx))
      \o [i \in 1..Cardinality(RefsChanged) |-> [do |-> "ref", on |-> SetToSeq(RefsChanged)[i]]]
      \o Single("head", From.at # To.at)

Deleted(w, p) ==
  IF \/ p # IgnoreFile /\ ~Tracked(p) /\ IgnoredBy(w.disk, p) /\ w.disk[p] # "none"
     \/ IsFolder(w.disk, p) /\ WantedBelow(p)
  THEN w ELSE [w EXCEPT !.disk[p] = "none"]

Raw(w, p) == [w EXCEPT !.disk[p] = To.tree[p]]

(* libgit2 checks out by force, and a file in the way goes; but it passes over a file where  *)
(* HEAD has a folder, whose blob is then written if nothing is there.                        *)
NotCheckedOut(w, p) == \E q \in Below(p) : TreeAt[CommitAt(w)][q] # "none"
CheckedOut(w, p) ==
  IF NotCheckedOut(w, p)
  THEN IF w.disk[p] = "none" /\ ~IsFolder(w.disk, p) THEN Raw(w, p) ELSE w
  ELSE [w EXCEPT !.disk = [q \in Files |-> IF q = p THEN Smudge(p, w.idx[p])
                                           ELSE IF q \in Above(p) THEN "none" ELSE w.disk[q]]]

Written(w, s) ==
  CASE s.do = "delete" -> Deleted(w, s.on)
    [] s.do = "write" -> Raw(w, s.on)
    [] s.do = "index" -> [w EXCEPT !.idx = To.idx]
    [] s.do = "check out" -> CheckedOut(w, s.on)
    [] s.do = "ref" -> [w EXCEPT !.refs[s.on] = To.refs[s.on]]
    [] OTHER -> [w EXCEPT !.at = To.at]

After(k) ==
  LET steps == Program
      after[n \in 0..Len(steps)] == IF n = 0 THEN present ELSE Written(after[n - 1], steps[n])
  IN  after[k]

(* A raw write fails where a file stands in the place of its folder, or a folder in its own. *)
Fails(w, s) ==
  s.do = "write" /\ ((\E f \in Above(s.on) : w.disk[f] # "none") \/ IsFolder(w.disk, s.on))

Reach(k) == \A i \in 1..k : ~Fails(After(i - 1), Program[i])
Early(k) == \A i \in 1..k : Program[i].do \notin {"ref", "head"}

Refuse ==
  /\ Refused
  /\ tried' = "refused"
  /\ UNCHANGED <<present, onto, touched>>

Stop ==
  /\ ~Refused
  /\ \E k \in 0..(Len(Program) - 1) :
       /\ Reach(k)
       /\ present' = After(k)
       /\ tried' = IF Early(k) THEN "stopped" ELSE "stopped at the refs"
  /\ UNCHANGED <<onto, touched>>

Finish ==
  /\ ~Refused /\ Reach(Len(Program))
  /\ present' = After(Len(Program))
  /\ tried' = "done" /\ onto' = Other(onto)
  /\ UNCHANGED touched

Restore ==
  /\ tries < MaxTries /\ tried # "none"
  /\ Refuse \/ Stop \/ Finish
  /\ tries' = tries + 1
  /\ UNCHANGED <<entry, elsewhere, underway, edits>>

-----------------------------------------------------------------------------
(* The operation an entry is for: what it may make of a repository, and the scope of its     *)
(* snapshots.                                                                                 *)
Light(w) == [world |-> w, scope |-> "refs and index"]
Heavy(w) == [world |-> w, scope |-> "full"]
Fits(disk) == \A p \in Files : disk[p] # "none" => \A f \in Above(p) : disk[f] = "none"

\* Checked out by force, as a hard reset or a switch of a clean tree does; untracked files stay.
Reset(w, c) ==
  [w EXCEPT !.idx = TreeAt[c],
            !.disk = [p \in Files |->
              IF TreeAt[c][p] # "none" THEN Smudge(p, TreeAt[c][p])
              ELSE IF w.idx[p] # "none" THEN "none" ELSE w.disk[p]]]

Operations(w) ==
  {Light([w EXCEPT !.idx[p] = Clean(p, w.disk[p])]) : p \in Files}
    \cup {Light([w EXCEPT !.refs[w.at] = c]) :
            c \in {c \in DOMAIN TreeAt : w.at \in DOMAIN w.refs /\ TreeAt[c] = w.idx}}
    \cup (UNION {{Light([w EXCEPT !.refs[r] = c]) : c \in DOMAIN TreeAt \cup {"none"}} :
                  r \in DOMAIN w.refs \ {w.at}})
    \cup {Heavy([w EXCEPT !.disk[p] = Smudge(p, w.idx[p])]) : p \in {p \in Files : Unstaged(w, p)}}
    \cup {Heavy([w EXCEPT !.disk[IgnoreFile] = b]) : b \in Blobs}
    \cup {Heavy([Reset(w, c) EXCEPT !.refs[w.at] = c]) :
            c \in {c \in DOMAIN TreeAt : w.at \in DOMAIN w.refs}}
    \cup {Heavy([Reset(w, c) EXCEPT !.at = c]) : c \in DOMAIN TreeAt}

RunOperation ==
  /\ tried = "none"
  /\ \E o \in Operations(present) :
       /\ o.world # present /\ Fits(o.world.disk)
       /\ present' = o.world
       /\ entry' = [before |-> [snapshot |-> Capture(present, o.scope), world |-> present],
                    after |-> [snapshot |-> Capture(o.world, o.scope), world |-> o.world]]
  /\ tried' = "done" /\ onto' = "before"
  /\ UNCHANGED <<elsewhere, underway, touched, tries, edits>>

(* The user edits, stages or commits, merges or applies a stash, another worktree switches.  *)
EditFile(p, bytes) ==
  /\ present' = [present EXCEPT !.disk[p] = bytes] /\ present' # present
  /\ Fits(present'.disk) /\ touched' = touched \cup {p}
  /\ UNCHANGED <<elsewhere, underway>>

StageByHand(p) ==
  /\ present' = [present EXCEPT !.idx[p] = Clean(p, present.disk[p])] /\ present' # present
  /\ touched' = touched \cup {"index"}
  /\ UNCHANGED <<elsewhere, underway>>

MoveRef(r, c) ==
  /\ present' = [present EXCEPT !.refs[r] = c] /\ present' # present
  /\ touched' = touched \cup {"refs"}
  /\ UNCHANGED <<elsewhere, underway>>

SwitchByHand(r) ==
  /\ present.refs[r] # "none" /\ TreeAt[present.refs[r]] = TreeAt[CommitAt(present)]
  /\ present' = [present EXCEPT !.at = r] /\ present' # present
  /\ touched' = touched \cup {"refs"}
  /\ UNCHANGED <<elsewhere, underway>>

HoldElsewhere(r) ==
  /\ present.refs[r] # "none" /\ r # present.at
  /\ elsewhere' = {r} /\ elsewhere' # elsewhere
  /\ touched' = touched \cup {"refs"}
  /\ UNCHANGED <<present, underway>>

OperateByHand ==
  /\ underway' \in {"nothing", "operation", "conflicts"} \ {underway}
  /\ touched' = touched \cup {"operation"}
  /\ UNCHANGED <<present, elsewhere>>

UserActs ==
  /\ tried # "none" /\ edits < MaxEdits
  /\ \/ \E p \in Files :
          \/ \E bytes \in Blobs \cup {"none"} : EditFile(p, bytes)
          \/ StageByHand(p)
     \/ \E r \in DOMAIN present.refs :
          \/ \E c \in DOMAIN TreeAt : MoveRef(r, c)
          \/ SwitchByHand(r) \/ HoldElsewhere(r)
     \/ OperateByHand
  /\ edits' = edits + 1
  /\ UNCHANGED <<entry, onto, tried, tries>>

RestoreInit ==
  /\ present \in Worlds
  /\ entry = [side \in {"before", "after"} |->
                [snapshot |-> Capture(present, "refs and index"), world |-> present]]
  /\ onto = "before" /\ elsewhere = {} /\ underway = "nothing" /\ tried = "none"
  /\ touched = {} /\ tries = 0 /\ edits = 0

RestoreNext == RunOperation \/ Restore \/ UserActs
=============================================================================
