------------------------------- MODULE Checkouts -------------------------------
(***************************************************************************)
(* Operations that check out a tree with libgit2: switching, fast-forwards,  *)
(* pulls, picks, resets, discards and aborts (git-core's branch, reset,      *)
(* stage, merge, remote and pick), with what they do so that libgit2 never   *)
(* writes through a symbolic link (worktree_guard) and so that a checkout    *)
(* another program stops half-way can be tried again (partial_checkout).     *)
(*                                                                           *)
(* A tree gives each name an entry, a file's version or a link; a folder is  *)
(* there by what is below it.  On a file system that folds case two names    *)
(* may be one spot.  The checks of an operation and its clearing of links    *)
(* come right before libgit2's checkout; what libgit2 does is external.      *)
(***************************************************************************)
EXTENDS Naturals, FiniteSets

CONSTANTS
  Names,     \* paths
  Parents,   \* the folder of each name that is in one
  Twins,     \* each name as a file system that folds case compares it
  Trees,     \* the trees commits have
  Ignored,   \* names .gitignore lists
  MaxTries   \* bound: how often one operation is tried

CommitEntries == {"none", "a", "b", "link", "link2"}   \* in commits and in the index
ParentsOf(n) == IF n \in DOMAIN Parents THEN {Parents[n]} ELSE {}

\* A name lies in one folder at most, and one spot does so under each of its names.
ASSUME NamesAssumption ==
  /\ \A n \in DOMAIN Parents : n \in Names /\ Parents[n] \in Names \ DOMAIN Parents
  /\ Twins \in [Names -> Names] /\ \A n \in Names : Twins[Twins[n]] = Twins[n]
  /\ \A n, m \in Names : Twins[n] = Twins[m] =>
       {Twins[p] : p \in ParentsOf(n)} = {Twins[p] : p \in ParentsOf(m)}

\* No commit has anything below a file or a link, nor a file under two names of one spot, or
\* at the spot of a link or folder of its own: what is left of those is libgit2's choice.
ASSUME TreesAssumption ==
  /\ Trees \subseteq [Names -> CommitEntries]
  /\ \A t \in Trees, n, m \in Names : t[n] # "none" /\ t[m] # "none" =>
       /\ n \notin ParentsOf(m)
       /\ t[n] \in {"a", "b"} /\ n # m => Twins[n] \notin {Twins[k] : k \in {m} \cup ParentsOf(m)}

VARIABLES
  caseRule,  \* what the platform and core.ignorecase say
  head, index,
  disk,      \* what stands at each spot of the work tree
  beyond,    \* something was written or removed through a link
  merging,   \* a merge, pick or revert is in progress
  locked,    \* a file another program holds open, or "none"
  job,       \* the operation
  before,    \* ghost: index, disk and head when it was (last) begun
  tried

coVars == <<caseRule, head, index, disk, beyond, merging, locked, job, before, tried>>

LinkEntries == {"link", "link2"}
IsLink(e) == e \in LinkEntries
IsFile(e) == e \in {"a", "b", "mine"}
Below(p) == {n \in Names : p \in ParentsOf(n)}

RollsBack == {"pull", "pick"}
SafeOps == {"switch", "pull", "pick"}
ForcedOps == {"hard", "discard", "abort"}

Folding == caseRule # "exact"
IgnoreCase == caseRule = "folds"            \* core.ignorecase
SettingUnreadable == caseRule = "unreadable"
Spot(n) == IF Folding THEN Twins[n] ELSE n
OnDisk(d, n) == d[Spot(n)]

\* A forced checkout with literal paths takes those and what is below them.
Selected(n, paths, ignoring) ==
  \E w \in paths, m \in {n} \cup ParentsOf(n) :
    IF ignoring THEN Twins[m] = Twins[w] ELSE m = w

(* What a checkout of a source would write through: a link in a folder's place, and, where   *)
(* files matter, a link in a file's place (Scanner::scan).                                   *)
FolderLinks(source, paths, d) ==
  {p \in Names : IsLink(OnDisk(d, p))
     /\ \E n \in Below(p) : source[n] # "none" /\ Selected(n, paths, IgnoreCase)}

LeafLinks(source, paths, d) ==
  {n \in Names : /\ IsFile(source[n]) /\ Selected(n, paths, IgnoreCase)
                 /\ IsLink(OnDisk(d, n))
                 /\ \A p \in ParentsOf(n) : OnDisk(d, p) = "folder"}

Scan(source, paths, d) == FolderLinks(source, paths, d) \cup LeafLinks(source, paths, d)

(* A link and a folder of one tree whose names differ in case only: such pairs.               *)
Collisions(t, paths) ==
  {c \in Names \X Names :
     /\ IsLink(t[c[1]]) /\ Selected(c[1], paths, TRUE)
     /\ \E n \in Below(c[2]) : t[n] # "none" /\ Selected(n, paths, TRUE)
     /\ Twins[c[1]] = Twins[c[2]]}

\* One the user already has, with the very same link, may come back.
BringsCollision(t, paths) ==
  /\ Folding
  /\ \E c \in Collisions(t, paths) : c \notin Collisions(head, paths) \/ head[c[1]] # t[c[1]]

\* Git keeps no empty folder.
Content(e) == IF e = "folder" THEN "none" ELSE e

-----------------------------------------------------------------------------
(* The forced checkouts' preparation (prepare_forced_checkout): links in the way of what the *)
(* target, HEAD or the index has there are removed, but not one that HEAD itself tracks.     *)
\* A deviation: only the target's own paths are looked at.
Hazards_OfTarget(target, paths, d) ==
  {n \in Scan(target, paths, d) : ~IsLink(head[n])}

\* A deviation: every path of HEAD and the index is looked at.
Hazards_Everywhere(target, paths, d) ==
  {n \in Scan(target, paths, d) \cup Scan(head, Names, d) \cup Scan(index, Names, d) :
     ~IsLink(head[n])}

Hazards(target, paths, d) ==
  {n \in Scan(target, paths, d) \cup Scan(head, paths, d) \cup Scan(index, paths, d) :
     ~IsLink(head[n])}

PrepareRefuses(target, paths) == SettingUnreadable \/ BringsCollision(target, paths)

Cleared(d, hazards) ==
  [s \in Names |-> IF \E n \in hazards : Spot(n) = s THEN "none" ELSE d[s]]

(* The safe checkouts' check (refuse_linked_folders): a link where HEAD, the index or what   *)
(* comes in has a folder.  For a plain checkout a link HEAD tracks may stand: libgit2        *)
(* replaces it.                                                                              *)
LinkedFolder(target, merges) ==
  \/ FolderLinks(head, Names, disk) \cup FolderLinks(index, Names, disk) # {}
  \/ \E p \in FolderLinks(target, Names, disk) : merges \/ ~IsLink(head[p])

-----------------------------------------------------------------------------
(* libgit2's checkout: names that go first, then those that come, one at a time. Writing a   *)
(* name follows a link in its folder's place unless HEAD tracks that link and the checkout   *)
(* replaces it; a forced checkout follows a link in a file's own place unless HEAD tracks it. *)
Follows(n, d, merges) ==
  \E p \in ParentsOf(n) : IsLink(OnDisk(d, p)) /\ (merges \/ ~IsLink(head[p]))

\* What stands below a spot, whichever way the folder is spelt.
BelowSpot(s) == {m \in Names : \E p \in ParentsOf(m) : Spot(p) = s}

Emptied(d, n) ==
  [s \in Names |-> IF /\ d[s] = "folder" /\ \E p \in ParentsOf(n) : s = Spot(p)
                      /\ \A m \in BelowSpot(s) : d[Spot(m)] = "none"
                   THEN "none" ELSE d[s]]

Written(d, n, e) ==
  IF e = "none"
  THEN IF \/ d[Spot(n)] = "folder"
          \/ \E p \in ParentsOf(n) : d[Spot(p)] # "folder"
       THEN d ELSE Emptied([d EXCEPT ![Spot(n)] = "none"], n)
  ELSE [s \in Names |-> CASE s = Spot(n) -> e
                          [] \E p \in ParentsOf(n) : s = Spot(p) -> "folder"
                          [] \E m \in BelowSpot(Spot(n)) : s = Spot(m) -> "none"
                          [] OTHER -> d[s]]

WritesThrough(d, n, e, merges) ==
  \/ Follows(n, d, merges)
  \/ job.op \in ForcedOps /\ IsFile(e) /\ IsLink(OnDisk(d, n)) /\ ~IsLink(head[n])

(* A safe checkout refuses before it writes anything what the user changed or put there, but *)
(* not what it makes beyond a link, nor an ignored file. A switch lets a file be that is      *)
(* already as the target has it; a pick wants it as HEAD and the index have it, a pull wants *)
(* the whole work tree clean.                                                                *)
Clean ==
  /\ index = head
  /\ \A n \in Names :
       \/ OnDisk(disk, n) = head[n]
       \/ head[n] = "none" /\ (OnDisk(disk, n) = "folder" \/ n \in Ignored)
       \/ \E m \in Names : Spot(m) = Spot(n) /\ head[m] = OnDisk(disk, n)

Conflicts(op, target) ==
  \/ op = "pull" /\ ~Clean
  \/ \E n \in Names :
       /\ target[n] # head[n]
       /\ IF \E p \in ParentsOf(n) : IsLink(OnDisk(disk, p))
          THEN head[n] # "none" \/ \E p \in ParentsOf(n) : IsLink(head[p]) /\ OnDisk(disk, p) # head[p]
          ELSE \/ head[n] # "none" /\ OnDisk(disk, n) # head[n]
                  /\ (op = "switch" => OnDisk(disk, n) # target[n])
               \/ op = "pick" /\ index[n] # head[n]
               \/ head[n] = "none" /\ OnDisk(disk, n) # "none" /\ n \notin Ignored
               \/ target[n] # "none" /\ \E p \in ParentsOf(n) : IsFile(OnDisk(disk, p))

-----------------------------------------------------------------------------
NoJob == [op |-> "none", target |-> head, paths |-> {}, pc |-> "idle", outcome |-> "none",
          todo |-> {}, written |-> {}, hazards |-> {}]

Merges(op) == op = "pick"

Idle == job.pc = "idle"
End(outcome) == job' = [job EXCEPT !.pc = "idle", !.outcome = outcome]
Repo == <<head, index, disk, beyond, merging>>

Start(op, target, paths, fields) ==
  /\ job' = [NoJob EXCEPT !.op = op, !.target = target, !.paths = paths,
                          !.pc = fields.pc, !.todo = fields.todo, !.hazards = fields.hazards,
                          !.outcome = fields.outcome]
  /\ before' = [head |-> head, index |-> index, disk |-> disk]
  /\ tried' = tried + 1
  /\ UNCHANGED <<caseRule, locked, head, index, disk, beyond, merging>>

Refused == [pc |-> "idle", todo |-> {}, hazards |-> {}, outcome |-> "refused"]

(* The first try chooses an operation; a later one is the same again, an abort with what is   *)
(* still to be put back.                                                                     *)
MayBegin(op, target, paths) ==
  /\ Idle /\ tried < MaxTries
  /\ tried > 0 => /\ job.outcome \in {"stopped", "undone", "half"}
                  /\ <<op, target>> = <<job.op, job.target>>
                  /\ op = "abort" \/ paths = job.paths

BeginSafe(op, target) ==
  /\ MayBegin(op, target, Names)
  /\ Start(op, target, Names,
       IF \/ LinkedFolder(target, Merges(op)) \/ SettingUnreadable \/ BringsCollision(target, Names)
          \/ Conflicts(op, target)
       THEN Refused
       ELSE [pc |-> "checkout", outcome |-> "none", hazards |-> {},
             todo |-> {n \in Names : target[n] # head[n]}])

(* A hard reset, a discard of one path (the index's entry) and an abort, which puts back     *)
(* what the operation touched and refuses if the user changed that again.                    *)
Touched == {n \in Names : index[n] # head[n]}

WouldDiscard ==
  \E n \in Touched :
    IF \E p \in ParentsOf(n) : OnDisk(disk, p) # "folder" THEN FALSE
    ELSE OnDisk(disk, n) \notin {"none", index[n]}

\* Beyond a link, below a file, or a folder that holds what no snapshot keeps.
DiscardRefuses(n) ==
  \/ \E p \in ParentsOf(n) : IsLink(OnDisk(disk, p)) \/ IsFile(OnDisk(disk, p))
  \/ OnDisk(disk, n) = "folder" /\ \E m \in Below(n) \cap Ignored : OnDisk(disk, m) # "none"

BeginForced(op, target, paths) ==
  /\ MayBegin(op, target, paths)
  /\ Start(op, target, paths,
       IF \/ op = "abort" /\ WouldDiscard
          \/ op = "discard" /\ \E n \in paths : DiscardRefuses(n)
          \/ PrepareRefuses(target, paths)
       THEN Refused
       ELSE [pc |-> "clear", outcome |-> "none", hazards |-> Hazards(target, paths, disk),
             todo |-> {n \in Names : /\ Selected(n, paths, IgnoreCase)
                                     /\ target[n] # "none" \/ head[n] # "none" \/ index[n] # "none"}])

Begin ==
  \/ \E t \in Trees :
       \/ \E op \in SafeOps : (op = "pick" => ~merging) /\ BeginSafe(op, t)
       \/ ~merging /\ BeginForced("hard", t, Names)
  \/ \E n \in Names : index[n] # "none" /\ BeginForced("discard", index, {n})
  \/ merging /\ BeginForced("abort", head, Touched)

ClearLinks ==
  /\ job.pc = "clear"
  /\ disk' = Cleared(disk, job.hazards)
  /\ job' = [job EXCEPT !.pc = "checkout"]
  /\ UNCHANGED <<caseRule, head, index, beyond, merging, locked, before, tried>>

Ready ==
  LET gone == {n \in job.todo : job.target[n] = "none"}
  IN  IF gone # {} THEN gone ELSE job.todo

Reached(n) ==
  LET e == job.target[n]
  IN  /\ job' = [job EXCEPT !.todo = @ \ {n}, !.written = @ \cup {n}]
      /\ IF e = "none" /\ \E m \in Names \ {n} : Spot(m) = Spot(n) /\ job.target[m] # "none"
         THEN UNCHANGED <<disk, beyond>>
         ELSE IF WritesThrough(disk, n, e, Merges(job.op))
         THEN beyond' = TRUE /\ UNCHANGED disk
         ELSE disk' = Written(disk, n, e) /\ UNCHANGED beyond

CheckoutFile ==
  /\ job.pc = "checkout" /\ job.todo # {}
  /\ \E n \in Ready : n # locked /\ Reached(n)
  /\ UNCHANGED <<caseRule, head, index, merging, locked, before, tried>>

(* At a file another program holds open, or may not be written, it stops: the index on disk  *)
(* is still the old one.                                                                     *)
CheckoutStops ==
  /\ job.pc = "checkout"
  /\ \E n \in Ready : locked \in {n, "none"} /\ locked' = n
  /\ job' = IF job.op \in RollsBack \cup {"abort"} THEN [job EXCEPT !.pc = "undo"]
            ELSE [job EXCEPT !.pc = "idle", !.outcome = "stopped"]
  /\ UNCHANGED <<caseRule, head, index, disk, beyond, merging, before, tried>>

-----------------------------------------------------------------------------
(* Restored: a forced checkout of some paths of a source, prepared like every other.         *)
Restored(d, source, paths) ==
  LET clear == Cleared(d, Hazards(source, paths, d))
  IN  [s \in Names |->
         IF \E n \in paths : Spot(n) = s /\ source[n] # "none"
         THEN source[CHOOSE n \in paths : Spot(n) = s /\ source[n] # "none"]
         ELSE IF \E n \in paths : source[n] # "none" /\ \E p \in ParentsOf(n) : Spot(p) = s
         THEN "folder" ELSE clear[s]]

Without(d, created) ==
  LET gone == [s \in Names |->
                 IF \E n \in created : Spot(n) = s /\ d[s] # "folder" THEN "none" ELSE d[s]]
  IN  [s \in Names |->
         IF /\ gone[s] = "folder"
            /\ \E n \in created : \E p \in ParentsOf(n) : Spot(p) = s
            /\ \A m \in BelowSpot(s) : gone[Spot(m)] = "none"
         THEN "none" ELSE gone[s]]

\* A deviation: what the checkout created stays.
RolledBack_Tracked(d, written) ==
  Restored(d, index, {n \in written : index[n] # "none"})

(* roll_back: what the index has comes back from it, what it does not have is removed, with  *)
(* folders that emptied.                                                                     *)
RolledBack(d, written) ==
  LET tracked == {n \in written : index[n] # "none"}
      first == Restored(d, index, tracked)
  IN  Restored(Without(first, written \ tracked), index, tracked)

RollBack ==
  /\ job.pc = "undo" /\ job.op \in RollsBack
  /\ \E failed \in {{}} \cup {{n} : n \in job.written} :
       /\ disk' = RolledBack(disk, job.written \ failed)
       /\ End(IF failed = {} THEN "undone" ELSE "half")
  /\ UNCHANGED <<caseRule, head, index, beyond, merging, locked, before, tried>>

\* A deviation: the index is left for the abort to come.
Forwarded_DiskOnly(written) == index

(* roll_forward: what an abort has put back is put back in the index as well.                *)
Forwarded(written) == [n \in Names |-> IF n \in written THEN head[n] ELSE index[n]]

RollForward ==
  /\ job.pc = "undo" /\ job.op = "abort"
  /\ \/ /\ disk' = Restored(disk, head, {n \in job.written : head[n] # "none"})
        /\ index' = Forwarded(job.written)
        /\ End("undone")
     \/ End("half") /\ UNCHANGED <<disk, index>>
  /\ UNCHANGED <<caseRule, head, beyond, merging, locked, before, tried>>

-----------------------------------------------------------------------------
(* The checkout is through: libgit2 writes the index, the operation moves HEAD. A hard reset *)
(* moves HEAD first.                                                                         *)
CheckoutEnds ==
  /\ job.pc = "checkout" /\ job.todo = {}
  /\ CASE job.op \in SafeOps ->
            /\ index' = [n \in Names |-> IF n \in job.written THEN job.target[n] ELSE index[n]]
            /\ job' = [job EXCEPT !.pc = "head"] /\ UNCHANGED <<head, merging>>
       [] job.op = "hard" ->
            head' = job.target /\ job' = [job EXCEPT !.pc = "index"] /\ UNCHANGED <<index, merging>>
       [] job.op = "abort" ->
            index' = head /\ merging' = FALSE /\ End("done") /\ UNCHANGED head
       [] OTHER -> End("done") /\ UNCHANGED <<head, index, merging>>
  /\ UNCHANGED <<caseRule, disk, beyond, locked, before, tried>>

MoveHead ==
  /\ job.pc = "head"
  /\ IF job.op = "pick" THEN merging' = TRUE /\ UNCHANGED head
                        ELSE head' = job.target /\ UNCHANGED merging
  /\ End("done")
  /\ UNCHANGED <<caseRule, index, disk, beyond, locked, before, tried>>

ResetIndex ==
  /\ job.pc = "index"
  /\ index' = job.target
  /\ End("done")
  /\ UNCHANGED <<caseRule, head, disk, beyond, merging, locked, before, tried>>

FileClosed ==
  /\ Idle /\ locked # "none" /\ tried > 0
  /\ locked' = "none"
  /\ UNCHANGED <<caseRule, head, index, disk, beyond, merging, job, before, tried>>

\* What the work tree can look like: anything, with nothing below what is no folder.
Disks ==
  LET Stands(n) == {"none", "link"} \cup {t[n] : t \in Trees}
                   \cup (IF Twins[n] = n THEN {"mine"} ELSE {})
                   \cup (IF Below(n) # {} THEN {"folder"} ELSE {})
  IN  {d \in [Names -> UNION {Stands(n) : n \in Names}] :
         \A n \in Names : /\ d[n] \in Stands(n)
                          /\ Spot(n) # n => d[n] = "none"
                          /\ d[n] # "none" => \A p \in ParentsOf(n) : OnDisk(d, p) = "folder"}

CoInit ==
  /\ caseRule \in {"exact", "folds", "mac", "unreadable"}
  /\ head \in Trees /\ index \in Trees
  /\ merging \in BOOLEAN /\ (merging \/ index = head)
  /\ disk \in Disks
  /\ beyond = FALSE
  /\ locked = "none"
  /\ job = NoJob
  /\ before = [head |-> head, index |-> index, disk |-> disk]
  /\ tried = 0

CoNext ==
  \/ Begin \/ ClearLinks \/ CheckoutFile \/ CheckoutStops \/ RollBack \/ RollForward
  \/ CheckoutEnds \/ MoveHead \/ ResetIndex \/ FileClosed

-----------------------------------------------------------------------------
\* HEAD itself holds a link and a folder that are one name here: both cannot be checked out.
Impossible == Folding /\ Collisions(before.head, Names) # {}

\* Nothing outside the work tree is written or removed through a link, unless HEAD itself
\* holds a link and a folder that are one name.
ThroughNoLink == beyond => Impossible

Wanted(s) ==
  \E t \in {before.head, before.index, job.target}, n \in Names :
    /\ t[n] # "none" /\ Selected(n, job.paths, TRUE)
    /\ s \in {Spot(m) : m \in {n} \cup ParentsOf(n) \cup BelowSpot(Spot(n))}

\* What is refused is refused before anything has changed, and a link of the user's goes
\* only if it stands where HEAD, the index or the target has something the operation is for.
LinksOfTheUserStay ==
  /\ job.outcome = "refused" => before = [head |-> head, index |-> index, disk |-> disk]
  /\ \A s \in Names : IsLink(before.disk[s]) /\ disk[s] # before.disk[s] => Wanted(s)

(* A forced checkout neither writes through a link of the work tree, whatever the file       *)
(* system takes for one name, nor removes a link that is not in its way                      *)
(* (prepare_forced_checkout, refuse_linked_folders, clear_hazard).                           *)
LinksAreRespected == ThroughNoLink /\ LinksOfTheUserStay

(* A pull or pick that stopped half-way has left nothing changed but ignored files it wrote  *)
(* over, and an abort that stopped is not refused for what it has itself put back: both can  *)
(* be tried again (roll_back, roll_forward).                                                 *)
StoppedCanBeRetried ==
  /\ [](job.outcome = "undone" /\ job.op \in RollsBack /\ ~Impossible =>
          /\ head = before.head /\ index = before.index
          /\ \A n \in Names : \/ Content(OnDisk(disk, n)) = Content(OnDisk(before.disk, n))
                              \/ n \in Ignored /\ index[n] = "none")
  /\ [][job.op = "abort" /\ job.outcome = "undone" /\ tried' > tried /\ ~Impossible
          => job'.outcome # "refused"]_coVars
=============================================================================
