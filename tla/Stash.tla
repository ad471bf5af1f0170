---------------------------------- MODULE Stash ----------------------------------
(***************************************************************************)
(* Stashing everything or some paths, applying, popping and dropping a stash *)
(* (git-core's stash).  libgit2's own stash (external) records what it       *)
(* records and then resets the work tree by force; the checks before it keep *)
(* that reset from what no stash holds, and what it would get wrong takes    *)
(* Browsitory's own, path-limited way.                                       *)
(*                                                                           *)
(* Trees, the index and the work tree give each path an entry, a file's      *)
(* version, "link", "repo" (a nested repository) or "none"; a folder is      *)
(* there by what is below it.                                                *)
(***************************************************************************)
EXTENDS Naturals, Sequences, SequencesExt, FiniteSets

CONSTANTS
  StashPaths, HolderOf,  \* paths, and the folder of each that is in one
  Heads,                 \* the trees HEAD may have
  IgnoreRules,           \* sets of paths .gitignore may list
  Picks,                 \* what Stash file... may name; {} is Stash all
  MaxChanges             \* bound: how many paths of the work tree differ from HEAD at first

VARIABLES
  top, idx, wt,   \* HEAD's tree, the index, the work tree
  rules,          \* what is ignored
  list,           \* refs/stash's log, newest first
  wroteBeyond,    \* something was written through a link
  stashing,       \* the operation: its kind, options, how far it is
  listed,         \* the list as the user saw it when he chose
  was,            \* ghost: everything there was before the operation
  saved,          \* ghost: the same for the save, or that something changed since
  raced           \* ghost: another tool changed the list during a pop

stashVars == <<top, idx, wt, rules, list, wroteBeyond, stashing, listed, was,
               saved, raced>>

Empty == [p \in StashPaths |-> "none"]
Holders(p) == IF p \in DOMAIN HolderOf THEN {HolderOf[p]} ELSE {}
Held(f) == {p \in StashPaths : f \in Holders(p)}
Has(t, p) == t[p] # "none"
IsDir(t, f) == \E p \in Held(f) : Has(t, p)
\* Nothing stands below what is no folder.
IsTree(t) == \A p \in StashPaths : Has(t, p) => \A f \in Holders(p) : ~Has(t, f)
Plain(e) == e \notin {"none", "link", "repo"}
Unrepo(e) == IF e = "repo" THEN "none" ELSE e      \* what a tree can record
BelowLink(p) == \E f \in Holders(p) : wt[f] = "link"

\* A path lies in one folder at most, and HEAD is a tree.
ASSUME StashAssumption ==
  /\ \A p \in DOMAIN HolderOf : p \in StashPaths /\ HolderOf[p] \in StashPaths \ DOMAIN HolderOf
  /\ \A t \in Heads : IsTree(t)

-----------------------------------------------------------------------------
(* Status.                                                                                   *)
IsIgnored(p) == \E q \in {p} \cup Holders(p) : q \in rules
IndexDeleted(p) == Has(top, p) /\ ~Has(idx, p)
WtNew(p) == ~Has(idx, p) /\ wt[p] \notin {"none", "repo"} /\ ~IsIgnored(p)
NewRepo(p) == wt[p] = "repo" /\ ~IsIgnored(p)
IgnoredEntry(p) ==
  IsIgnored(p) /\ (wt[p] = "repo" \/ (Has(wt, p) /\ ~Has(idx, p) /\ ~Has(top, p)))
Untracked(p) == WtNew(p) /\ ~Has(top, p)
TrackedChange(p) ==
  (idx[p] # top[p] \/ (Has(idx, p) /\ wt[p] # idx[p])) /\ ~Untracked(p)

\* Removed from the index, then ignored, alone or with its folder: no stash records it.
IgnoredOverwritten(p) == IndexDeleted(p) /\ ~WtNew(p) /\ wt[p] \notin {"none", "repo"}

-----------------------------------------------------------------------------
(* What a reset would delete or overwrite that the stash does not hold (entry_in_the_way).   *)
\* A deviation: ignored files are left to the reset.
InTheWay_Untracked(keep, untracked) ==
  LET back(p) == Has(top, p) \/ (keep /\ Has(idx, p))
  IN  \E p \in StashPaths :
        /\ ~untracked /\ Untracked(p) /\ wt[p] # "link"
        /\ \/ \E q \in Held(p) : back(q)
           \/ \E f \in Holders(p) : back(f)

InTheWay(keep, untracked) ==
  LET back(p) == Has(top, p) \/ (keep /\ Has(idx, p))
  IN  \E p \in StashPaths :
        \/ back(p) /\ IgnoredOverwritten(p)
        \/ /\ IgnoredEntry(p) \/ NewRepo(p)
              \/ (~untracked /\ Untracked(p) /\ wt[p] # "link")
           /\ \/ wt[p] = "repo" /\ back(p)
              \/ wt[p] # "repo" /\ \E q \in Held(p) : back(q)
              \/ \E f \in Holders(p) : back(f)

HasHazard ==
  \E t \in {top, idx}, p \in StashPaths :
    wt[p] = "link" /\ (IsDir(t, p) \/ Plain(t[p]))

KeptInUntrackedFolder ==
  \E k \in StashPaths : \E f \in Holders(k) :
    /\ IgnoredEntry(k) \/ NewRepo(k)
    /\ ~(\E p \in Held(f) : Has(idx, p)) \/ ~(\E p \in Held(f) : Has(top, p))
    /\ \E u \in Held(f) : Untracked(u)

EditRemovedFromIndex ==
  \E p \in StashPaths : IndexDeleted(p) /\ WtNew(p)

\* A deviation: a file kept in an untracked folder does not matter.
OwnWay_NoKept(untracked) == HasHazard \/ EditRemovedFromIndex

\* A deviation: an edit to a file removed from the index is left to libgit2.
OwnWay_NoEdit(untracked) == HasHazard \/ (untracked /\ KeptInUntrackedFolder)

OwnWay(untracked) ==
  HasHazard \/ (untracked /\ KeptInUntrackedFolder) \/ EditRemovedFromIndex

\* No stash there is, or the user saw, has it.
NewId == CHOOSE n \in 1..(Len(list) + Len(listed) + 1) :
           n \notin {list[i].id : i \in DOMAIN list} \cup ToSet(listed)

-----------------------------------------------------------------------------
(* libgit2's stash: what it records, and its reset by force, which takes whole an untracked  *)
(* folder that holds an untracked file.                                                      *)
WholeStash(untracked) ==
  [id |-> NewId, base |-> top, index |-> idx,
   work |-> [p \in StashPaths |->
               IF Has(idx, p) THEN Unrepo(wt[p])
               ELSE IF IndexDeleted(p) /\ WtNew(p) /\ \A f \in Holders(p) : IsDir(idx, f)
               THEN wt[p] ELSE "none"],
   untracked |-> [p \in StashPaths |-> IF untracked /\ WtNew(p) THEN wt[p] ELSE "none"]]

TakenWhole(f, target) == ~IsDir(idx, f) /\ ~IsDir(target, f) /\ \E u \in Held(f) : WtNew(u)

ResetTo(target, untracked) ==
  [p \in StashPaths |->
     IF Has(target, p) THEN target[p]
     ELSE IF \/ IsDir(target, p) \/ \E f \in Holders(p) : Has(target, f)
             \/ wt[p] # "repo" /\ (Has(idx, p) \/ Has(top, p))
             \/ untracked /\ (WtNew(p) \/ \E f \in Holders(p) : TakenWhole(f, target))
     THEN "none" ELSE wt[p]]

-----------------------------------------------------------------------------
(* The path-limited stash.                                                                   *)
Renames == {r \in StashPaths \X StashPaths :      \* staged: old, new
              IndexDeleted(r[1]) /\ ~Has(top, r[2]) /\ idx[r[2]] = top[r[1]]}
Selects(paths, p) == p \in paths \/ \E f \in Holders(p) : f \in paths

WithPartners(paths) ==
  paths \cup {r[1] : r \in {r \in Renames : Selects(paths, r[2])}}
        \cup {r[2] : r \in {r \in Renames : Selects(paths, r[1])}}

SourceRecreated(paths) ==
  \E r \in Renames : Selects(paths, r[2]) /\ ~Selects(paths, r[1])
                     /\ (Has(wt, r[1]) \/ IsDir(wt, r[1]))

SelectedPaths(paths, untracked) ==
  [tracked |-> {p \in StashPaths : Selects(paths, p) /\ TrackedChange(p)},
   untracked |-> {p \in StashPaths : Selects(paths, p) /\ untracked /\ Untracked(p)}]

PathsRefused(keep, paths, sel) ==
  LET back == IF keep THEN idx ELSE top
  IN  \/ \E p \in StashPaths : Selects(paths, p) /\ IgnoredOverwritten(p) /\ ~BelowLink(p)
      \/ sel.tracked \cup sel.untracked = {}
      \/ \E p \in sel.tracked : (IsDir(wt, p) \/ wt[p] = "repo") /\ Has(back, p)
      \/ \E p \in sel.tracked : \E f \in Holders(p) : Plain(wt[f]) /\ f \notin sel.untracked
      \/ \E p \in paths \cup sel.tracked \cup sel.untracked : BelowLink(p)

Overlay(t, over, ps) == [p \in StashPaths |-> IF p \in ps THEN over[p] ELSE t[p]]
Recordable == [p \in StashPaths |-> Unrepo(wt[p])]

PathStash(sel) ==
  [id |-> NewId, base |-> top, index |-> Overlay(top, idx, sel.tracked),
   work |-> Overlay(top, Recordable, sel.tracked),
   untracked |-> Overlay(Empty, Recordable, sel.untracked)]

-----------------------------------------------------------------------------
None == [kind |-> "none", pc |-> "idle", outcome |-> "none", keep |-> FALSE, id |-> 0,
         restore |-> FALSE, at |-> 0, sel |-> [tracked |-> {}, untracked |-> {}]]

Ends(outcome) == stashing' = [stashing EXCEPT !.pc = "idle", !.outcome = outcome]
There == [wt |-> wt, idx |-> idx, top |-> top, list |-> list]

Push(s) == list' = <<s>> \o list

Begins(operation) ==
  /\ stashing.pc = "idle"
  /\ was' = There /\ raced' = FALSE
  /\ stashing' = operation

(* save_stash.                                                                               *)
Save(keep, untracked, pick) ==
  LET whole == pick = {}
      own == whole /\ OwnWay(untracked)
      paths == IF whole
               THEN {p \in StashPaths : TrackedChange(p) \/ (untracked /\ Untracked(p))}
               ELSE WithPartners(pick)
      sel == SelectedPaths(IF whole THEN WithPartners(paths) ELSE paths, untracked)
      refused == \/ \E p \in StashPaths : idx[p] \in {"conflict", "repo"}
                 \/ whole /\ InTheWay(keep, untracked)
                 \/ whole /\ paths = {}
                 \/ ~whole /\ SourceRecreated(pick)
                 \/ (own \/ ~whole) /\ PathsRefused(keep, paths, sel)
      operation == [None EXCEPT !.kind = "save", !.keep = keep, !.sel = sel]
  IN  /\ stashing.kind = "none"
      /\ saved' = [there |-> There, sel |-> sel, since |-> FALSE]
      /\ UNCHANGED <<top, rules, listed>>
      /\ IF refused
         THEN /\ Begins([operation EXCEPT !.outcome = "refused"])
              /\ UNCHANGED <<list, wt, idx, wroteBeyond>>
         ELSE IF own \/ ~whole
         THEN /\ Push(PathStash(sel))
              /\ Begins([operation EXCEPT !.pc = "untracked"])
              /\ UNCHANGED <<wt, idx, wroteBeyond>>
         ELSE /\ Push(WholeStash(untracked))
              /\ wt' = ResetTo(IF keep THEN idx ELSE top, untracked)
              /\ idx' = IF keep THEN idx ELSE top
              /\ wroteBeyond' = (wroteBeyond \/ HasHazard)
              /\ Begins([operation EXCEPT !.outcome = "done"])

(* The revert, once the stash stands: untracked files first, while their folders are real.   *)
RemoveUntracked ==
  /\ stashing.pc = "untracked"
  /\ wt' = [p \in StashPaths |->
              IF p \in stashing.sel.untracked /\ ~BelowLink(p) THEN "none" ELSE wt[p]]
  /\ stashing' = [stashing EXCEPT !.pc = "links"]
  /\ UNCHANGED <<top, idx, rules, list, wroteBeyond, listed, was, saved, raced>>

ClearLeafLinks ==
  /\ stashing.pc = "links"
  /\ wt' = [p \in StashPaths |->
              IF p \in stashing.sel.tracked /\ wt[p] = "link" THEN "none" ELSE wt[p]]
  /\ stashing' = [stashing EXCEPT !.pc = "checkout"]
  /\ UNCHANGED <<top, idx, rules, list, wroteBeyond, listed, was, saved, raced>>

CheckOut ==
  LET paths == {p \in stashing.sel.tracked : ~BelowLink(p)}
      target == IF stashing.keep THEN idx ELSE top
      back == {p \in StashPaths : Selects(paths, p)
                                  /\ (Has(target, p) \/ Has(idx, p) \/ p \in paths)}
  IN  /\ stashing.pc = "checkout"
      /\ wt' = [p \in StashPaths |->
                  IF p \in back
                  THEN IF wt[p] = "repo" /\ ~Has(target, p) THEN "repo" ELSE target[p]
                  ELSE IF \E q \in (Held(p) \cup Holders(p)) \cap back : Has(target, q)
                  THEN "none" ELSE wt[p]]
      /\ idx' = IF stashing.keep THEN idx
                ELSE [p \in StashPaths |->
                        IF p \in back THEN top[p]
                        ELSE IF \E q \in (Held(p) \cup Holders(p)) \cap back : Has(top, q)
                        THEN "none" ELSE idx[p]]
      /\ Ends("done")
      /\ UNCHANGED <<top, rules, list, wroteBeyond, listed, was, saved, raced>>

\* The process dies, or a step of the revert fails.
Stops ==
  /\ stashing.pc \in {"untracked", "links", "checkout"}
  /\ Ends("stopped")
  /\ UNCHANGED <<top, idx, wt, rules, list, wroteBeyond, listed, was, saved, raced>>

-----------------------------------------------------------------------------
(* Applying.                                                                                 *)
\* A deviation: the stash is found by its place in the list.
IsListed_ByPlace(at) == at <= Len(list)

IsListed(at) == at <= Len(list) /\ list[at].id = listed[at]

Merged(base, ours, theirs) ==
  IF theirs = base \/ theirs = ours THEN ours ELSE IF ours = base THEN theirs ELSE "conflict"

ApplyRefused(s, restore) ==
  \/ \E p \in StashPaths : idx[p] = "conflict"
  \/ idx # top                                                       \* staged changes
  \/ \E t \in {top, idx, s.work, s.index, s.untracked}, p \in StashPaths :
       wt[p] = "link" /\ IsDir(t, p)
  \/ \E p \in StashPaths : Has(s.untracked, p) /\ IsDir(wt, p)       \* file over folder
  \/ \E p \in StashPaths : Has(s.untracked, p) /\ \E f \in Holders(p) : Has(idx, f)
  \/ restore /\ \E p \in StashPaths : Merged(s.base[p], idx[p], s.index[p]) = "conflict"

\* libgit2 checks out safely: nothing the user changed is written over, but ignored files are.
MayTouch(p, from, e) == wt[p] \in {from, e} \/ (from = "none" /\ IsIgnored(p))

WouldOverwrite(s) ==
  \E p \in StashPaths :
    \/ /\ Has(s.untracked, p)
       /\ ~MayTouch(p, idx[p], s.untracked[p]) \/ \E f \in Holders(p) : Has(wt, f)
    \/ LET e == Merged(s.base[p], idx[p], s.work[p])
       IN  /\ e # idx[p] /\ (~MayTouch(p, idx[p], e) \/ (Has(s.work, p) /\ \E f \in Holders(p) : Has(wt, f))
                             \/ (Has(s.work, p) /\ \E q \in Held(p) : Has(wt, q) /\ ~Has(idx, q)))

AppliedTree(s) ==
  [p \in StashPaths |->
     LET e == Merged(s.base[p], idx[p], s.work[p])
     IN  IF Has(s.untracked, p)
         THEN IF Has(idx, p) /\ s.untracked[p] # idx[p] THEN "marked" ELSE s.untracked[p]
         ELSE IF e = "conflict" THEN "marked"
         ELSE IF e # idx[p] THEN e ELSE wt[p]]

AppliedIndex(s, restore) ==
  LET conflicts == {p \in StashPaths : Merged(s.base[p], idx[p], s.work[p]) = "conflict"}
  IN  [p \in StashPaths |->
         IF conflicts # {} THEN Merged(s.base[p], idx[p], s.work[p])
         ELSE IF restore THEN Merged(s.base[p], idx[p], s.index[p])
         ELSE IF ~Has(idx, p) /\ ~Has(s.base, p) /\ Has(s.work, p) THEN s.work[p]  \* new files
         ELSE idx[p]]

Conflicted(t) == \E p \in StashPaths : t[p] = "conflict"

(* apply_stash and pop_stash.                                                                *)
\* A deviation: libgit2's own pop, which drops the stash after conflicts, too.
KeepsAfter_Nothing(t) == FALSE

KeepsAfter(t) == Conflicted(t)

Apply(kind, at, restore) ==
  /\ UNCHANGED <<top, rules, listed, list, wroteBeyond, saved>>
  /\ stashing.kind = "save" /\ at \in DOMAIN listed
  /\ LET operation ==
           [None EXCEPT !.kind = kind, !.restore = restore, !.at = at, !.id = listed[at]]
         Refused == Begins([operation EXCEPT !.outcome = "refused"]) /\ UNCHANGED <<wt, idx>>
     IN  IF ~IsListed(at) THEN Refused
         ELSE LET s == list[at]
                  index == AppliedIndex(s, restore)
              IN  IF ApplyRefused(s, restore) \/ WouldOverwrite(s) THEN Refused
                  ELSE /\ wt' = AppliedTree(s)
                       /\ idx' = index
                       /\ Begins(IF kind = "pop" /\ ~KeepsAfter(index)
                                 THEN [operation EXCEPT !.pc = "drop"]
                                 ELSE [operation EXCEPT !.outcome =
                                         IF Conflicted(index) THEN "conflicted" ELSE "done"])

DropAfterPop ==
  /\ stashing.pc = "drop"
  /\ list' = IF stashing.at <= Len(list) THEN RemoveAt(list, stashing.at) ELSE list
  /\ Ends("done")
  /\ UNCHANGED <<top, idx, wt, rules, wroteBeyond, listed, was, saved, raced>>

Drop(at) ==
  /\ stashing.kind = "save" /\ at \in DOMAIN listed
  /\ Begins([None EXCEPT !.kind = "drop", !.at = at, !.id = listed[at],
                          !.outcome = IF IsListed(at) THEN "done" ELSE "refused"])
  /\ list' = IF IsListed(at) THEN RemoveAt(list, at) ELSE list
  /\ UNCHANGED <<top, idx, wt, rules, wroteBeyond, listed, saved>>

-----------------------------------------------------------------------------
\* The window reads the list.
Lists ==
  /\ stashing.pc = "idle" /\ listed # [i \in DOMAIN list |-> list[i].id]
  /\ listed' = [i \in DOMAIN list |-> list[i].id]
  /\ UNCHANGED <<top, idx, wt, rules, list, wroteBeyond, stashing, was, saved, raced>>

\* A terminal stashes, or drops the newest stash.
OtherTool ==
  /\ (stashing.kind = "save" /\ stashing.pc = "idle") \/ stashing.pc = "drop"
  /\ ~saved.since
  /\ \/ Push([id |-> NewId, base |-> top, index |-> top, work |-> top, untracked |-> Empty])
     \/ list # <<>> /\ list' = Tail(list)
  /\ saved' = [saved EXCEPT !.since = TRUE]
  /\ raced' = (stashing.pc = "drop")
  /\ UNCHANGED <<top, idx, wt, rules, wroteBeyond, stashing, listed, was>>

\* Between a save and its pop the user edits a file or, with nothing changed, switches.
Meanwhile ==
  /\ stashing.kind = "save" /\ stashing.pc = "idle" /\ ~saved.since
  /\ saved' = [saved EXCEPT !.since = TRUE]
  /\ \/ \E p \in StashPaths : /\ Plain(wt[p]) /\ wt' = [wt EXCEPT ![p] = "theirs"]
                              /\ UNCHANGED <<top, idx>>
     \/ \E t \in Heads : /\ wt = top /\ idx = top
                         /\ top' = t /\ idx' = t /\ wt' = t
  /\ UNCHANGED <<rules, list, wroteBeyond, stashing, listed, was, raced>>

StashInit ==
  /\ top \in Heads
  /\ idx \in {t \in {[top EXCEPT ![p] = e] : p \in StashPaths, e \in {"none", "b", "conflict"}} : IsTree(t)}
             \cup {t \in {[top EXCEPT ![p] = "none", ![q] = top[p]] :
                            p \in StashPaths, q \in {q \in StashPaths : ~Has(top, q)}} : IsTree(t)}
             \cup {t \in UNION {{[top EXCEPT ![p] = "none", ![q] = "b"] : q \in Held(p) \cup Holders(p)} :
                               p \in StashPaths} : IsTree(t)}
  /\ wt \in {t \in [StashPaths -> {"none", "a", "mine", "link", "repo"}] :
               /\ Cardinality({p \in StashPaths : t[p] # top[p]}) <= MaxChanges
               /\ IsTree(t) /\ \A p \in StashPaths :
                                 t[p] = "repo" => ~IsDir(top, p) /\ ~IsDir(idx, p)}
  /\ rules \in IgnoreRules
  /\ list = <<>> /\ listed = <<>>
  /\ wroteBeyond = FALSE
  /\ stashing = None
  /\ was = There
  /\ saved = [there |-> There, sel |-> None.sel, since |-> FALSE]
  /\ raced = FALSE

StashNext ==
  \/ \E keep, untracked \in BOOLEAN, pick \in Picks : Save(keep, untracked, pick)
  \/ RemoveUntracked \/ ClearLeafLinks \/ CheckOut \/ Stops
  \/ \E kind \in {"apply", "pop"}, restore \in BOOLEAN, at \in DOMAIN listed : Apply(kind, at, restore)
  \/ DropAfterPop
  \/ \E at \in DOMAIN listed : Drop(at)
  \/ Lists \/ OtherTool \/ Meanwhile
=============================================================================
