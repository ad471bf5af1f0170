----------------------------- MODULE GuardedTree -----------------------------
(***************************************************************************)
(* One read, write or removal below the work tree's root by Browsitory       *)
(* itself (git-core's worktree_guard with its two walkers, beneath_unix and  *)
(* beneath_windows), while other programs rename, replace and remove what is *)
(* on its way.                                                               *)
(*                                                                           *)
(* Folders are the handles of the walk: `held` are those opened so far, each *)
(* by its name in the one before.  A step is one system call, or those of    *)
(* one handle that nobody can come between.  On Unix what a name stands for  *)
(* is looked at and acted on in two calls; on Windows a handle is judged     *)
(* and acted on, and a held folder can be neither renamed nor removed.       *)
(* Every link leads to the folder Outside.                                   *)
(***************************************************************************)
EXTENDS Naturals, Sequences, FiniteSets

CONSTANTS
  Folders, Root, Outside,  \* folders that may exist; the root; what links lead to
  Path,                    \* the path of the operation, its leaf last
  Temp,                    \* the name of the temporary file
  Targets,                 \* what a gitdir: file may name, as sequences of components
  Attempts,                \* ATTEMPTS
  MaxMeddling              \* bound: changes by other programs

ASSUME GuardAssumption ==
  /\ {Root, Outside, "A", "B", "C"} \subseteq Folders
  /\ Root # Outside /\ {Root, Outside} \cap {"A", "B", "C"} = {}
  /\ Path \in Seq(STRING) /\ Len(Path) >= 3          \* the trees at the start are three deep
  /\ \A i \in 1..Len(Path) : Path[i] # Temp          \* no file of the user's has its name
  /\ Targets \subseteq
       Seq({Path[i] : i \in 1..Len(Path)} \cup {Temp, "..", "/", "elsewhere"})

VARIABLES
  platform,  \* "unix" or "windows"
  op,        \* the operation
  tree,      \* folder -> name -> entry
  inPlace,   \* held folders that were turned into links where they stand
  held,      \* the folders the walk holds, the root first
  place,     \* the call to come
  seen,      \* what the last look found
  tries,     \* attempts at this component, or at this leaf
  wanted,    \* what is left to resolve
  got,       \* what the operation gives back
  outcome,
  meddling,  \* changes made by other programs
  swapped    \* the name no longer stands for what was looked at

guardVars == <<platform, op, tree, inPlace, held, place, seen, tries, wanted, got, outcome,
               meddling, swapped>>

Nothing == <<"nothing">>
Link == <<"link">>
File(content) == <<"file", content>>
Folder(d) == <<"folder", d>>
Is(entry, kind) == entry[1] = kind

\* The operations: write_beneath, replace_beneath, remove_beneath, clear_hazard,
\* remove_and_prune_beneath, read_beneath, open_beneath, probe_beneath with
\* HeldFolder::resolve, is_read_only_beneath.
Writers == {"write", "replace"}
Readers == {"read", "open", "probe", "readonly"}
GuardOps == Writers \cup Readers \cup {"remove", "clear", "prune"}

PathNames == {Path[i] : i \in 1..Len(Path)} \cup {Temp}
Unix == platform = "unix"
Leaf == Path[Len(Path)]
Parent == held[Len(held)]
Walked == Len(held) >= Len(Path)
Here == Path[Len(held)]          \* the component, or once Walked the leaf
Entry == tree[Parent][Here]

Bare == [n \in PathNames |-> Nothing]
Unreferenced(d) ==
  /\ d \notin {Root, Outside} /\ d \notin {held[i] : i \in 1..Len(held)}
  /\ \A c \in Folders, n \in PathNames : tree[c][n] # Folder(d)
Unused == {d \in Folders : Unreferenced(d) /\ tree[d] = Bare}

Put(d, n, entry) == tree' = [tree EXCEPT ![d][n] = entry]
Resolves == Unix \/ Parent \notin inPlace

\* A deviation: a folder is removed with what is in it.
Removable_Recursive(entry) == TRUE

Removable(entry) == Is(entry, "folder") => tree[entry[2]] = Bare

Same == UNCHANGED <<platform, op, inPlace, meddling>>
Finish(result) == place' = "done" /\ outcome' = result
Go(to) == place' = to /\ UNCHANGED outcome

\* The work tree's states at the start: the folder on the way and the leaf.
TreesAtStart ==
  LET With(a, b, f) ==
        [d \in Folders |-> [n \in PathNames |->
           CASE d = Root /\ n = Path[1] -> a
             [] d = "A" /\ n = Path[2] -> b
             [] d = "B" /\ n = Path[3] -> f
             [] d = Outside /\ n # Temp -> File("elsewhere")
             [] OTHER -> Nothing]]
  IN  {With(a, Nothing, Nothing) : a \in {Nothing, Link, File("old")}}
      \cup {With(Folder("A"), b, Nothing) : b \in {Nothing, Link}}
      \cup {With(Folder("A"), Folder("B"), f) :
              f \in {Nothing, Link, File("old"), File("frozen"), Folder("C")}}

GuardInit ==
  /\ platform \in {"unix", "windows"}
  /\ op \in GuardOps
  /\ tree \in TreesAtStart
  /\ wanted \in (IF op = "probe" THEN Targets ELSE {<<>>})
  /\ inPlace = {}
  /\ held = <<Root>>
  /\ place = "walk"
  /\ seen = Nothing
  /\ tries = 0
  /\ got = Nothing
  /\ outcome = "none"
  /\ meddling = 0
  /\ swapped = FALSE

-----------------------------------------------------------------------------
(* The walk to the leaf's parent. *)
OnLinkClear == op \in {"replace", "clear"}
OnMissingCreate == op \in Writers

\* What the operation makes of a walk that did not find the parent.
WalkEnds(why) ==
  CASE op = "write" -> "refused"
    [] op = "replace" -> "error"
    [] op = "remove" -> IF why = "link" THEN "refused" ELSE "ok"
    [] op \in {"clear", "prune"} -> "ok"
    [] OTHER -> "none"

FirstPlace == IF ~Unix /\ op = "replace" THEN "temp" ELSE IF op = "open" THEN "open" ELSE "leaf"

\* What opening a folder by its name in the held one gives: never what a link leads to.
\* A deviation: it is opened without O_NOFOLLOW.
FolderAt_Follows(entry) ==
  IF Is(entry, "folder") THEN {entry[2]} ELSE IF entry = Link THEN {Outside} ELSE {}

FolderAt(entry) == IF Is(entry, "folder") THEN {entry[2]} ELSE {}

WalkOpen ==
  /\ place = "walk" /\ tries < Attempts /\ Resolves
  /\ \/ \E d \in FolderAt(Entry) :
           /\ held' = Append(held, d)
           /\ tries' = 0
           /\ Go(IF Len(held) + 1 = Len(Path) THEN FirstPlace ELSE "walk")
     \/ /\ Entry = Nothing
        /\ IF OnMissingCreate THEN Go("mkdir") ELSE Finish(WalkEnds("missing"))
        /\ UNCHANGED <<held, tries>>
     \/ /\ Entry = Link \/ Is(Entry, "file")
        /\ CASE Unix -> Go("look")
             [] ~Unix /\ Entry = Link /\ OnLinkClear -> Go("unlink folder")
             [] ~Unix /\ Entry = Link /\ ~OnLinkClear -> Finish(WalkEnds("link"))
             [] OTHER -> Finish(WalkEnds("notdir"))
        /\ UNCHANGED <<held, tries>>
  /\ seen' = Entry
  /\ swapped' = FALSE
  /\ Same /\ UNCHANGED <<tree, wanted, got>>

WalkMkdir ==
  /\ place = "mkdir" /\ Resolves
  /\ IF Entry = Nothing
     THEN /\ Unused # {}
          /\ Put(Parent, Here, Folder(CHOOSE d \in Unused : TRUE))
     ELSE UNCHANGED tree
  /\ tries' = tries + 1
  /\ Go("walk")
  /\ Same /\ UNCHANGED <<held, wanted, got, seen, swapped>>

WalkLook ==
  /\ place = "look"
  /\ seen' = Entry /\ swapped' = FALSE
  /\ \/ /\ Entry = Link /\ UNCHANGED tries
        /\ IF OnLinkClear THEN Go("unlink folder") ELSE Finish(WalkEnds("link"))
     \/ /\ Is(Entry, "folder") \/ Entry = Nothing
        /\ tries' = tries + 1 /\ Go("walk")
     \/ /\ Is(Entry, "file") /\ UNCHANGED tries
        /\ Finish(WalkEnds("notdir"))
  /\ Same /\ UNCHANGED <<tree, held, wanted, got>>

(* A link in a folder's place is removed itself. Unix unlinks the name, whatever but a       *)
(* folder it stands for by now; Windows deletes the handle it has found to be a link.        *)
WalkUnlink ==
  LET takes == IF Unix THEN Entry = Link \/ Is(Entry, "file") ELSE Entry = Link
  IN  /\ place = "unlink folder" /\ Resolves
      /\ IF takes THEN Put(Parent, Here, Nothing) ELSE UNCHANGED tree
      /\ IF Unix /\ Is(Entry, "folder")
         THEN Finish("error") /\ UNCHANGED tries
         ELSE IF OnMissingCreate
         THEN Go("walk") /\ tries' = tries + 1
         ELSE Finish(WalkEnds("link")) /\ UNCHANGED tries
      /\ Same /\ UNCHANGED <<held, wanted, got, seen, swapped>>

-----------------------------------------------------------------------------
(* The leaf: what stands there decides what comes next. *)
Looks ==
  CASE op = "write" ->
         CASE Entry = Nothing \/ (Unix /\ Entry = Link) -> Go("temp")
           [] Is(Entry, "file") -> Go("probe")
           [] ~Unix /\ Entry = Link -> Go("unlink")
           [] OTHER -> Finish("error")
    [] op = "replace" ->
         CASE Is(Entry, "folder") \/ (~Unix /\ Entry = Link) -> Go("unlink")
           [] OTHER -> Go(IF Unix THEN "temp" ELSE "swap")
    [] op = "remove" ->
         CASE Entry = Nothing -> Finish("ok")
           [] Is(Entry, "folder") -> Finish("refused")
           [] OTHER -> Go("unlink")
    [] op = "clear" -> IF Entry = Link THEN Go("unlink") ELSE Finish("ok")
    [] op = "prune" -> IF Entry = Nothing THEN Go("prune") ELSE Go("unlink")
    [] op = "read" ->
         CASE Entry = Link -> Go("readlink")
           [] Is(Entry, "file") -> Go("open")
           [] OTHER -> Finish("none")
    [] op = "probe" ->
         CASE Entry = Nothing -> Finish("none")
           [] Is(Entry, "folder") -> Go("open")
           [] OTHER -> Finish("ok")
    [] OTHER -> Finish(IF Entry = File("frozen") THEN "read-only" ELSE "ok")

LeafLook ==
  /\ place = "leaf" /\ tries < Attempts /\ Resolves
  /\ seen' = Entry /\ swapped' = FALSE
  /\ Looks
  /\ Same /\ UNCHANGED <<tree, held, tries, wanted, got>>

(* What the unlink of a leaf takes. Unix acts on the name: unlinkat takes anything but a     *)
(* folder, with AT_REMOVEDIR an empty folder only. Windows acts on the handle that was       *)
(* looked at, wherever its name is now; a write opens one again and looks at it once more.   *)
RemovesFolder == op = "replace" \/ (op = "prune" /\ Is(seen, "folder"))

\* A deviation: Windows, too, unlinks the name.
UnlinkTakes_ByName ==
  IF RemovesFolder
  THEN Is(Entry, "folder") /\ Removable(Entry)
  ELSE Entry = Link \/ Is(Entry, "file")

UnlinkTakes ==
  CASE Unix /\ RemovesFolder -> Is(Entry, "folder") /\ Removable(Entry)
    [] Unix /\ ~RemovesFolder -> Entry = Link \/ Is(Entry, "file")
    [] ~Unix /\ op = "write" -> Entry = Link
    [] ~Unix /\ op = "replace" -> Entry = Link \/ (Is(Entry, "folder") /\ Removable(Entry))
    [] OTHER -> ~swapped /\ Entry # Nothing /\ Removable(Entry)

\* A folder that is not empty, or a name that changed its kind between Unix's two calls.
UnlinkFails ==
  /\ Entry # Nothing /\ ~UnlinkTakes
  /\ IF Unix THEN op \in {"replace", "prune"} ELSE Is(Entry, "folder") /\ ~swapped

LeafUnlink ==
  /\ place = "unlink" /\ Resolves
  /\ IF UnlinkTakes THEN Put(Parent, Here, Nothing) ELSE UNCHANGED tree
  /\ IF UnlinkFails
     THEN /\ IF op = "replace" /\ ~Unix THEN Go("tidy") ELSE Finish("error")
          /\ UNCHANGED tries
     ELSE CASE op \in Writers /\ ~Unix -> Go("leaf") /\ tries' = tries + 1
            [] op = "replace" /\ Unix -> Go("temp") /\ UNCHANGED tries
            [] op = "prune" -> Go("prune") /\ UNCHANGED tries
            [] op = "remove" /\ Is(Entry, "folder") -> Finish("refused") /\ UNCHANGED tries
            [] OTHER -> Finish("ok") /\ UNCHANGED tries
  /\ Same /\ UNCHANGED <<held, wanted, got, seen, swapped>>

(* Whether the file may be written. Windows opens it by its identity, and another program    *)
(* may hold it open.                                                                         *)
LeafProbe ==
  /\ place = "probe" /\ Resolves
  /\ \/ /\ Unix /\ UNCHANGED tries
        /\ CASE Is(Entry, "folder") -> Finish("error")
             [] Entry = File("frozen") -> Finish("read-only")
             [] OTHER -> Go("temp")
     \/ /\ ~Unix /\ (swapped \/ Entry # seen)
        /\ tries' = tries + 1 /\ Go("leaf")
     \/ /\ ~Unix /\ ~swapped /\ Entry = seen /\ UNCHANGED tries
        /\ IF Entry = File("frozen") THEN Finish("read-only") ELSE Go("temp")
     \/ /\ ~Unix /\ UNCHANGED tries /\ Finish("in use")
  /\ Same /\ UNCHANGED <<tree, held, wanted, got, seen, swapped>>

-----------------------------------------------------------------------------
(* A file is replaced whole: a temporary file in the held parent, renamed over the name. *)
TempCreate ==
  /\ place = "temp" /\ Resolves
  /\ tree[Parent][Temp] = Nothing
  /\ Put(Parent, Temp, File("part"))
  /\ tries' = 0
  /\ Go("fill")
  /\ Same /\ UNCHANGED <<held, wanted, got, seen, swapped>>

TempFill ==
  /\ place = "fill"
  /\ Put(Parent, Temp, File("new"))
  /\ Go(IF ~Unix /\ op = "replace" THEN "leaf" ELSE "swap")
  /\ Same /\ UNCHANGED <<held, wanted, got, seen, swapped, tries>>

\* renameat, and the POSIX rename of Windows, which refuses a read-only file unless told to
\* ignore that, a folder, and perhaps a link.
RenameRefused ==
  \/ Is(Entry, "folder")
  \/ ~Unix /\ op = "write" /\ Entry = File("frozen")

\* A deviation: the file is opened and truncated where it stands.
Renamed_InPlace == [tree EXCEPT ![Parent][Here] = File("part")]

Renamed == [tree EXCEPT ![Parent][Here] = tree[Parent][Temp], ![Parent][Temp] = Nothing]

Swap ==
  /\ place = "swap" /\ Resolves
  /\ \/ /\ ~RenameRefused
        /\ tree' = Renamed
        /\ Finish("ok")
     \/ /\ RenameRefused \/ (~Unix /\ Entry # Nothing)   \* in use, a link
        /\ Go("tidy") /\ UNCHANGED tree
  /\ Same /\ UNCHANGED <<held, wanted, got, seen, swapped, tries>>

Tidy ==
  /\ place = "tidy"
  /\ Put(Parent, Temp, Nothing)
  /\ Finish("error")
  /\ Same /\ UNCHANGED <<held, wanted, got, seen, swapped, tries>>

-----------------------------------------------------------------------------
(* The folders that emptied are removed upwards, each by its name in the one above. Windows  *)
(* lets go of each before it opens it again for deleting.                                    *)
PruneFolder ==
  /\ place = "prune"
  /\ IF Len(held) = 1
     THEN Finish("ok") /\ UNCHANGED <<tree, held>>
     ELSE LET above == SubSeq(held, 1, Len(held) - 1)
              entry == tree[above[Len(above)]][Path[Len(above)]]
          IN  /\ held' = above
              /\ IF /\ Is(entry, "folder") /\ Removable(entry)
                    /\ Unix \/ entry[2] \notin inPlace
                 THEN Put(above[Len(above)], Path[Len(above)], Nothing) /\ Go("prune")
                 ELSE Finish("ok") /\ UNCHANGED tree
  /\ Same /\ UNCHANGED <<wanted, got, seen, swapped, tries>>

-----------------------------------------------------------------------------
(* Reads: a file through a handle whose kind is checked, a link's own target, and a folder   *)
(* that is then held.                                                                        *)
ReadOpen ==
  /\ place = "open" /\ Resolves /\ UNCHANGED <<seen, swapped>>
  /\ IF op = "probe"
     THEN IF Is(Entry, "folder")
          THEN /\ held' = Append(held, Entry[2])
               /\ Go("resolve") /\ UNCHANGED <<got, tries>>
          ELSE /\ tries' = tries + 1
               /\ Go("leaf") /\ UNCHANGED <<got, held>>
     ELSE /\ UNCHANGED <<held, tries>>
          /\ IF Is(Entry, "file")
             THEN got' = Entry /\ Finish("ok")
             ELSE Finish("none") /\ UNCHANGED got
  /\ Same /\ UNCHANGED <<tree, wanted>>

ReadLink ==
  /\ place = "readlink" /\ UNCHANGED <<seen, swapped>>
  /\ IF Unix /\ Entry # Link THEN Finish("none") /\ UNCHANGED got
                             ELSE Finish("ok") /\ got' = Link
  /\ Same /\ UNCHANGED <<tree, held, wanted, tries>>

(* HeldFolder::resolve: one component at a time from the held folders. "/" begins an         *)
(* absolute path below the root as it was opened, any other absolute path is "elsewhere".    *)
Resolve ==
  /\ place = "resolve"
  /\ UNCHANGED <<seen, swapped, got, tries>>
  /\ IF wanted = <<>> THEN Finish("ok") /\ UNCHANGED <<held, wanted>>
     ELSE /\ wanted' = Tail(wanted)
          /\ CASE Head(wanted) = "/" -> held' = <<held[1]>> /\ Go("resolve")
               [] Head(wanted) = "elsewhere" -> Finish("outside") /\ UNCHANGED held
               [] Head(wanted) = ".." ->
                    IF Len(held) = 1 THEN Finish("outside") /\ UNCHANGED held
                    ELSE held' = SubSeq(held, 1, Len(held) - 1) /\ Go("resolve")
               [] OTHER ->
                    LET entry == tree[Parent][Head(wanted)]
                    IN  IF Is(entry, "folder") /\ Resolves
                        THEN held' = Append(held, entry[2]) /\ Go("resolve")
                        ELSE Finish("none") /\ UNCHANGED held
  /\ Same /\ UNCHANGED tree

-----------------------------------------------------------------------------
(* What ends an operation early. *)
GiveUp ==
  /\ place \in {"walk", "leaf"} /\ tries = Attempts
  /\ IF op = "replace" /\ place = "leaf" THEN Go("tidy") ELSE Finish("error")
  /\ Same /\ UNCHANGED <<tree, held, wanted, got, seen, swapped, tries>>

\* Any call may fail; on Windows one below a folder that became a link does.
CallFails ==
  /\ place # "done"
  /\ IF place \in {"fill", "swap"} \/ (op = "replace" /\ ~Unix /\ place \in {"leaf", "unlink"})
     THEN Go("tidy")
     ELSE Finish(IF place = "tidy" THEN "untidy" ELSE "error")
  /\ Same /\ UNCHANGED <<tree, held, wanted, got, seen, swapped, tries>>

Killed ==
  /\ place # "done"
  /\ Finish("killed")
  /\ Same /\ UNCHANGED <<tree, held, wanted, got, seen, swapped, tries>>

OurStep ==
  \/ WalkOpen \/ WalkMkdir \/ WalkLook \/ WalkUnlink
  \/ LeafLook \/ LeafUnlink \/ LeafProbe
  \/ TempCreate \/ TempFill \/ Swap \/ Tidy \/ PruneFolder
  \/ ReadOpen \/ ReadLink \/ Resolve
  \/ GiveUp \/ CallFails \/ Killed

-----------------------------------------------------------------------------
(* Another program puts something else where the path goes: nothing, a link, a file of its   *)
(* own or a folder that was moved away.  On Windows a held folder stays where it is.         *)
Meddle ==
  /\ meddling < MaxMeddling /\ place # "done"
  /\ \E i \in 1..Len(Path), d \in Folders \ {Outside} :
       /\ d = Root \/ ~Unreferenced(d)
       /\ IF i = 1 THEN d = Root ELSE d # Root
       /\ ~Unix => tree[d][Path[i]] \notin {Folder(held[j]) : j \in 1..Len(held)}
       /\ \E entry \in {Nothing, Link, File("theirs")} \cup
                      {Folder(c) : c \in {c \in Folders : Unreferenced(c)}} :
            /\ entry # tree[d][Path[i]]
            /\ Put(d, Path[i], entry)
       /\ swapped' = (swapped \/ (place # "resolve" /\ d = Parent /\ Path[i] = Here))
  /\ meddling' = meddling + 1
  /\ UNCHANGED <<platform, op, inPlace, held, place, seen, tries, wanted, got, outcome>>

(* Windows: an empty folder, though held, is turned into a junction where it stands. *)
Junction ==
  /\ ~Unix /\ meddling < MaxMeddling /\ place # "done"
  /\ \E j \in 2..Len(held) :
       /\ tree[held[j]] = Bare /\ held[j] \notin inPlace
       /\ inPlace' = inPlace \cup {held[j]}
  /\ meddling' = meddling + 1
  /\ UNCHANGED <<platform, op, tree, held, place, seen, tries, wanted, got, outcome, swapped>>

GuardNext == OurStep \/ Meddle \/ Junction
=============================================================================
