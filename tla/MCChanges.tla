------------------------------- MODULE MCChanges -------------------------------
(***************************************************************************)
(* Values for Changes: a folder that HEAD, the index or a stash has a file   *)
(* or a link in the place of, texts that share lines and miss newlines, and  *)
(* repositories with a filtered file, ignored ones, and a file or a folder.  *)
(* Conflicts with two hunks, a missing side, a link; and what may stand in   *)
(* the place of a conflicted file, nested repositories among it.             *)
(***************************************************************************)
EXTENDS Changes

StagePaths == {"d", "d/e", "d/e/f", "g"}
StageFolders == [p \in StagePaths |->
                   CASE p = "d/e" -> {"d"} [] p = "d/e/f" -> {"d", "d/e"} [] OTHER -> {}]
Commit(d, e, f, g) ==
  [p \in StagePaths |-> CASE p = "d" -> d [] p = "d/e" -> e [] p = "d/e/f" -> f [] OTHER -> g]
StageCommits ==
  {Commit("none", "none", "a", "a"), Commit("none", "a", "none", "b"),
   Commit("link", "none", "none", "a"), Commit("a", "none", "none", "none"),
   Commit("none", "none", "none", "b")}

Reads(lines) == [there |-> TRUE, lines |-> lines]
SomeTexts ==
  {Absent, Reads(<<>>), Reads(<<"a", "b", "c">>), Reads(<<"x", "b", "y", "c~">>),
   Reads(<<"b", "d~">>)}

FilesOfStash == {"d", "d/f", "d/i", "g"}
FoldersOfStash == [p \in {"d/f", "d/i"} |-> "d"]
Head4(d, f, i, g) ==
  [p \in FilesOfStash |-> CASE p = "d" -> d [] p = "d/f" -> f [] p = "d/i" -> i [] OTHER -> g]
StashHeads ==
  {Head4("none", "a", "none", "none"), Head4("a", "none", "none", "none"),
   Head4("link", "none", "none", "a"), Head4("none", "none", "none", "none")}
Ignoring == {{"d/i"}, {"d"}}
PickedFiles == {{}, {"d"}, {"d/f"}}

UndoOrder == <<"i", "d", "d/f", "g">>
UndoFolders == [p \in {"d/f"} |-> "d"]
UndoRules == [v \in {"none", "a", "b"} |->
                CASE v = "none" -> {} [] v = "a" -> {"g"} [] OTHER -> {"d", "d/f"}]
UndoSmudged == [p \in {"d/f", "g"} |-> [c \in {"a", "b"} |-> IF c = "a" THEN "a~" ELSE "b~"]]
Files4(i, d, f, g) ==
  [p \in {"i", "d", "d/f", "g"} |-> CASE p = "i" -> i [] p = "d" -> d [] p = "d/f" -> f [] OTHER -> g]
UndoTrees == [c \in {"c1", "c2", "c3"} |->
                CASE c = "c1" -> Files4("none", "none", "a", "a") [] c = "c2" -> Files4("none", "a", "none", "b")
                  [] OTHER -> Files4("none", "none", "a", "none")]
OnMain(files, inIndex) ==
  [disk |-> files, idx |-> inIndex, refs |-> [main |-> "c1", topic |-> "c2"], at |-> "main"]
UndoWorlds ==
  {OnMain(Files4("none", "none", "a~", "a~"), UndoTrees["c1"]),
   OnMain(Files4("none", "none", "b", "b"), UndoTrees["c1"]),
   OnMain(Files4("a", "none", "none", "b"), Files4("none", "none", "none", "none")),
   OnMain(Files4("none", "none", "b~", "b"), Files4("none", "none", "b", "a")),
   OnMain(Files4("a", "none", "a~", "b"), Files4("a", "none", "a", "none")),
   OnMain(Files4("none", "a", "none", "b"), Files4("none", "a", "none", "b")),
   OnMain(Files4("b", "none", "a~", "a"), UndoTrees["c1"]),
   [OnMain(Files4("a", "none", "a~", "b"), UndoTrees["c3"]) EXCEPT !.refs.main = "c3"]}

AllSides == {"base", "ours", "theirs"}
Left(hunks, sides) == [hunks |-> hunks, sides |-> sides, kind |-> "file"]
ClashesAt == [p \in {"f", "g"} |->
  IF p = "f"
  THEN {Left(<<CleanHunk(<<"a">>), Hunk(<<"x">>, <<"y", "=">>), CleanHunk(<<"b">>), Hunk(<<>>, <<"z">>)>>, AllSides),
        Left(<<Hunk(<<"x">>, <<>>)>>, {"base", "ours"}),
        [hunks |-> <<Hunk(<<"t">>, <<"s">>)>>, sides |-> {"ours", "theirs"}, kind |-> "link"],
        Left(<<Hunk(<<"x", "=">>, <<"y">>)>>, AllSides)}
  ELSE {Left(<<Hunk(<<"u">>, <<"v">>)>>, AllSides)}]
NestedRepo(git, head, loose, packed, odd) ==
  [git |-> git, head |-> head, loose |-> loose, packed |-> packed, oddPacked |-> odd, commits |-> {"c1", "c2"}]
RefsOf(a, b, c, d, e) == [r \in {"r1", "r2", "r3", "r4", "r5"} |->
  CASE r = "r1" -> a [] r = "r2" -> b [] r = "r3" -> c [] r = "r4" -> d [] OTHER -> e]
NoRefs == [r \in {} |-> "none"]
NestedRepos == {NestedRepo("inside", "c1", RefsOf("c2", "none", "none", "none", "none"), NoRefs, FALSE),
          NestedRepo("inside", "r1", RefsOf("r2", "r3", "r4", "c2", "c1"), [r \in {"r1"} |-> "c1"], FALSE),
          NestedRepo("inside", "r1", RefsOf("r2", "r3", "r4", "r5", "c2"), NoRefs, FALSE),
          NestedRepo("inside", "r1", RefsOf("r2", "r3", "r4", "r5", "none"), [r \in {"r5"} |-> "c1"], FALSE),
          NestedRepo("inside", "r1", RefsOf("none", "c2", "none", "none", "none"), [r \in {"r1"} |-> "c1"], TRUE),
          NestedRepo("inside", "r1", RefsOf("none", "c2", "none", "none", "none"), [r \in {"r1"} |-> "c1"], FALSE),
          NestedRepo("outside", "c1", RefsOf("c2", "none", "none", "none", "none"), NoRefs, FALSE)}
InPlace == {Nothing, FileOf(<<"w">>), FileOf(<<"<", "w">>), [kind |-> "file", text |-> <<"w">>, access |-> "unreadable"],
           [kind |-> "file", text |-> <<"w">>, access |-> "read-only"], LinkOf(<<"out">>), [kind |-> "fifo"]}
          \cup {FolderWith(n) : n \in NestedRepos}
ThingsAt == [p \in {"f", "g"} |-> IF p = "g" THEN {Nothing} ELSE InPlace]

\* The parser on these conflicts: what ChangesProofs takes as given.
ASSUME HunksParseBack == ParsesBack
=============================================================================
