------------------------------- MODULE MCWorkTree -------------------------------
(***************************************************************************)
(* Values for WorkTree: a path two folders deep for the guarded accesses;    *)
(* trees with a folder, a link in its place and, under a name that differs   *)
(* in case, a link or another.                                               *)
(***************************************************************************)
EXTENDS WorkTree

DeepPath == <<"a", "b", "f">>
GitdirTargets ==
  {<<>>, <<"..", "a">>, <<"..", "..", "..", "..">>, <<"/", "a", "b">>, <<"elsewhere">>, <<"f">>}

CaseNames == {"d", "D", "d/f", "g"}
CaseParents == [n \in {"d/f"} |-> "d"]
CaseTwins == [n \in CaseNames |-> IF n = "D" THEN "d" ELSE n]
Tree(d, D, f, g) ==
  [n \in CaseNames |-> CASE n = "d" -> d [] n = "D" -> D [] n = "d/f" -> f [] OTHER -> g]
CaseTrees ==
  {Tree("none", "none", "a", "a"), Tree("none", "none", "b", "none"),
   Tree("link", "none", "none", "a"), Tree("none", "link", "a", "none"),
   Tree("none", "link2", "a", "none"), Tree("none", "link", "none", "link")}
=============================================================================
