------------------------------- MODULE LinePatch -------------------------------
(***************************************************************************)
(* Staging, unstaging and discarding a hunk of one file, or some lines of it *)
(* (git-core's line_patch and the end of stage): the hunk the user was shown *)
(* is looked up in a fresh diff, a patch of the selected lines is built, and *)
(* libgit2 applies it where it says, or not at all.                          *)
(*                                                                           *)
(* A text is a file's lines, or the file is absent.  A line in NoNewline     *)
(* ends its file without a newline.  The diff and the apply are libgit2's.   *)
(***************************************************************************)
EXTENDS Integers, Sequences, SequencesExt, FiniteSets

CONSTANTS
  Texts,      \* what the file may read at first, and what the user makes of it
  NoNewline,
  Contexts,   \* how many context lines a view may ask for
  MaxSteps    \* bound: operations, and changes by the user or in a terminal

VARIABLES
  text,       \* "head", "index", "work" -> the file there
  shown,      \* the hunk on display, if any
  did,        \* the last operation: what it was to do, on what, and how it ended
  steps

lineVars == <<text, shown, did, steps>>

Absent == [there |-> FALSE, lines |-> <<>>]

\* The diff an operation is about, and the side of it that it changes.
OldSide(target) == IF target = "unstage" THEN "head" ELSE "index"
NewSide(target) == IF target = "unstage" THEN "index" ELSE "work"
Changed(target) == IF target = "discard" THEN "work" ELSE "index"

-----------------------------------------------------------------------------
(* libgit2's diff: as many lines as possible are kept, and where lines change the old ones   *)
(* come first.                                                                               *)
Pairings(a, b) ==
  {m \in SUBSET {p \in (DOMAIN a) \X (DOMAIN b) : a[p[1]] = b[p[2]]} :
     \A p, q \in m : p[1] < q[1] <=> p[2] < q[2]}

Kept(a, b) ==
  CHOOSE m \in Pairings(a, b) : \A n \in Pairings(a, b) : Cardinality(n) <= Cardinality(m)

Script(a, b) ==
  LET kept == Kept(a, b)
      from[i \in 1..Len(a) + 1, j \in 1..Len(b) + 1] ==
        IF i <= Len(a) /\ \A p \in kept : p[1] # i THEN <<<<"-", a[i]>>>> \o from[i + 1, j]
        ELSE IF j <= Len(b) /\ \A p \in kept : p[2] # j THEN <<<<"+", b[j]>>>> \o from[i, j + 1]
        ELSE IF i <= Len(a) THEN <<<<" ", a[i]>>>> \o from[i + 1, j + 1]
        ELSE <<>>
  IN  from[1, 1]

ChangedLines(script) == {i \in DOMAIN script : script[i][1] # " "}
Of(body, side) ==    \* the lines of one side: "-" the old one's, "+" the new one's
  LET On(l) == l[1] \in {" ", side}
      on == SelectSeq(body, On)
  IN  [i \in DOMAIN on |-> on[i][2]]
StartOf(script, from, to, side) ==
  Len(Of(SubSeq(script, 1, from - 1), side))
    + (IF Of(SubSeq(script, from, to), side) = <<>> THEN 0 ELSE 1)

(* ChangedLines with at most twice the context between them are one hunk; a side of it that has   *)
(* no lines starts at the line before.                                                       *)
Hunks(script, context) ==
  LET changes == ChangedLines(script)
      Near(i, j) == i < j /\ j - i - 1 <= 2 * context
      firsts == {i \in changes : \A j \in changes : ~Near(j, i)}
      Ends(i) == CHOOSE l \in changes :
                   /\ l >= i /\ \A j \in changes : ~Near(l, j)
                   /\ \A k \in changes : k >= i /\ (\A j \in changes : ~Near(k, j)) => l <= k
      From(i) == IF i > context THEN i - context ELSE 1
      To(i) == IF Ends(i) + context > Len(script) THEN Len(script) ELSE Ends(i) + context
  IN  {[old |-> StartOf(script, From(i), To(i), "-"), new |-> StartOf(script, From(i), To(i), "+"),
        lines |-> SubSeq(script, From(i), To(i))] : i \in firsts}

HunksOf(target, context) ==
  Hunks(Script(text[OldSide(target)].lines, text[NewSide(target)].lines), context)

-----------------------------------------------------------------------------
(* The patch (line_patch::build).                                                            *)
\* A deviation: a line that goes, unselected, is left out instead of kept.
ForwardBody_Drops(lines, picked) ==
  LET Emit(out, i) == IF lines[i][1] # " " /\ i \notin picked THEN out ELSE Append(out, lines[i])
  IN  FoldLeft(Emit, <<>>, [i \in DOMAIN lines |-> i])

ForwardBody(lines, picked) ==
  LET Emit(out, i) ==
        CASE lines[i][1] = "+" /\ i \notin picked -> out
          [] lines[i][1] = "-" /\ i \notin picked -> Append(out, <<" ", lines[i][2]>>)
          [] OTHER -> Append(out, lines[i])
  IN  FoldLeft(Emit, <<>>, [i \in DOMAIN lines |-> i])

\* A deviation: a restored line is put where the hunk had it.
ReverseBody_InPlace(lines, picked) ==
  LET Emit(out, i) ==
        CASE lines[i][1] = "-" -> IF i \in picked THEN Append(out, <<"+", lines[i][2]>>) ELSE out
          [] lines[i][1] = "+" /\ i \in picked -> Append(out, <<"-", lines[i][2]>>)
          [] OTHER -> Append(out, <<" ", lines[i][2]>>)
  IN  FoldLeft(Emit, <<>>, [i \in DOMAIN lines |-> i])

(* Lines that are restored come behind those that go, before the next line that stays.       *)
ReverseBody(lines, picked) ==
  LET Emit(acc, i) ==
        CASE lines[i][1] = "-" -> IF i \in picked
                                  THEN [acc EXCEPT !.restored = Append(@, <<"+", lines[i][2]>>)]
                                  ELSE acc
          [] lines[i][1] = "+" /\ i \in picked ->
               [acc EXCEPT !.body = Append(@, <<"-", lines[i][2]>>)]
          [] OTHER -> [body |-> acc.body \o acc.restored \o <<<<" ", lines[i][2]>>>>,
                       restored |-> <<>>]
      all == FoldLeft(Emit, [body |-> <<>>, restored |-> <<>>], [i \in DOMAIN lines |-> i])
  IN  all.body \o all.restored

\* A line without its newline has to be the last of its side.
Expressible(body) ==
  \A i, j \in DOMAIN body :
    body[i][2] \in NoNewline /\ i < j => body[i][1] = "-" /\ body[j][1] = "+"

Position(start, pre) == IF pre = <<>> THEN start ELSE IF start = 0 THEN 0 ELSE start - 1

-----------------------------------------------------------------------------
(* What the operation comes to: the text it makes, or why it makes none (apply_selection).   *)
Found(target, hunk, context) ==
  {h \in HunksOf(target, context) : h.old = hunk.old /\ h.new = hunk.new}

\* A deviation: the hunk is known by where it starts.
PickedLines_ByStart(now, hunk, picked, whole) == IF whole THEN ChangedLines(now.lines) ELSE picked \cap DOMAIN now.lines

\* The picked lines mean something only in the hunk as it was displayed.
PickedLines(now, hunk, picked, whole) ==
  IF whole THEN ChangedLines(now.lines) ELSE IF now.lines = hunk.lines THEN picked ELSE {0}

\* libgit2 applies a hunk at its place, with no fuzz.
Applied(file, position, body) ==
  LET pre == Of(body, "-")
  IN  IF SubSeq(file.lines, position + 1, position + Len(pre)) # pre THEN {}
      ELSE {[there |-> TRUE,
             lines |-> SubSeq(file.lines, 1, position) \o Of(body, "+")
                       \o SubSeq(file.lines, position + Len(pre) + 1, Len(file.lines))]}

Patched(target, now, picked) ==
  LET forward == target = "stage"
      body == IF forward THEN ForwardBody(now.lines, picked) ELSE ReverseBody(now.lines, picked)
      start == IF forward THEN now.old ELSE now.new
      ends == text[IF forward THEN NewSide(target) ELSE OldSide(target)]   \* the postimage side
  IN  IF ~Expressible(body) THEN {}
      ELSE IF ~ends.there /\ Of(body, "+") = <<>> /\ target # "discard" THEN {Absent}
      ELSE Applied(text[Changed(target)], Position(start, Of(body, "-")), body)

Did(op, target, whole, taken, outcome) ==
  [op |-> op, target |-> target, whole |-> whole, taken |-> taken, outcome |-> outcome,
   before |-> text]

Operate(whole, picked) ==
  LET target == shown.target
      Ends(taken, outcome) == did' = Did("apply", target, whole, taken, outcome) /\ UNCHANGED text
  IN  /\ shown.target # "none" /\ steps < MaxSteps
      /\ steps' = steps + 1 /\ UNCHANGED shown
      /\ \/ Found(target, shown.hunk, shown.context) = {} /\ Ends(<<>>, "not found")
         \/ \E now \in Found(target, shown.hunk, shown.context) :
              LET selected == PickedLines(now, shown.hunk, picked, whole)
                  lines == IF whole THEN now.lines ELSE shown.hunk.lines
                  taken == [i \in selected |-> lines[i]]
              IN  IF selected = {0} THEN Ends(<<>>, "not found")
                  ELSE IF selected = {} \/ ~(selected \subseteq ChangedLines(now.lines))
                  THEN Ends(<<>>, "refused")
                  ELSE LET patched == Patched(target, now, selected)
                       IN  IF patched = {} THEN Ends(taken, "not applicable")
                           ELSE /\ \E t \in patched : text' = [text EXCEPT ![Changed(target)] = t]
                                /\ did' = Did("apply", target, whole, taken, "done")

Show(target, context) ==
  /\ \E hunk \in HunksOf(target, context) :
       shown' = [target |-> target, context |-> context, hunk |-> hunk]
  /\ did' = Did("none", "none", FALSE, <<>>, "none")
  /\ UNCHANGED <<text, steps>>

\* The user saves the file, or stages in a terminal.
Edit ==
  /\ steps < MaxSteps /\ steps' = steps + 1
  /\ \E side \in {"index", "work"}, t \in Texts : text' = [text EXCEPT ![side] = t]
  /\ did' = [Did("none", "none", FALSE, <<>>, "none") EXCEPT !.before = text']
  /\ UNCHANGED shown

NoHunk == [target |-> "none", context |-> 0, hunk |-> [old |-> 0, new |-> 0, lines |-> <<>>]]

LineInit ==
  /\ text \in [{"head", "index", "work"} -> Texts]
  /\ text.index \in {text.head, text.work}      \* one diff at a time is not empty
  /\ shown = NoHunk
  /\ did = Did("none", "none", FALSE, <<>>, "none")
  /\ steps = 0

LineNext ==
  \/ \E target \in {"stage", "unstage", "discard"}, context \in Contexts : Show(target, context)
  \/ Operate(TRUE, {})
  \/ \E picked \in SUBSET DOMAIN shown.hunk.lines : Operate(FALSE, picked)
  \/ Edit

-----------------------------------------------------------------------------
Distance(texts, target) ==
  Cardinality(ChangedLines(Script(texts[OldSide(target)].lines, texts[NewSide(target)].lines)))

Count(lines, l) == Cardinality({i \in DOMAIN lines : lines[i] = l})
Taken(origin, l) == Cardinality({i \in DOMAIN did.taken : did.taken[i] = <<origin, l>>})

(* Exactly the lines the user picked, as they were displayed, are staged, unstaged or        *)
(* discarded, and every other difference stays as it was; a whole hunk always applies, some  *)
(* lines of it fail only over a missing newline, and no discard deletes a file               *)
(* (apply_selection, line_patch::build).                                                     *)
ExactlyTheSelection ==
  did.op = "apply" =>
    LET side == Changed(did.target)
        gain == IF did.target = "stage" THEN "+" ELSE "-"
        loss == IF did.target = "stage" THEN "-" ELSE "+"
        now == text[side].lines
        before == did.before[side].lines
    IN  CASE did.outcome = "done" ->
               /\ Distance(text, did.target)
                    = Distance(did.before, did.target) - Cardinality(DOMAIN did.taken)
               /\ \A l \in ToSet(now) \cup ToSet(before) \cup {did.taken[i][2] : i \in DOMAIN did.taken} :
                    Count(now, l) = Count(before, l) + Taken(gain, l) - Taken(loss, l)
               /\ did.target = "discard" /\ did.before.work.there => text.work.there
          [] did.outcome = "not applicable" ->
               /\ ~did.whole
               /\ \E s \in {OldSide(did.target), NewSide(did.target)} :
                    ToSet(text[s].lines) \cap NoNewline # {}
          [] OTHER -> TRUE
=============================================================================
