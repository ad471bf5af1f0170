-------------------------------- MODULE Conflicts --------------------------------
(***************************************************************************)
(* Conflicted paths and the ways to resolve them (git-core's merge and       *)
(* tools): the hunks the window shows and what Save makes of them, one side  *)
(* for the whole file, the file as it is on disk, and the tools that look at *)
(* it.  The user and other programs change the work tree and the index       *)
(* between any two steps of the worker.  A line is a model value; "<", "="   *)
(* and ">" stand for lines that start like a marker.                         *)
(***************************************************************************)
EXTENDS Naturals, Sequences, SequencesExt, FiniteSets

CONSTANTS
  Contested,          \* the paths, each with a folder of its own
  Clashes,            \* path -> the conflicts a merge may leave there
  Swapped,            \* path -> what a user or a program may put in its place
  Launches,           \* the tools that may be opened
  MaxTurns, MaxSwaps  \* bounds: what the user asks for, and what happens meanwhile

ASSUME ConflictsAssumption ==
  /\ "none" \notin Contested /\ MaxSwaps \in Nat
  /\ \A p \in Contested : \A t \in Swapped[p] :
       /\ t.kind = "none" => t = [kind |-> "none"]
       /\ t.kind = "folder" => t.repo.git \notin {"none", "resolved"}

VARIABLES
  stages,   \* the index: path -> its conflict, its entry, or gone
  known,    \* the worker's copy of it, read again only by a status
  onDisk,   \* path -> what stands there, whether its folder became a link, and what is beyond
  job,      \* the resolution the worker is in the middle of
  pane,     \* the window: the path it shows, its hunks and for which path they are
  asked,    \* requests for hunks under way
  opened,   \* launch -> a diff or merge tool and its side files
  reported,  \* what the last resolution reported
  turns, swaps

conflictVars == <<stages, known, onDisk, job, pane, asked, opened, reported, turns, swaps>>

-----------------------------------------------------------------------------
(* Hunks: a file with conflict markers, and back (parse_conflict_markers).                   *)
CleanHunk(lines) == [kind |-> "clean", ours |-> lines, theirs |-> lines]
Hunk(ours, theirs) == [kind |-> "conflict", ours |-> ours, theirs |-> theirs]

Joined(hunks, pick) ==                       \* pick: hunk -> "ours", "theirs" or "both"
  FlattenSeq([i \in DOMAIN hunks |->
    IF hunks[i].kind = "clean" \/ pick[i] = "ours" THEN hunks[i].ours
    ELSE IF pick[i] = "theirs" THEN hunks[i].theirs ELSE hunks[i].ours \o hunks[i].theirs])
SideText(c, side) == Joined(c.hunks, [i \in DOMAIN c.hunks |-> side])

Rendered(c) ==
  FlattenSeq([i \in DOMAIN c.hunks |->
    LET h == c.hunks[i]
    IN  IF h.kind = "clean" THEN h.ours ELSE <<"<">> \o h.ours \o <<"=">> \o h.theirs \o <<">">>])

Flushed(s) == IF s.clean = <<>> THEN s.hunks ELSE Append(s.hunks, CleanHunk(s.clean))
ParseLine(s, line) ==
  CASE s.within = "clean" /\ line = "<" ->
         [hunks |-> Flushed(s), within |-> "ours", clean |-> <<>>, ours |-> <<>>, theirs |-> <<>>]
    [] s.within = "clean" /\ line # "<" -> [s EXCEPT !.clean = Append(@, line)]
    [] s.within = "ours" /\ line = "=" -> [s EXCEPT !.within = "theirs"]
    [] s.within = "ours" /\ line # "=" -> [s EXCEPT !.ours = Append(@, line)]
    [] s.within = "theirs" /\ line = ">" ->
         [s EXCEPT !.within = "clean", !.hunks = Append(@, Hunk(s.ours, s.theirs))]
    [] OTHER -> [s EXCEPT !.theirs = Append(@, line)]
Parsed(lines) ==
  LET end == FoldLeft(ParseLine,
               [hunks |-> <<>>, within |-> "clean", clean |-> <<>>, ours |-> <<>>, theirs |-> <<>>], lines)
  IN  IF end.within = "clean" THEN Flushed(end) ELSE Append(end.hunks, Hunk(end.ours, end.theirs))

Marked(lines) == \E i \in DOMAIN lines : lines[i] \in {"<", ">"}

-----------------------------------------------------------------------------
(* What stands at a path, and what the index has for it.                                     *)
Nothing == [kind |-> "none"]
FileOf(lines) == [kind |-> "file", text |-> lines, access |-> "free"]
LinkOf(target) == [kind |-> "link", text |-> target]
FolderWith(repo) == [kind |-> "folder", repo |-> repo]

Unmerged(c) == [stage |-> "conflict", of |-> c]
Entry(kind, what) == [stage |-> "entry", kind |-> kind, what |-> what]
Gone == [stage |-> "gone"]

InConflict(p) == known[p].stage = "conflict"
Here(p) == onDisk[p].leaf
Linked(p) == onDisk[p].linked
HasSide(c, side) == side \in c.sides

\* What a merge leaves there: markers, or the side it has; the index's link for links.
LeftOnDisk(c) ==
  CASE c.kind = "link" -> LinkOf(SideText(c, "ours"))
    [] c.kind # "link" /\ {"ours", "theirs"} \subseteq c.sides -> FileOf(Rendered(c))
    [] OTHER -> FileOf(SideText(c, IF HasSide(c, "ours") THEN "ours" ELSE "theirs"))

\* What a path names for a program that follows links.
ByPath(p) == IF Linked(p) THEN onDisk[p].beyond ELSE Here(p)

-----------------------------------------------------------------------------
(* The commit a nested repository has checked out (nested_head): HEAD, symbolic refs, loose  *)
(* and packed, five reads at most.  A name is symbolic if it is one of repo.loose; "odd" is   *)
(* no regular file.                                                                          *)
NotStaged(why) == [id |-> "none", why |-> why]
HeadIs(id) == [id |-> id, why |-> "none"]

InPacked(repo, name) ==
  IF repo.oddPacked THEN NotStaged("unsupported")
  ELSE IF name \in DOMAIN repo.packed THEN HeadIs(repo.packed[name]) ELSE NotStaged("no commit")

\* The search goes on with what a ref says.
Open == NotStaged("open")

\* A deviation: packed refs decide, though a loose one is newer.
Followed_PackedFirst(repo, name) ==
  IF name \in DOMAIN repo.packed \/ repo.loose[name] = "none" THEN InPacked(repo, name)
  ELSE IF repo.loose[name] = "odd" THEN NotStaged("unsupported") ELSE Open

\* How a ref ends the search, if it does.
Followed(repo, name) ==
  IF repo.loose[name] = "none" THEN InPacked(repo, name)
  ELSE IF repo.loose[name] = "odd" THEN NotStaged("unsupported") ELSE Open

ReadRef(repo, s) ==
  IF s.end # Open THEN s
  ELSE IF s.says \in repo.commits THEN [says |-> s.says, end |-> HeadIs(s.says)]
  ELSE IF s.says \in DOMAIN repo.loose
       THEN [says |-> repo.loose[s.says], end |-> Followed(repo, s.says)]
       ELSE [says |-> s.says, end |-> NotStaged("unsupported")]

NestedHead(repo) ==
  IF repo.git # "inside" THEN NotStaged(repo.git)
  ELSE LET Read(s) == ReadRef(repo, s)
           last == Read(Read(Read(Read(Read([says |-> repo.head, end |-> Open])))))
       IN  IF last.end = Open THEN NotStaged("too deep") ELSE last.end

-----------------------------------------------------------------------------
(* A resolution in steps; between two of them anything may change.                           *)
Idle == [do |-> "none"]
Working == job # Idle
Begun(do, p, side, lines, step) ==
  [do |-> do, path |-> p, side |-> side, lines |-> lines, step |-> step, of |-> <<>>, read |-> <<>>,
   stood |-> {Here(p)}, left |-> FALSE]
At(do, step) == Working /\ job.do = do /\ job.step = step

Says(what) == reported' = what /\ job' = Idle
GiveUp == Says("refused") /\ UNCHANGED <<stages, known, onDisk>>
Go(step) == job' = [job EXCEPT !.step = step] /\ UNCHANGED <<stages, known, onDisk, reported>>
WriteIndex(what) ==                          \* the whole copy, whatever the file says by now
  /\ known' = [known EXCEPT ![job.path] = what]
  /\ stages' = known'
Stage(what) == WriteIndex(what) /\ Says("resolved") /\ UNCHANGED onDisk

\* find_conflict, and no link in place of a folder above.
Begin(next, allowed) ==
  /\ ~Working /\ turns < MaxTurns /\ turns' = turns + 1
  /\ IF InConflict(next.path) /\ allowed /\ ~Linked(next.path)
     THEN job' = [next EXCEPT !.of = <<known[next.path].of>>] /\ UNCHANGED reported
     ELSE reported' = "refused" /\ UNCHANGED job
  /\ UNCHANGED <<stages, known, onDisk, opened, swaps>>

PlainFile(p) == known[p].of.kind = "file"
OneSideMissing(p) == known[p].of.sides # {"base", "ours", "theirs"}

SaveResolution(p, lines) ==
  Begin(Begun("resolve", p, "none", lines, "write"), TRUE)
ResolveWholeFile(p, side) ==
  /\ Begin(Begun("whole file", p, side, <<>>, IF InConflict(p) /\ HasSide(known[p].of, side)
                                              THEN "check out" ELSE "remove"), PlainFile(p))
  /\ UNCHANGED <<pane, asked>>
ResolveAddDelete(p, side) ==
  /\ Begin(IF InConflict(p) /\ HasSide(known[p].of, side)
           THEN Begun("add or delete", p, side, SideText(known[p].of, side), "write")
           ELSE Begun("add or delete", p, side, <<>>, "remove"), OneSideMissing(p))
  /\ UNCHANGED <<pane, asked>>
MarkResolved(p, force) ==
  /\ Begin(Begun("mark", p, IF force THEN "forced" ELSE "checked", <<>>, "read"),
           Here(p).kind # "fifo")
  /\ UNCHANGED <<pane, asked>>

\* write_beneath: what stands there is replaced whole, a link itself.
WriteResolved ==
  /\ Working /\ job.step = "write"
  /\ IF Linked(job.path) \/ Here(job.path).kind \in {"folder", "fifo"}
        \/ (Here(job.path).kind = "file" /\ Here(job.path).access = "read-only")
     THEN GiveUp
     ELSE /\ onDisk' = [onDisk EXCEPT ![job.path].leaf = FileOf(job.lines)]
          /\ job' = [job EXCEPT !.step = "stage", !.stood = {}, !.left = FALSE]
          /\ UNCHANGED <<stages, known, reported>>

\* A forced checkout of one side; links above are cleared away before it.
CheckOutSide ==
  /\ Working /\ job.step = "check out"
  /\ IF Here(job.path).kind = "file" /\ Here(job.path).access = "read-only" /\ ~Linked(job.path)
     THEN GiveUp
     ELSE /\ onDisk' = [onDisk EXCEPT ![job.path].linked = FALSE,
                                      ![job.path].leaf = FileOf(SideText(known[job.path].of, job.side))]
          /\ job' = [job EXCEPT !.step = "stage", !.stood = {}, !.left = FALSE]
          /\ UNCHANGED <<stages, known, reported>>

\* The side has no file: remove_beneath, whose refusals only one of the callers heeds.
RemoveFile ==
  /\ Working /\ job.step = "remove"
  /\ LET p == job.path
         stays == Linked(p) \/ Here(p).kind = "folder"
         locked == Here(p).kind = "file" /\ Here(p).access = "unreadable" /\ ~Linked(p)
     IN  IF locked /\ job.do = "whole file" THEN GiveUp
         ELSE /\ onDisk' = IF stays \/ locked THEN onDisk ELSE [onDisk EXCEPT ![p].leaf = Nothing]
              /\ WriteIndex(Gone) /\ Says("resolved")

\* Index::add_path reads what the path names now.
StageByPath ==
  /\ Working /\ job.step = "stage"
  /\ LET t == ByPath(job.path)
     IN  CASE t.kind = "file" /\ t.access # "unreadable" -> Stage(Entry("file", t.text))
           [] t.kind = "link" -> Stage(Entry("link", t.text))
           [] t.kind = "folder" /\ NestedHead(t.repo).why = "none" -> Stage(Entry("gitlink", NestedHead(t.repo).id))
           [] OTHER -> GiveUp

\* mark_resolved: read once, and exactly that is checked and staged.
ReadLeaf ==
  /\ At("mark", "read")
  /\ LET t == Here(job.path)
         kept == [job EXCEPT !.step = "stage what was read", !.read = <<t>>]
     IN  CASE ~Linked(job.path) /\ t.kind = "file" /\ t.access = "unreadable" -> GiveUp \/ Go("probe")
           [] ~Linked(job.path) /\ t.kind = "file" /\ t.access # "unreadable" ->
                IF job.side = "checked" /\ Marked(t.text)
                THEN Says("markers remain") /\ UNCHANGED <<stages, known, onDisk>>
                ELSE job' = kept /\ UNCHANGED <<stages, known, onDisk, reported>>
           [] ~Linked(job.path) /\ t.kind = "link" -> job' = kept /\ UNCHANGED <<stages, known, onDisk, reported>>
           [] OTHER -> Go("probe")

\* A deviation: the path is read again, as add_path would.
WasRead_Again == ByPath(job.path)

WasRead == job.read[1]

StageRead ==
  /\ At("mark", "stage what was read")
  /\ IF WasRead.kind \in {"file", "link"} THEN Stage(Entry(WasRead.kind, WasRead.text)) ELSE GiveUp

\* A deviation: what could not be read is taken for deleted.
Probe_Missing == "none"

Probe == IF Linked(job.path) THEN "beyond link" ELSE Here(job.path).kind

ProbeLeaf ==
  /\ At("mark", "probe")
  /\ CASE Probe = "none" -> Stage(Gone)
       [] Probe = "folder" ->
            /\ job' = [job EXCEPT !.step = "folder held", !.read = <<Here(job.path)>>]
            /\ UNCHANGED <<stages, known, onDisk, reported>>
       [] OTHER -> GiveUp

StageNested ==
  /\ At("mark", "folder held")
  /\ LET head == NestedHead(WasRead.repo)
     IN  IF head.why = "none" THEN Stage(Entry("gitlink", head.id))
         ELSE Says(head.why) /\ UNCHANGED <<stages, known, onDisk>>

JobStops == Working /\ GiveUp                 \* any error of the system or of libgit2

JobSteps ==
  /\ \/ WriteResolved \/ CheckOutSide \/ RemoveFile \/ StageByPath
     \/ ReadLeaf \/ StageRead \/ ProbeLeaf \/ StageNested \/ JobStops
  /\ UNCHANGED <<pane, asked, opened, turns, swaps>>

-----------------------------------------------------------------------------
(* The window (ConflictResolutionPane): hunks arrive for the path that was asked about.      *)
NoPane == [path |-> "none", hunks |-> <<>>, loaded |-> "none", failed |-> FALSE]

ShownHunks(c) == Parsed(Rendered(c))
IsText(c) == c.sides = {"base", "ours", "theirs"} /\ c.kind # "gitlink"
Showing(p) ==
  IF IsText(known[p].of) THEN [path |-> p, hunks |-> ShownHunks(known[p].of), loaded |-> p, failed |-> FALSE]
  ELSE [path |-> p, hunks |-> <<>>, loaded |-> p, failed |-> TRUE]

ShowPath(p) ==
  /\ turns < MaxTurns /\ turns' = turns + 1
  /\ pane.path # p /\ InConflict(p)
  /\ pane' = [pane EXCEPT !.path = p]
  /\ asked' = {[a EXCEPT !.live = FALSE] : a \in asked}
                \cup {[path |-> p, live |-> TRUE, answer |-> "none", hunks |-> <<>>]}
  /\ UNCHANGED <<stages, known, onDisk, job, opened, reported, swaps>>

\* conflict_hunks
AnswerHunks(a) ==
  /\ ~Working /\ a.answer = "none"
  /\ LET c == known[a.path].of
         textual == InConflict(a.path) /\ IsText(c)
     IN  asked' = (asked \ {a}) \cup
           {[a EXCEPT !.answer = IF textual THEN "hunks" ELSE "error",
                      !.hunks = IF textual THEN ShownHunks(c) ELSE <<>>]}
  /\ UNCHANGED <<stages, known, onDisk, job, pane, opened, reported, turns, swaps>>

HunksArrive(a) ==
  /\ a.answer # "none" /\ asked' = asked \ {a}
  /\ pane' = CASE ~a.live -> pane
               [] a.live /\ a.answer = "hunks" ->
                    [pane EXCEPT !.hunks = a.hunks, !.loaded = a.path, !.failed = FALSE]
               [] OTHER -> [pane EXCEPT !.loaded = a.path, !.failed = TRUE]
  /\ UNCHANGED <<stages, known, onDisk, job, opened, reported, turns, swaps>>

\* A deviation: loaded once is loaded for good.
Loaded_Once == pane.loaded # "none"

Loaded == pane.loaded = pane.path

SaveHunks ==
  /\ pane.path # "none" /\ Loaded /\ ~pane.failed
  /\ \E pick \in [DOMAIN pane.hunks -> {"ours", "theirs", "both"}] :
       SaveResolution(pane.path, Joined(pane.hunks, pick))
  /\ UNCHANGED <<pane, asked>>

ClosePane ==                                 \* the status says the path is resolved
  /\ pane.path # "none" /\ ~InConflict(pane.path) /\ ~Working
  /\ pane' = NoPane
  /\ asked' = {[a EXCEPT !.live = FALSE] : a \in asked}
  /\ UNCHANGED <<stages, known, onDisk, job, opened, reported, turns, swaps>>

-----------------------------------------------------------------------------
(* Diff and merge tools: side files in a folder of the launch's own, until the tool ends; a  *)
(* launcher that hands over leaves them, and the next launch clears what is a day old.       *)
NotOpened == [kind |-> "none", dir |-> FALSE, used |-> FALSE, waited |-> FALSE, old |-> FALSE]

\* A deviation: the next launch clears every folder it finds.
Stale_All(l) == l.dir

Stale(l) == l.dir /\ l.old

Swept == [n \in Launches |-> IF Stale(opened[n]) THEN [opened[n] EXCEPT !.dir = FALSE] ELSE opened[n]]

\* check_merge_target
MayMerge(p) ==
  /\ InConflict(p) /\ {"ours", "theirs"} \subseteq known[p].of.sides
  /\ known[p].of.kind = "file" /\ ~Linked(p) /\ Here(p).kind # "link"

\* A new folder, of the old ones those that are not stale; the files in it go if nothing runs.
Launch(n, kind) ==
  /\ ~Working /\ turns < MaxTurns /\ turns' = turns + 1
  /\ opened[n].kind = "none"
  /\ \/ opened' = [Swept EXCEPT ![n] = [kind |-> kind, dir |-> TRUE, used |-> TRUE, waited |-> TRUE,
                                        old |-> FALSE]]
     \/ opened' = [Swept EXCEPT ![n].kind = "failed"]       \* no command line, or no such program
  /\ UNCHANGED <<stages, known, onDisk, job, pane, asked, reported, swaps>>

OpenDiffTool(n) == Launch(n, "diff")
OpenMergeTool(n, p) == MayMerge(p) /\ Launch(n, "merge")

\* The tool ends; whoever waits removes its files.
ToolEnds(n) ==
  /\ opened[n].used
  /\ opened' = [opened EXCEPT ![n].used = FALSE, ![n].dir = @ /\ ~opened[n].waited]
  /\ UNCHANGED <<stages, known, onDisk, job, pane, asked, reported, turns, swaps>>

\* A diff tool that ends at once with success may have handed its files to another process.
HandsOver(n) ==
  /\ opened[n].used /\ opened[n].waited /\ opened[n].kind = "diff"
  /\ opened' = [opened EXCEPT ![n].waited = FALSE]
  /\ UNCHANGED <<stages, known, onDisk, job, pane, asked, reported, turns, swaps>>

ADayPasses ==
  /\ \E n \in Launches : opened[n].dir /\ ~opened[n].old
  /\ opened' = [n \in Launches |-> IF opened[n].dir THEN [opened[n] EXCEPT !.old = TRUE] ELSE opened[n]]
  /\ UNCHANGED <<stages, known, onDisk, job, pane, asked, reported, turns, swaps>>

\* The program ends with tools open: a resolution is cut off, and nobody waits any more.
QuitProgram ==
  /\ job' = Idle /\ known' = stages /\ pane' = NoPane /\ asked' = {}
  /\ opened' = [n \in Launches |-> [opened[n] EXCEPT !.waited = FALSE]]
  /\ UNCHANGED <<stages, onDisk, reported>>

-----------------------------------------------------------------------------
\* After a change the window asks for the status, which reads the index.
RefreshStatus ==
  /\ ~Working /\ known # stages /\ known' = stages
  /\ UNCHANGED <<stages, onDisk, job, pane, asked, opened, reported, turns, swaps>>

Stood(disk) ==
  IF Working
  THEN [job EXCEPT !.stood = @ \cup {disk[job.path].leaf}, !.left = @ \/ disk[job.path].linked]
  ELSE job

BetweenSteps ==
  /\ swaps < MaxSwaps /\ swaps' = swaps + 1
  /\ \/ /\ \/ \E p \in Contested :
                \/ \E t \in Swapped[p] : t # Here(p) /\ onDisk' = [onDisk EXCEPT ![p].leaf = t]
                \/ onDisk' = [onDisk EXCEPT ![p].linked = ~@]
        /\ job' = Stood(onDisk')
        /\ UNCHANGED <<stages, known, pane, asked, opened, reported>>
     \/ /\ \E p \in Contested, c \in UNION {Clashes[q] : q \in Contested} :
             /\ c \in Clashes[p] /\ stages[p] # Unmerged(c)
             /\ stages' = [stages EXCEPT ![p] = Unmerged(c)]
             /\ onDisk' = [onDisk EXCEPT ![p].leaf = LeftOnDisk(c)]
        /\ job' = Stood(onDisk')
        /\ UNCHANGED <<known, pane, asked, opened, reported>>
     \/ QuitProgram
  /\ UNCHANGED turns

ConflictsInit ==
  /\ \E left \in {f \in [Contested -> UNION {Clashes[p] : p \in Contested}] :
                    \A p \in Contested : f[p] \in Clashes[p]} :
       /\ stages = [p \in Contested |-> Unmerged(left[p])]
       /\ onDisk = [p \in Contested |-> [leaf |-> LeftOnDisk(left[p]), linked |-> FALSE,
                                         beyond |-> FileOf(<<"private">>)]]
  /\ known = stages /\ job = Idle /\ asked = {}
  /\ pane \in {NoPane} \cup {Showing(p) : p \in Contested}
  /\ opened = [n \in Launches |-> NotOpened]
  /\ reported = "none" /\ turns = 0 /\ swaps = 0

ConflictsNext ==
  \/ JobSteps \/ SaveHunks \/ ClosePane \/ RefreshStatus \/ BetweenSteps
  \/ \E p \in Contested :
       \/ ShowPath(p)
       \/ \E side \in {"ours", "theirs"} : ResolveWholeFile(p, side)
       \/ \E side \in {"ours", "theirs", "delete"} : ResolveAddDelete(p, side)
       \/ \E force \in BOOLEAN : MarkResolved(p, force)
  \/ \E a \in asked : AnswerHunks(a) \/ HunksArrive(a)

ToolsNext ==
  \/ \E n \in Launches :
       \/ OpenDiffTool(n) \/ ToolEnds(n) \/ HandsOver(n)
       \/ \E p \in Contested : OpenMergeTool(n, p)
  \/ ADayPasses \/ RefreshStatus \/ BetweenSteps

-----------------------------------------------------------------------------
\* git's own reading of HEAD: at most 4 symbolic refs from it to a commit, loose or packed.
SaysAt(repo, chain, i) == IF i = 0 THEN repo.head ELSE repo.loose[chain[i]]
ChainsOf(repo, n) ==
  {chain \in [1..n -> DOMAIN repo.loose] : \A i \in 1..n : chain[i] = SaysAt(repo, chain, i - 1)}

LooseAt(repo, n, id) ==
  id \in repo.commits /\ \E chain \in ChainsOf(repo, n) : SaysAt(repo, chain, n) = id
PackedAt(repo, n, id) ==
  /\ n > 0 /\ ~repo.oddPacked
  /\ \E chain \in ChainsOf(repo, n) :
       /\ repo.loose[chain[n]] = "none"
       /\ chain[n] \in DOMAIN repo.packed /\ repo.packed[chain[n]] = id

GitReads(repo, id) == \E n \in 0..4 : LooseAt(repo, n, id) \/ PackedAt(repo, n, id)

\* The code looks up a fifth ref where it is packed only; git gives up before it.
ReadsTooDeep(repo, id) == PackedAt(repo, 5, id)

\* A side that has a line like a separator is split in the wrong place: left out here.
Splits(c) == \A i \in DOMAIN c.hunks :
  c.hunks[i].kind = "conflict" => \A k \in DOMAIN c.hunks[i].ours : c.hunks[i].ours[k] # "="

MadeOfItsHunks(p, lines) ==
  \E c \in Clashes[p] :
    Splits(c) => \E pick \in [DOMAIN c.hunks -> {"ours", "theirs", "both"}] : lines = Joined(c.hunks, pick)

\* Whatever is picked of the hunks that a file is parsed into can be picked of the conflict's own.
ParsesBack ==
  \A p \in Contested : \A c \in Clashes[p] : IsText(c) =>
    \A pick \in [DOMAIN ShownHunks(c) -> {"ours", "theirs", "both"}] :
      MadeOfItsHunks(p, Joined(ShownHunks(c), pick))

StagedFrom(t, what) ==
  \/ t.kind \in {"file", "link"} /\ what = Entry(t.kind, t.text)
  \/ t.kind = "folder" /\ what.kind = "gitlink"
       /\ (GitReads(t.repo, what.what) \/ ReadsTooDeep(t.repo, what.what))

Chosen ==
  IF job.do = "resolve" THEN job.lines
  ELSE Joined(job.of[1].hunks, [i \in DOMAIN job.of[1].hunks |-> job.side])

\* What the step put in the index is what was chosen, or stood there while it worked.
IndexAsChosen(what) ==
  IF job.do = "mark"
  THEN IF what = Gone THEN Nothing \in job.stood
       ELSE \E t \in job.stood :
              StagedFrom(t, what) /\ (job.side = "checked" /\ t.kind = "file" => ~Marked(t.text))
  ELSE IF what = Gone THEN ~HasSide(job.of[1], job.side)
       ELSE what = Entry("file", Chosen) \/ job.left \/ \E t \in job.stood : StagedFrom(t, what)

DiskAsChosen(p) ==
  /\ job.do # "mark" /\ p = job.path /\ ~onDisk'[p].linked
  /\ onDisk'[p].leaf \in {FileOf(Chosen), Nothing}

StagedAsChosen ==
  /\ \A p \in Contested :
       /\ stages'[p] # stages[p] =>
            Working /\ IF p = job.path THEN IndexAsChosen(stages'[p]) ELSE known # stages
       /\ onDisk'[p] # onDisk[p] => Working /\ DiskAsChosen(p)
  /\ Working /\ stages' = stages => reported' # "resolved" \/ reported = "resolved"

SavesItsHunks == job'.do = "resolve" /\ ~Working => MadeOfItsHunks(job'.path, job'.lines)

ToolsKeepTheirSides ==
  /\ \A n \in Launches : opened'[n].used /\ ~opened'[n].old => opened'[n].dir
  /\ (\E n \in Launches : opened'[n].kind # opened[n].kind) =>
       \A n \in Launches : ~(opened'[n].dir /\ opened'[n].old)

(* Whatever the user, a tool or a terminal does meanwhile, a resolution stages what was       *)
(* chosen or what it read and checked itself, deletes only what is gone or was to go, and     *)
(* writes only there; Save writes hunks of the path it is for; and a tool has its side files  *)
(* while it runs, up to a day (merge, tools, ConflictResolutionPane).                         *)
ConflictsEndAsChosen ==
  [][(swaps' = swaps => StagedAsChosen /\ SavesItsHunks) /\ ToolsKeepTheirSides]_conflictVars
=============================================================================
