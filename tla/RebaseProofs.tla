---------------------------- MODULE RebaseProofs ----------------------------
(***************************************************************************)
(* The interactive rebase for every plan and any number of windows: the    *)
(* branch is only ever moved to the whole plan, and a rebase that has      *)
(* stopped can be continued or aborted.                                    *)
(*                                                                         *)
(* For the first: where a job has got to and what rebase.json holds agree  *)
(* with a prefix of the plan (Whole, Held, Landed), one job works while    *)
(* the others are idle or in their signer (Exclusive), and no branch that  *)
(* HEAD may be on is where such a job expects HEAD (BranchOK, OtherOK).    *)
(*                                                                         *)
(* For the second: while HEAD is detached, either a job under way goes on  *)
(* to save or restore it (Carrier), or the copy that counts is the one     *)
(* that fits HEAD and some window reads it (Carried); the paused pick is   *)
(* that copy's, since no two entries can come next on one commit           *)
(* (PickHeld, OneCursor).                                                  *)
(***************************************************************************)
EXTENDS RebaseProps, WellFoundedInduction, TLAPS

-----------------------------------------------------------------------------
(* Recursion over the entries of a plan                                    *)

(* A set of numbers has a least one: the induction of this module. *)
LEMMA Least ==
  ASSUME NEW T, T \subseteq Nat, T # {}
  PROVE  \E m \in T : \A k \in T : m <= k
<1> DEFINE R == OpToRel(<, Nat)
<1>1. IsWellFoundedOn(R, Nat)
  BY NatLessThanWellFounded
<1>2. \A k, m \in Nat : ~(<<k, m>> \in R) => m <= k
  BY DEF OpToRel
<1> HIDE DEF R
<1>3. PICK m \in T : \A k \in T : ~(<<k, m>> \in R)
  BY <1>1, WFMin
<1>4. \A k \in T : k \in Nat
  OBVIOUS
<1> QED BY <1>2, <1>3, <1>4

(* A set with 0 and every successor up to N has all of them. *)
LEMMA Reaches ==
  ASSUME NEW S, NEW N \in Nat, 0 \in S, \A n \in 0..(N - 1) : n \in S => n + 1 \in S
  PROVE  0..N \subseteq S
<1> DEFINE T == {n \in 0..N : n \notin S}
<1>1. SUFFICES ASSUME T # {} PROVE FALSE
  OBVIOUS
<1>2. T \subseteq Nat
  OBVIOUS
<1>3. PICK m \in T : \A k \in T : m <= k
  BY <1>1, <1>2, Least
<1>4. m \in 0..N /\ m \notin S /\ m # 0
  BY <1>3
<1>5. m - 1 \in 0..(N - 1) /\ m - 1 \notin T /\ m - 1 \in 0..N
  BY <1>3, <1>4
<1>6. m - 1 \in S
  BY <1>5
<1>7. (m - 1) + 1 \in S
  BY <1>5, <1>6
<1> QED BY <1>4, <1>7

(* Upto is what its recursion says: a function with this equation exists for every length. *)
LEMMA UptoIs ==
  ASSUME NEW p, Len(p) \in Nat
  PROVE  Upto(p) = [n \in 0..Len(p) |-> IF n = 0 THEN Onto ELSE WithEntry(p, Upto(p)[n - 1], n)]
<1> DEFINE Is(f, m) == f = [n \in 0..m |-> IF n = 0 THEN Onto ELSE WithEntry(p, f[n - 1], n)]
           S == {m \in Nat : \E f : Is(f, m)}
<1>1. PICK N \in Nat : N = Len(p)
  OBVIOUS
<1>2. 0 \in S
  <2>1. Is([n \in 0..0 |-> Onto], 0)
    OBVIOUS
  <2> QED BY <2>1
<1>3. \A m \in 0..(N - 1) : m \in S => m + 1 \in S
  <2> SUFFICES ASSUME NEW m \in 0..(N - 1), m \in S PROVE m + 1 \in S
    BY Zenon
  <2>4. m \in Nat /\ m + 1 \in Nat
    OBVIOUS
  <2>5. PICK f : Is(f, m)
    OBVIOUS
  <2> DEFINE g == [n \in 0..(m + 1) |-> IF n = m + 1 THEN WithEntry(p, f[m], m + 1) ELSE f[n]]
  <2>1. \A n \in 0..m : f[n] = IF n = 0 THEN Onto ELSE WithEntry(p, f[n - 1], n)
    BY <2>5
  <2>2. \A n \in 0..(m + 1) : g[n] = IF n = 0 THEN Onto ELSE WithEntry(p, g[n - 1], n)
    <3> SUFFICES ASSUME NEW n \in 0..(m + 1)
                 PROVE  g[n] = IF n = 0 THEN Onto ELSE WithEntry(p, g[n - 1], n)
      OBVIOUS
    <3>1. CASE n = m + 1
      <4>1. g[n - 1] = f[m] /\ g[n] = WithEntry(p, f[m], m + 1) /\ n # 0
        BY <3>1
      <4> HIDE DEF g
      <4> QED BY <3>1, <4>1
    <3>2. CASE n \in 1..m
      <4>1. g[n - 1] = f[n - 1] /\ g[n] = f[n] /\ n # 0 /\ n \in 0..m
        BY <3>2
      <4> HIDE DEF g
      <4> QED BY <2>1, <4>1
    <3>3. CASE n = 0
      BY <2>1, <3>3
    <3> QED BY <3>1, <3>2, <3>3
  <2>3. g = [n \in 0..(m + 1) |-> IF n = 0 THEN Onto ELSE WithEntry(p, g[n - 1], n)]
    BY <2>2, Zenon
  <2>6. \E h : Is(h, m + 1)
    BY <2>3
  <2> QED BY <2>4, <2>6
<1>4. N \in S
  <2> HIDE DEF S
  <2>1. 0..N \subseteq S
    BY <1>1, <1>2, <1>3, Reaches
  <2> QED BY <1>1, <2>1
<1>5. \E f : Is(f, Len(p))
  BY <1>1, <1>4
<1>6. Upto(p) = CHOOSE f : Is(f, Len(p))
  BY DEF Upto
<1>7. Is(Upto(p), Len(p))
  <2> HIDE DEF Is
  <2> QED BY <1>5, <1>6
<1> QED BY <1>7

-----------------------------------------------------------------------------
(* Types *)

Commits == Seq(SUBSET Int)
Rebases == [cursor : Nat, group : Commits, expected : Commits, stop : {"error", "edit", "conflict"}]
Pcs ==
  {"idle", "detach", "next", "land", "commit", "adopt", "landed", "clear", "finish", "attach",
   "clean", "restore", "abort", "failed", "keep", "forget"}
RebaseJobs ==
  [pc : Pcs, mode : {"none", "start", "continue", "abort", "roll back"}, st : Rebases,
   loaded : Rebases, parent : Commits, ok : BOOLEAN]

GitTypeOK ==
  /\ plan \in Plans /\ ValidPlan(plan)
  /\ head \in {"branch", "other", "detached"}
  /\ at \in Commits /\ branch \in Commits /\ other \in Commits
  /\ pick \in Foreign..Len(plan) /\ conflict \in BOOLEAN
StoreTypeOK ==
  /\ file \in Rebases /\ fallback \in [Workers -> Rebases] /\ forgotten \in [Workers -> Rebases]
JobTypeOK == job \in [Workers -> RebaseJobs]
RebaseTypeOK ==
  /\ GitTypeOK /\ StoreTypeOK /\ JobTypeOK /\ excused \in BOOLEAN /\ uncleared \in BOOLEAN

LEMMA Given ==
  /\ Onto \in Commits /\ OldTip \in Commits /\ NoCommit \in Commits /\ Elsewhere \in Commits
  /\ NoRebase \in Rebases /\ NoRebase.cursor = 0 /\ NoRebase.group = NoCommit
  /\ NoRebase.expected = NoCommit /\ NoRebase.stop = "error"
  /\ NoJob \in RebaseJobs /\ NoJob.pc = "idle" /\ NoJob.mode = "none" /\ NoJob.st = NoRebase
  /\ NoJob.loaded = NoRebase /\ NoJob.parent = NoCommit /\ NoJob.ok = FALSE
<1>1. \A n \in Int : << {n} >> \in Commits
  BY DEF Commits
<1>2. Onto \in Commits /\ OldTip \in Commits /\ NoCommit \in Commits /\ Elsewhere \in Commits
  <2>1. Onto \in Commits
    BY DEF Commits, Onto
  <2> QED BY <1>1, <2>1 DEF OldTip, NoCommit, Elsewhere
<1>3. /\ NoRebase \in Rebases /\ NoRebase.cursor = 0 /\ NoRebase.group = NoCommit
      /\ NoRebase.expected = NoCommit /\ NoRebase.stop = "error"
  BY <1>2 DEF NoRebase, Rebases
<1>4. /\ NoJob \in RebaseJobs /\ NoJob.pc = "idle" /\ NoJob.mode = "none" /\ NoJob.st = NoRebase
      /\ NoJob.loaded = NoRebase /\ NoJob.parent = NoCommit /\ NoJob.ok = FALSE
  BY <1>2, <1>3 DEF NoJob, RebaseJobs, Pcs
<1> QED BY <1>2, <1>3, <1>4

LEMMA PlanIs ==
  ASSUME GitTypeOK
  PROVE  /\ plan \in Seq(Actions) /\ Len(plan) \in Nat /\ DOMAIN plan = 1..Len(plan)
         /\ \A i \in 1..Len(plan) : plan[i] \in Actions
<1>1. plan \in Seq(Actions)
  BY PlansAssumption DEF GitTypeOK
<1> QED BY <1>1

LEMMA HeadIs ==
  ASSUME GitTypeOK
  PROVE  /\ HeadCommit \in Commits
         /\ head = "branch" => HeadCommit = branch
         /\ head = "other" => HeadCommit = other
         /\ head = "detached" => HeadCommit = at
BY DEF GitTypeOK, HeadCommit

(* How a job goes on, and how it ends. *)
LEMMA Went ==
  ASSUME JobTypeOK, NEW w \in Workers, NEW pc \in Pcs, NEW st \in Rebases, GotoWith(w, pc, st)
  PROVE  /\ JobTypeOK' /\ job'[w].pc = pc /\ job'[w].st = st /\ job'[w].mode = job[w].mode
         /\ job'[w].loaded = job[w].loaded /\ job'[w].parent = job[w].parent
         /\ job'[w].ok = job[w].ok
         /\ \A v \in Workers : v # w => job'[v] = job[v]
<1> DEFINE j == [job[w] EXCEPT !.pc = pc, !.st = st]
<1>1. job' = [job EXCEPT ![w] = j]
  BY DEF GotoWith, JobTypeOK
<1>2. job[w] \in RebaseJobs
  BY DEF JobTypeOK
<1>3. /\ j \in RebaseJobs /\ j.pc = pc /\ j.st = st /\ j.mode = job[w].mode
      /\ j.loaded = job[w].loaded /\ j.parent = job[w].parent /\ j.ok = job[w].ok
  BY <1>2 DEF RebaseJobs
<1> HIDE DEF j
<1> QED BY <1>1, <1>3 DEF JobTypeOK

LEMMA WentTo ==
  ASSUME JobTypeOK, NEW w \in Workers, NEW pc \in Pcs, Goto(w, pc)
  PROVE  /\ JobTypeOK' /\ job'[w].pc = pc /\ job'[w].st = job[w].st /\ job'[w].mode = job[w].mode
         /\ job'[w].loaded = job[w].loaded /\ job'[w].parent = job[w].parent
         /\ job'[w].ok = job[w].ok
         /\ \A v \in Workers : v # w => job'[v] = job[v]
<1> DEFINE j == [job[w] EXCEPT !.pc = pc]
<1>1. job' = [job EXCEPT ![w] = j]
  BY DEF Goto, JobTypeOK
<1>2. job[w] \in RebaseJobs
  BY DEF JobTypeOK
<1>3. /\ j \in RebaseJobs /\ j.pc = pc /\ j.st = job[w].st /\ j.mode = job[w].mode
      /\ j.loaded = job[w].loaded /\ j.parent = job[w].parent /\ j.ok = job[w].ok
  BY <1>2 DEF RebaseJobs
<1> HIDE DEF j
<1> QED BY <1>1, <1>3 DEF JobTypeOK

LEMMA Ended ==
  ASSUME JobTypeOK, NEW w \in Workers, Stop(w)
  PROVE  /\ JobTypeOK' /\ job'[w] = NoJob /\ job'[w].pc = "idle"
         /\ \A v \in Workers : v # w => job'[v] = job[v]
BY Given DEF Stop, JobTypeOK

LEMMA WentWrong ==
  ASSUME JobTypeOK, NEW w \in Workers, NEW st \in Rebases, Failed(w, st)
  PROVE  /\ JobTypeOK' /\ \A v \in Workers : v # w => job'[v] = job[v]
         /\ \/ job[w].mode = "start" /\ job'[w].pc = "restore" /\ job'[w].mode = "roll back"
               /\ job'[w].st = st /\ job'[w].ok = job[w].ok
            \/ /\ job[w].mode = "continue" /\ job'[w].pc = "failed" /\ job'[w].mode = "continue"
               /\ job'[w].st = st /\ job'[w].loaded = job[w].loaded /\ job'[w].ok = job[w].ok
            \/ /\ job[w].mode \notin {"start", "continue"} /\ job'[w] = NoJob
<1>1. job[w] \in RebaseJobs
  BY DEF JobTypeOK
<1>2. CASE job[w].mode = "start"
  <2> DEFINE j == [job[w] EXCEPT !.pc = "restore", !.mode = "roll back", !.st = st]
  <2>1. job' = [job EXCEPT ![w] = j]
    BY <1>2 DEF Failed, JobTypeOK
  <2>2. /\ j \in RebaseJobs /\ j.pc = "restore" /\ j.mode = "roll back" /\ j.st = st
        /\ j.ok = job[w].ok
    BY <1>1 DEF RebaseJobs, Pcs
  <2> HIDE DEF j
  <2> QED BY <1>2, <2>1, <2>2 DEF JobTypeOK
<1>3. CASE job[w].mode = "continue"
  <2>1. GotoWith(w, "failed", st)
    BY <1>3 DEF Failed, GotoWith
  <2> QED BY <1>3, <2>1, Went DEF Pcs
<1>4. CASE job[w].mode \notin {"start", "continue"}
  <2>1. Stop(w)
    BY <1>4 DEF Failed, Stop
  <2> QED BY <1>4, <2>1, Ended
<1> QED BY <1>2, <1>3, <1>4

LEMMA WentToKeep ==
  ASSUME JobTypeOK, NEW w \in Workers, NEW st \in Rebases, Paused(w, st)
  PROVE  /\ JobTypeOK' /\ job'[w].pc = "keep" /\ job'[w].st = st /\ job'[w].ok
         /\ job'[w].mode = job[w].mode /\ job'[w].loaded = job[w].loaded
         /\ \A v \in Workers : v # w => job'[v] = job[v]
<1> DEFINE j == [job[w] EXCEPT !.pc = "keep", !.st = st, !.ok = TRUE]
<1>1. job' = [job EXCEPT ![w] = j]
  BY DEF Paused, JobTypeOK
<1>2. job[w] \in RebaseJobs
  BY DEF JobTypeOK
<1>3. /\ j \in RebaseJobs /\ j.pc = "keep" /\ j.st = st /\ j.ok /\ j.mode = job[w].mode
      /\ j.loaded = job[w].loaded
  BY <1>2 DEF RebaseJobs, Pcs
<1> HIDE DEF j
<1> QED BY <1>1, <1>3 DEF JobTypeOK

LEMMA Moved ==
  ASSUME GitTypeOK, NEW c \in Commits, MoveHead(c)
  PROVE  at' \in Commits /\ branch' \in Commits /\ other' \in Commits /\ head' = head
BY DEF MoveHead, GitTypeOK

(* Git's side and the stores, where they stay as they are. *)
LEMMA GitStays ==
  ASSUME GitTypeOK, UNCHANGED <<plan, gitVars>> PROVE GitTypeOK'
BY DEF GitTypeOK, gitVars

LEMMA StoresStay ==
  ASSUME StoreTypeOK, UNCHANGED storeVars PROVE StoreTypeOK'
BY DEF StoreTypeOK, storeVars

LEMMA StoredIs ==
  ASSUME StoreTypeOK, NEW w \in Workers PROVE Stored(w) \in Rebases
BY Given DEF StoreTypeOK, Stored

LEMMA CommandTyped ==
  ASSUME RebaseTypeOK, NEW w \in Workers, Start(w) \/ Continue(w) \/ Abort(w)
  PROVE  RebaseTypeOK'
<1>1. GitTypeOK' /\ StoreTypeOK' /\ uncleared' \in BOOLEAN
  BY GitStays, StoresStay DEF RebaseTypeOK, Start, Continue, Abort
<1>2. excused' \in BOOLEAN
  BY DEF RebaseTypeOK, Start, Continue, Abort, PassesOver
<1>3. JobTypeOK /\ Stored(w) \in Rebases /\ job[w] \in RebaseJobs
  BY StoredIs DEF RebaseTypeOK, JobTypeOK
<1>4. CASE Start(w)
  <2> DEFINE j == [job[w] EXCEPT !.pc = "detach", !.mode = "start"]
  <2>1. job' = [job EXCEPT ![w] = j]
    BY <1>3, <1>4 DEF Start, JobTypeOK
  <2>2. j \in RebaseJobs
    BY <1>3 DEF RebaseJobs, Pcs
  <2> HIDE DEF j
  <2>3. JobTypeOK'
    BY <1>3, <2>1, <2>2 DEF JobTypeOK
  <2> QED BY <1>1, <1>2, <2>3 DEF RebaseTypeOK
<1>5. CASE Continue(w)
  <2> DEFINE j == [NoJob EXCEPT !.pc = Resume(Stored(w)), !.mode = "continue", !.st = Stored(w),
                     !.loaded = Stored(w)]
  <2>1. job' = [job EXCEPT ![w] = j]
    BY <1>5 DEF Continue
  <2>2. Resume(Stored(w)) \in Pcs
    BY <1>5 DEF Continue, Resume, Pcs
  <2>3. j \in RebaseJobs
    BY <1>3, <2>2, Given DEF RebaseJobs
  <2> HIDE DEF j
  <2>4. JobTypeOK'
    BY <1>3, <2>1, <2>3 DEF JobTypeOK
  <2> QED BY <1>1, <1>2, <2>4 DEF RebaseTypeOK
<1>6. CASE Abort(w)
  <2> DEFINE j == [job[w] EXCEPT !.pc = "abort", !.mode = "abort", !.st = Stored(w)]
  <2>1. job' = [job EXCEPT ![w] = j]
    BY <1>3, <1>6 DEF Abort, JobTypeOK
  <2>2. j \in RebaseJobs
    BY <1>3 DEF RebaseJobs, Pcs
  <2> HIDE DEF j
  <2>3. JobTypeOK'
    BY <1>3, <2>1, <2>2 DEF JobTypeOK
  <2> QED BY <1>1, <1>2, <2>3 DEF RebaseTypeOK
<1> QED BY <1>4, <1>5, <1>6

(* Every step leaves a job with a stored state of its type. *)
LEMMA StepTyped ==
  ASSUME RebaseTypeOK, NEW w \in Workers, Step(w)
  PROVE  RebaseTypeOK'
<1>1. /\ GitTypeOK /\ StoreTypeOK /\ JobTypeOK /\ excused \in BOOLEAN /\ uncleared \in BOOLEAN
      /\ job[w] \in RebaseJobs /\ job[w].st \in Rebases /\ job[w].st.cursor \in Nat
      /\ HeadCommit \in Commits /\ job[w].st.expected \in Commits /\ job[w].st.group \in Commits
      /\ job[w].parent \in Commits
  BY HeadIs DEF RebaseTypeOK, JobTypeOK, RebaseJobs, Rebases
<1> DEFINE st == job[w].st
<1>2. \A c \in Commits, n \in Nat : Append(c, {n}) \in Commits
  BY DEF Commits
<1>3. NoPick \in Foreign..Len(plan) /\ \A n \in Nat : n <= Len(plan) => n \in Foreign..Len(plan)
  BY <1>1, PlanIs DEF NoPick, Foreign
<1>4. CASE Detach(w)
  <2> DEFINE new == [cursor |-> 1, group |-> NoCommit, expected |-> Onto, stop |-> "error"]
  <2>1. new \in Rebases /\ "next" \in Pcs
    BY Given DEF Rebases, Pcs
  <2> HIDE DEF new
  <2>2. JobTypeOK'
    BY <1>1, <1>4, <2>1, Went, Ended DEF Detach, new
  <2>3. GitTypeOK' /\ StoreTypeOK' /\ UNCHANGED outside
    BY <1>1, <1>4, Given, StoresStay DEF Detach, GitTypeOK
  <2> QED BY <1>1, <2>2, <2>3 DEF RebaseTypeOK, outside
<1>5. CASE Advance(w)
  <2> DEFINE grouped == [st EXCEPT !.group = GroupOf(st)]
  <2>1. GroupOf(st) \in Commits
    BY <1>1 DEF GroupOf
  <2>2. grouped \in Rebases /\ [st EXCEPT !.cursor = @ + 1] \in Rebases
    BY <1>1, <2>1 DEF Rebases
  <2>3. /\ [grouped EXCEPT !.stop = "conflict"] \in Rebases
        /\ [grouped EXCEPT !.stop = "edit"] \in Rebases
    BY <2>2 DEF Rebases
  <2>4. JobTypeOK'
    <3>1. {"next", "land", "finish"} \subseteq Pcs
      BY DEF Pcs
    <3> HIDE DEF grouped
    <3> QED BY <1>1, <1>5, <2>2, <2>3, <3>1, Went, WentTo, WentWrong, WentToKeep
            DEF Advance, grouped
  <2>5. GitTypeOK' /\ StoreTypeOK' /\ UNCHANGED outside
    <3>1. pick' \in Foreign..Len(plan) /\ conflict' \in BOOLEAN
      BY <1>1, <1>3, <1>5 DEF Advance, GitTypeOK
    <3> QED BY <1>1, <1>5, <3>1, StoresStay DEF Advance, GitTypeOK
  <2> QED BY <1>1, <2>4, <2>5 DEF RebaseTypeOK, outside
<1>6. CASE Land(w)
  <2>1. JobTypeOK'
    <3>1. CASE conflict
      BY <1>1, <1>6, <3>1, WentWrong DEF Land
    <3>2. CASE ~conflict
      <4> DEFINE j == [job[w] EXCEPT !.pc = "commit", !.parent = HeadCommit]
      <4>1. job' = [job EXCEPT ![w] = j]
        BY <1>1, <1>6, <3>2 DEF Land, JobTypeOK
      <4>2. j \in RebaseJobs
        BY <1>1 DEF RebaseJobs, Pcs
      <4> HIDE DEF j
      <4> QED BY <1>1, <4>1, <4>2 DEF JobTypeOK
    <3> QED BY <3>1, <3>2
  <2>2. GitTypeOK' /\ StoreTypeOK' /\ UNCHANGED outside
    BY <1>1, <1>6, GitStays, StoresStay DEF Land
  <2> QED BY <1>1, <2>1, <2>2 DEF RebaseTypeOK, outside
<1>7. CASE Commit(w)
  <2> DEFINE new == Append(job[w].parent, {st.cursor})
  <2>1. new \in Commits
    BY <1>1, <1>2
  <2>2. [st EXCEPT !.expected = new] \in Rebases /\ "landed" \in Pcs
    BY <1>1, <2>1 DEF Rebases, Pcs
  <2> HIDE DEF new
  <2>3. JobTypeOK'
    BY <1>1, <1>7, <2>2, Went, WentWrong DEF Commit, new
  <2>4. at' \in Commits /\ branch' \in Commits /\ other' \in Commits /\ head' = head
    <3>1. MoveHead(new) \/ UNCHANGED <<head, at, branch, other>>
      BY <1>7 DEF Commit, new
    <3> QED BY <1>1, <2>1, <3>1, Moved DEF GitTypeOK
  <2>5. GitTypeOK' /\ StoreTypeOK' /\ UNCHANGED outside
    BY <1>1, <1>7, <2>4, StoresStay DEF Commit, GitTypeOK
  <2> QED BY <1>1, <2>3, <2>5 DEF RebaseTypeOK, outside
<1>8. CASE Adopt(w)
  <2>1. [st EXCEPT !.expected = HeadCommit] \in Rebases /\ "landed" \in Pcs
    BY <1>1 DEF Rebases, Pcs
  <2>2. JobTypeOK'
    BY <1>1, <1>8, <2>1, Went, WentWrong DEF Adopt
  <2>3. GitTypeOK' /\ StoreTypeOK' /\ UNCHANGED outside
    BY <1>1, <1>8, GitStays, StoresStay DEF Adopt
  <2> QED BY <1>1, <2>2, <2>3 DEF RebaseTypeOK, outside
<1>9. CASE AfterLanded(w)
  <2> DEFINE all == Collapsed(st)
  <2>1. all \in Commits
    <3>1. \A i \in (Len(st.group) + 1)..Len(HeadCommit) : HeadCommit[i] \subseteq Int
      BY <1>1 DEF Commits
    <3>2. UNION {HeadCommit[i] : i \in (Len(st.group) + 1)..Len(HeadCommit)} \in SUBSET Int
      BY <3>1
    <3> QED BY <1>1, <3>2 DEF Collapsed, Commits
  <2>2. /\ [st EXCEPT !.expected = HeadCommit] \in Rebases
        /\ [st EXCEPT !.expected = all, !.group = NoCommit] \in Rebases /\ "clear" \in Pcs
    BY <1>1, <2>1, Given DEF Rebases, Pcs
  <2> HIDE DEF all
  <2>3. JobTypeOK'
    BY <1>1, <1>9, <2>2, Went, WentWrong DEF AfterLanded, all
  <2>4. GitTypeOK' /\ StoreTypeOK' /\ UNCHANGED outside
    <3>1. head' \in {head, "detached"} /\ at' \in {at, all}
      BY <1>9 DEF AfterLanded, all
    <3> QED BY <1>1, <1>9, <2>1, <3>1, StoresStay DEF AfterLanded, GitTypeOK
  <2> QED BY <1>1, <2>3, <2>4 DEF RebaseTypeOK, outside
<1>10. CASE ClearStep(w)
  <2>1. [st EXCEPT !.cursor = @ + 1] \in Rebases /\ "next" \in Pcs
    BY <1>1 DEF Rebases, Pcs
  <2>2. JobTypeOK'
    BY <1>1, <1>10, <2>1, Went, WentWrong DEF ClearStep
  <2>3. GitTypeOK' /\ StoreTypeOK' /\ UNCHANGED excused /\ uncleared' \in BOOLEAN
    <3>1. pick' \in {pick, NoPick}
      BY <1>10 DEF ClearStep
    <3> QED BY <1>1, <1>3, <1>10, <3>1, StoresStay DEF ClearStep, GitTypeOK
  <2> QED BY <1>1, <2>2, <2>3 DEF RebaseTypeOK
<1>11. CASE Finish(w)
  <2>1. "attach" \in Pcs
    BY DEF Pcs
  <2>2. JobTypeOK'
    BY <1>1, <1>11, <2>1, WentTo, WentWrong DEF Finish
  <2>3. GitTypeOK' /\ StoreTypeOK' /\ UNCHANGED outside
    <3>1. branch' \in {branch, HeadCommit}
      BY <1>11 DEF Finish
    <3> QED BY <1>1, <1>11, <3>1, StoresStay DEF Finish, GitTypeOK
  <2> QED BY <1>1, <2>2, <2>3 DEF RebaseTypeOK, outside
<1>12. CASE Attach(w)
  <2>1. "clean" \in Pcs
    BY DEF Pcs
  <2>2. JobTypeOK'
    BY <1>1, <1>12, <2>1, WentTo, WentWrong DEF Attach
  <2>3. GitTypeOK' /\ StoreTypeOK' /\ excused' \in BOOLEAN /\ UNCHANGED uncleared
    <3>1. head' \in {head, "branch"}
      BY <1>12 DEF Attach
    <3> QED BY <1>1, <1>12, <3>1, StoresStay DEF Attach, GitTypeOK, RollBackMayFail
  <2> QED BY <1>1, <2>2, <2>3 DEF RebaseTypeOK
<1>13. CASE Clean(w)
  <2>1. "forget" \in Pcs
    BY DEF Pcs
  <2>2. JobTypeOK'
    BY <1>1, <1>13, <2>1, WentTo, WentWrong, Ended DEF Clean
  <2>3. GitTypeOK' /\ StoreTypeOK' /\ excused' \in BOOLEAN /\ UNCHANGED uncleared
    <3>1. pick' \in {pick, NoPick}
      BY <1>13 DEF Clean
    <3> QED BY <1>1, <1>3, <1>13, <3>1, StoresStay DEF Clean, GitTypeOK, RollBackMayFail
  <2> QED BY <1>1, <2>2, <2>3 DEF RebaseTypeOK
<1>14. CASE Restore(w)
  <2>1. "attach" \in Pcs
    BY DEF Pcs
  <2>2. JobTypeOK'
    BY <1>1, <1>14, <2>1, WentTo, WentWrong DEF Restore
  <2>3. GitTypeOK' /\ StoreTypeOK' /\ excused' \in BOOLEAN /\ UNCHANGED uncleared
    <3>1. conflict' \in BOOLEAN
      BY <1>1, <1>14 DEF Restore, GitTypeOK
    <3> QED BY <1>1, <1>14, <3>1, StoresStay DEF Restore, GitTypeOK, RollBackMayFail
  <2> QED BY <1>1, <2>2, <2>3 DEF RebaseTypeOK
<1>15. CASE AbortRebase(w)
  <2>1. "restore" \in Pcs /\ "forget" \in Pcs
    BY DEF Pcs
  <2>2. JobTypeOK'
    BY <1>1, <1>15, <2>1, WentTo, Ended DEF AbortRebase
  <2>3. GitTypeOK' /\ StoreTypeOK' /\ UNCHANGED outside
    <3>1. pick' \in {pick, NoPick} /\ conflict' \in BOOLEAN
      BY <1>1, <1>15 DEF AbortRebase, GitTypeOK
    <3> QED BY <1>1, <1>3, <1>15, <3>1, StoresStay DEF AbortRebase, GitTypeOK
  <2> QED BY <1>1, <2>2, <2>3 DEF RebaseTypeOK, outside
<1>16. CASE ContinueFailed(w)
  <2>1. [st EXCEPT !.stop = StopOf(st)] \in Rebases /\ "keep" \in Pcs
    <3>1. st.stop \in {"error", "edit", "conflict"}
      BY <1>1 DEF Rebases
    <3>2. StopOf(st) \in {"error", "edit", "conflict"}
      BY <3>1 DEF StopOf
    <3> QED BY <1>1, <3>2 DEF Rebases, Pcs
  <2>2. JobTypeOK'
    BY <1>1, <1>16, <2>1, Went DEF ContinueFailed
  <2>3. GitTypeOK' /\ StoreTypeOK' /\ UNCHANGED outside
    BY <1>1, <1>16, GitStays, StoresStay DEF ContinueFailed
  <2> QED BY <1>1, <2>2, <2>3 DEF RebaseTypeOK, outside
<1>17. CASE Leave(w)
  <2>1. JobTypeOK' /\ GitTypeOK' /\ StoreTypeOK' /\ UNCHANGED outside
    BY <1>1, <1>17, Ended, GitStays, StoresStay DEF Leave
  <2> QED BY <1>1, <2>1 DEF RebaseTypeOK, outside
<1>18. CASE Save(w)
  <2>1. JobTypeOK' /\ GitTypeOK' /\ excused' \in BOOLEAN /\ UNCHANGED uncleared
    BY <1>1, <1>18, Ended, GitStays DEF Save
  <2>2. StoreTypeOK'
    BY <1>1, <1>18, Given DEF Save, StoreTypeOK
  <2> QED BY <1>1, <2>1, <2>2 DEF RebaseTypeOK
<1>19. CASE Forget(w)
  <2>1. JobTypeOK' /\ GitTypeOK' /\ UNCHANGED outside
    BY <1>1, <1>19, Ended, GitStays DEF Forget
  <2>2. StoreTypeOK'
    BY <1>1, <1>19, Given DEF Forget, StoreTypeOK
  <2> QED BY <1>1, <2>1, <2>2 DEF RebaseTypeOK, outside
<1> QED
  BY <1>4, <1>5, <1>6, <1>7, <1>8, <1>9, <1>10, <1>11, <1>12, <1>13, <1>14, <1>15, <1>16, <1>17,
     <1>18, <1>19 DEF Step

LEMMA OutsideTyped ==
  ASSUME RebaseTypeOK, Terminal \/ \E w \in Workers : Crash(w)
  PROVE  RebaseTypeOK'
<1>1. /\ GitTypeOK /\ StoreTypeOK /\ JobTypeOK /\ excused \in BOOLEAN /\ uncleared \in BOOLEAN
      /\ HeadCommit \in Commits /\ pick \in Foreign..Len(plan) /\ Len(plan) \in Nat
  BY HeadIs, PlanIs DEF RebaseTypeOK, GitTypeOK
<1>2. /\ NoPick \in Foreign..Len(plan) /\ Foreign \in Foreign..Len(plan) /\ pick \in Int
  BY <1>1 DEF NoPick, Foreign
<1>3. \A c \in Commits : \A s \in SUBSET Int : Append(c, s) \in Commits
  BY DEF Commits
<1>4. CASE \E w \in Workers : Crash(w)
  <2>1. PICK w \in Workers : Crash(w)
    BY <1>4
  <2>2. JobTypeOK' /\ StoreTypeOK'
    BY <1>1, <2>1, Given DEF Crash, JobTypeOK, StoreTypeOK
  <2>3. GitTypeOK' /\ excused' \in BOOLEAN /\ UNCHANGED uncleared
    BY <1>1, <2>1, GitStays DEF Crash
  <2> QED BY <1>1, <2>2, <2>3 DEF RebaseTypeOK
<1>5. CASE Terminal
  <2>1. UNCHANGED <<plan, storeVars, job, uncleared>> /\ excused' \in BOOLEAN
    BY <1>1, <1>5 DEF Terminal, Resolve, CommitByHand, SkipByHand, Diverge, outside
  <2>2. GitTypeOK'
    <3>1. CASE Resolve
      BY <1>1, <3>1 DEF Resolve, GitTypeOK
    <3>2. CASE SkipByHand
      BY <1>1, <1>2, <3>2 DEF SkipByHand, GitTypeOK
    <3>3. CASE CommitByHand
      <4>1. PICK s \in SUBSET Int :
              MoveHead(Append(HeadCommit, s)) /\ UNCHANGED <<plan, conflict>> /\ pick' = NoPick
        <5>1. {pick} \in SUBSET Int /\ {} \in SUBSET Int
          BY <1>2
        <5> QED BY <3>3, <5>1 DEF CommitByHand
      <4>2. Append(HeadCommit, s) \in Commits
        BY <1>1, <1>3
      <4>3. at' \in Commits /\ branch' \in Commits /\ other' \in Commits /\ head' = head
        BY <1>1, <4>1, <4>2, Moved
      <4> QED BY <1>1, <1>2, <4>1, <4>3 DEF GitTypeOK
    <3>4. CASE Diverge
      <4>1. Append(HeadCommit, {}) \in Commits /\ Append(branch, {}) \in Commits
        BY <1>1, <1>3 DEF GitTypeOK
      <4>2. /\ at' \in Commits /\ branch' \in Commits /\ other' \in Commits
            /\ head' \in {head, "other", "branch"} /\ pick' \in {pick, NoPick, Foreign}
            /\ conflict' = conflict
        <5>1. MoveHead(Append(HeadCommit, {})) =>
                at' \in Commits /\ branch' \in Commits /\ other' \in Commits /\ head' = head
          BY <1>1, <4>1, Moved
        <5>2. at \in Commits /\ branch \in Commits /\ other \in Commits
          BY <1>1 DEF GitTypeOK
        <5> QED BY <3>4, <4>1, <5>1, <5>2, Given DEF Diverge
      <4> QED BY <1>1, <1>2, <2>1, <4>2 DEF GitTypeOK
    <3> QED BY <1>5, <3>1, <3>2, <3>3, <3>4 DEF Terminal
  <2>3. StoreTypeOK' /\ JobTypeOK'
    BY <1>1, <2>1, StoresStay DEF JobTypeOK
  <2> QED BY <1>1, <2>1, <2>2, <2>3 DEF RebaseTypeOK
<1> QED BY <1>4, <1>5

LEMMA RebaseTyped == RebaseTypeOK /\ [Next]_vars => RebaseTypeOK'
<1>1. RebaseTypeOK /\ UNCHANGED vars => RebaseTypeOK'
  BY DEF vars, gitVars, storeVars, outside, RebaseTypeOK, GitTypeOK, StoreTypeOK, JobTypeOK
<1> QED BY <1>1, CommandTyped, StepTyped, OutsideTyped DEF Next

LEMMA RebaseStartsTyped == Init => RebaseTypeOK
<1> SUFFICES ASSUME Init PROVE RebaseTypeOK
  OBVIOUS
<1>1. plan \in Seq(Actions)
  BY PlansAssumption DEF Init
<1>2. NoPick \in Foreign..Len(plan)
  BY <1>1 DEF NoPick, Foreign
<1>3. GitTypeOK
  BY <1>2, Given DEF Init, GitTypeOK
<1>4. StoreTypeOK /\ JobTypeOK
  BY Given DEF Init, StoreTypeOK, JobTypeOK
<1> QED BY <1>3, <1>4 DEF Init, RebaseTypeOK

-----------------------------------------------------------------------------
(* What the plan asks for *)

Sets(p) == (SUBSET (1..Len(p))) \ {{}}

(* Sequence d is t with s added to its element k. *)
Adds(t, d, k, s) ==
  Len(d) = Len(t) /\ \A i \in 1..Len(t) : d[i] = IF i = k THEN t[i] \cup s ELSE t[i]

Entered(p, n, t, d) ==
  /\ d \in Seq(Sets(p)) /\ Len(t) <= Len(d)
  /\ \A i \in 1..Len(t) : t[i] \subseteq d[i]
  /\ \A i \in 1..Len(d) : \A e \in d[i] : e < n + 1
  /\ p[n] # "drop" => d # << >> /\ n \in d[Len(d)]
  /\ p[n] = "drop" => d = t
  /\ p[n] = "squash" => Adds(t, d, Len(t), {n})
  /\ p[n] \notin {"drop", "squash"} => d = Append(t, {n}) /\ Len(d) = Len(t) + 1

LEMMA SameSeq ==
  ASSUME NEW U, NEW c \in Seq(U), NEW d \in Seq(U), Len(c) = Len(d),
         \A i \in 1..Len(c) : c[i] = d[i]
  PROVE  c = d
OBVIOUS

(* What one entry makes of a commit that carries earlier entries only. *)
LEMMA OneEntry ==
  ASSUME NEW p \in Seq(Actions), NEW n \in 1..Len(p), NEW t \in Seq(Sets(p)),
         p[n] = "squash" => t # << >>,
         \A i \in 1..Len(t) : \A e \in t[i] : e < n,
         NEW d, d = WithEntry(p, t, n)
  PROVE  Entered(p, n, t, d)
<1>1. /\ Len(t) \in Nat /\ \A i \in 1..Len(t) : t[i] \in Sets(p) /\ t[i] \subseteq Int
      /\ DOMAIN t = 1..Len(t)
      /\ n \in Int /\ {n} \in Sets(p)
  BY DEF Sets
<1>2. \A i \in 1..Len(t) : \A e \in t[i] : e < n + 1
  BY <1>1
<1>3. CASE p[n] = "drop"
  <2>1. d = t
    BY <1>3 DEF WithEntry
  <2> QED BY <1>1, <1>2, <1>3, <2>1 DEF Entered
<1>4. CASE p[n] = "squash"
  <2>1. d = [t EXCEPT ![Len(t)] = @ \cup {n}]
    BY <1>4 DEF WithEntry
  <2>2. Len(t) \in 1..Len(t) /\ t # << >>
    BY <1>1, <1>4
  <2>3. t[Len(t)] \cup {n} \in Sets(p)
    BY <1>1, <2>2 DEF Sets
  <2>4. d \in Seq(Sets(p)) /\ Len(d) = Len(t)
    BY <1>1, <2>1, <2>2, <2>3
  <2>5. \A i \in 1..Len(t) : d[i] = IF i = Len(t) THEN t[i] \cup {n} ELSE t[i]
    BY <1>1, <2>1
  <2>6. \A i \in 1..Len(t) : t[i] \subseteq d[i]
    BY <2>5
  <2>9. ASSUME NEW i \in 1..Len(d), NEW e \in d[i] PROVE e < n + 1
    <3>1. i \in 1..Len(t) /\ (e \in t[i] \/ e = n)
      BY <2>4, <2>5, <2>9
    <3> QED BY <1>1, <1>2, <3>1
  <2>7. n \in d[Len(t)]
    BY <2>2, <2>5
  <2>8. d # << >>
    BY <1>1, <2>2, <2>4
  <2>10. Len(t) <= Len(d)
    BY <1>1, <2>4
  <2>11. Adds(t, d, Len(t), {n})
    BY <2>4, <2>5 DEF Adds
  <2> QED BY <1>4, <2>4, <2>6, <2>7, <2>8, <2>9, <2>10, <2>11 DEF Entered
<1>5. CASE p[n] \notin {"drop", "squash"}
  <2>1. d = Append(t, {n})
    BY <1>5 DEF WithEntry
  <2>2. d \in Seq(Sets(p)) /\ Len(d) = Len(t) + 1 /\ d # << >>
    BY <1>1, <2>1
  <2>3. d[Len(t) + 1] = {n} /\ \A i \in 1..Len(t) : d[i] = t[i]
    BY <1>1, <2>1
  <2>4. ASSUME NEW i \in 1..Len(d), NEW e \in d[i] PROVE e < n + 1
    <3>1. CASE i = Len(t) + 1
      BY <1>1, <2>3, <3>1, <2>4
    <3>2. CASE i # Len(t) + 1
      <4>1. i \in 1..Len(t)
        BY <1>1, <2>2, <3>2
      <4> QED BY <1>2, <2>3, <2>4, <4>1
    <3> QED BY <3>1, <3>2
  <2>5. Len(t) <= Len(d) /\ n \in d[Len(d)]
    BY <1>1, <2>2, <2>3
  <2>6. \A i \in 1..Len(t) : t[i] \subseteq d[i]
    BY <2>3
  <2> QED BY <1>5, <2>1, <2>2, <2>4, <2>5, <2>6 DEF Entered
<1> QED BY <1>3, <1>4, <1>5

Carries(p, n) ==
  LET c == Upto(p)[n]
  IN /\ c \in Seq(Sets(p))
     /\ \A i \in 1..Len(c) : \A e \in c[i] : e < n + 1
     /\ \A k \in Kept(p) : k <= n => c # << >>

LEMMA UptoOne ==
  ASSUME NEW p \in Seq(Actions), ValidPlan(p), NEW n \in 1..Len(p), Carries(p, n - 1)
  PROVE  LET t == Upto(p)[n - 1]
             d == Upto(p)[n]
         IN /\ d = WithEntry(p, t, n) /\ t \in Seq(Sets(p)) /\ d \in Seq(Sets(p))
            /\ p[n] = "squash" => t # << >>
            /\ \A i \in 1..Len(t) : \A e \in t[i] : e < n
            /\ Carries(p, n)
<1> DEFINE t == Upto(p)[n - 1]
           d == Upto(p)[n]
<1>1. d = WithEntry(p, t, n)
  BY UptoIs
<1>2. t \in Seq(Sets(p)) /\ \A i \in 1..Len(t) : \A e \in t[i] : e < n
  <2>1. t \in Seq(Sets(p)) /\ \A i \in 1..Len(t) : \A e \in t[i] : e < (n - 1) + 1
    BY DEF Carries
  <2>2. (n - 1) + 1 = n
    OBVIOUS
  <2> HIDE DEF t
  <2> QED BY <2>1, <2>2
<1>3. p[n] = "squash" => t # << >>
  <2> SUFFICES ASSUME p[n] = "squash" PROVE t # << >>
    OBVIOUS
  <2>1. n \in Kept(p)
    BY DEF Kept
  <2>2. PICK j \in Kept(p) : j < n
    BY <2>1 DEF ValidPlan
  <2>3. j <= n - 1
    BY <2>2 DEF Kept
  <2> QED BY <2>3 DEF Carries
<1> HIDE DEF t, d
<1>4. /\ d \in Seq(Sets(p)) /\ Len(t) <= Len(d)
      /\ \A i \in 1..Len(d) : \A e \in d[i] : e < n + 1
      /\ p[n] # "drop" => d # << >>
      /\ p[n] = "drop" => d = t
  <2>1. Entered(p, n, t, d)
    BY <1>1, <1>2, <1>3, OneEntry
  <2> QED BY <2>1 DEF Entered
<1>5. ASSUME NEW k \in Kept(p), k <= n PROVE d # << >>
  <2>1. CASE p[n] # "drop"
    BY <1>4, <2>1
  <2>2. CASE p[n] = "drop"
    <3>1. k # n /\ k \in 1..Len(p)
      BY <2>2 DEF Kept
    <3>2. k <= n - 1
      BY <1>5, <3>1
    <3>3. t # << >>
      BY <3>2 DEF Carries, t
    <3> QED BY <1>4, <2>2, <3>3
  <2> QED BY <2>1, <2>2
<1>6. Carries(p, n)
  BY <1>4, <1>5 DEF Carries, d
<1> QED BY <1>1, <1>2, <1>3, <1>4, <1>6 DEF t, d

LEMMA UptoCarries ==
  ASSUME NEW p \in Seq(Actions), ValidPlan(p)
  PROVE  \A n \in 0..Len(p) : Carries(p, n)
<1> DEFINE S == {n \in 0..Len(p) : Carries(p, n)}
<1>1. PICK N \in Nat : N = Len(p)
  OBVIOUS
<1>2. 0 \in S
  <2>1. Upto(p)[0] = << >>
    BY UptoIs DEF Onto
  <2>2. \A k \in Kept(p) : ~(k <= 0)
    BY DEF Kept
  <2>3. << >> \in Seq(Sets(p)) /\ Len(<< >>) = 0
    OBVIOUS
  <2>4. Carries(p, 0)
    BY <2>1, <2>2, <2>3 DEF Carries
  <2> QED BY <2>4
<1>3. \A n \in 0..(N - 1) : n \in S => n + 1 \in S
  <2> SUFFICES ASSUME NEW n \in 0..(N - 1), n \in S PROVE n + 1 \in S
    OBVIOUS
  <2>1. n + 1 \in 1..Len(p) /\ (n + 1) - 1 = n
    BY <1>1
  <2>2. Carries(p, n + 1)
    BY <2>1, UptoOne
  <2> QED BY <2>1, <2>2
<1>4. 0..N \subseteq S
  <2> HIDE DEF S
  <2> QED BY <1>2, <1>3, Reaches
<1> QED BY <1>1, <1>4

(* A commit that an entry was put on never loses one, and never gets shorter. *)
LEMMA UptoGrows ==
  ASSUME NEW p \in Seq(Actions), ValidPlan(p), NEW m \in 0..Len(p), NEW q \in m..Len(p)
  PROVE  LET c == Upto(p)[m]
             later == Upto(p)[q]
         IN Len(c) <= Len(later) /\ \A i \in 1..Len(c) : c[i] \subseteq later[i]
<1> DEFINE c == Upto(p)[m]
           In(n) == Len(c) <= Len(Upto(p)[n]) /\ \A i \in 1..Len(c) : c[i] \subseteq Upto(p)[n][i]
           S == {n \in 0..Len(p) : n >= m => In(n)}
<1>1. PICK N \in Nat : N = Len(p)
  OBVIOUS
<1>2. c \in Seq(Sets(p)) /\ Len(c) \in Nat
  <2>1. Carries(p, m)
    BY UptoCarries
  <2>2. c \in Seq(Sets(p))
    BY <2>1 DEF Carries
  <2> HIDE DEF c
  <2> QED BY <2>2
<1>3. 0 \in S
  <2>1. 0 >= m => m = 0
    OBVIOUS
  <2>2. m = 0 => In(0)
    BY <1>2
  <2> QED BY <2>1, <2>2
<1>4. \A n \in 0..(N - 1) : n \in S => n + 1 \in S
  <2> SUFFICES ASSUME NEW n \in 0..(N - 1), n \in S, n + 1 >= m PROVE In(n + 1)
    BY <1>1
  <2>1. CASE n + 1 = m
    BY <1>2, <2>1
  <2>2. CASE n + 1 # m
    <3> DEFINE t == Upto(p)[n]
               d == Upto(p)[n + 1]
    <3>1. n + 1 \in 1..Len(p) /\ (n + 1) - 1 = n /\ n >= m /\ n \in 0..Len(p)
      BY <1>1, <2>2
    <3>2. In(n) /\ Carries(p, n)
      BY <3>1, UptoCarries
    <3>3. /\ d = WithEntry(p, t, n + 1) /\ t \in Seq(Sets(p)) /\ d \in Seq(Sets(p))
          /\ p[n + 1] = "squash" => t # << >>
          /\ \A i \in 1..Len(t) : \A e \in t[i] : e < n + 1
      BY <3>1, <3>2, UptoOne
    <3>4. Len(t) <= Len(d) /\ \A i \in 1..Len(t) : t[i] \subseteq d[i]
      <4> HIDE DEF t, d
      <4>1. Entered(p, n + 1, t, d)
        BY <3>1, <3>3, OneEntry
      <4> QED BY <4>1 DEF Entered
    <3>5. Len(t) \in Nat /\ Len(d) \in Nat
      BY <3>3
    <3>6. Len(c) <= Len(t) /\ \A i \in 1..Len(c) : c[i] \subseteq t[i]
      BY <3>2
    <3> HIDE DEF c, t, d
    <3>7. Len(c) <= Len(d) /\ \A i \in 1..Len(c) : c[i] \subseteq d[i]
      BY <1>2, <3>4, <3>5, <3>6
    <3> QED BY <3>7 DEF c, d
  <2> QED BY <2>1, <2>2
<1>5. 0..N \subseteq S
  <2> HIDE DEF S
  <2> QED BY <1>3, <1>4, Reaches
<1>6. In(q)
  <2>1. q \in S /\ q >= m
    BY <1>1, <1>5
  <2> HIDE DEF In
  <2> QED BY <1>1, <2>1
<1> QED BY <1>6

-----------------------------------------------------------------------------
(* A stored rebase that belongs to its plan *)

(* The next entry after n that is not dropped is squashed into what comes before it. *)
Follows(p, n) ==
  \E j \in Kept(p) : j > n /\ p[j] = "squash" /\ \A k \in Kept(p) : k > n => j <= k

(* The commit a group is folded to. *)
Gathered(g, c) == Append(g, UNION {c[i] : i \in (Len(g) + 1)..Len(c)})
Led(g, c, n) ==
  /\ Len(g) < Len(c) /\ \A i \in 1..Len(g) : c[i] = g[i]
  /\ \E k \in 1..n : c[Len(g) + 1] = {k}

(* What the commits up to entry n, where group g began, may be: outside a group; where   *)
(* entry n is to open one; inside one; and where its last entry has landed but is not    *)
(* folded yet.                                                                            *)
Alone(p, n, g, c) == g = NoCommit /\ c = Upto(p)[n - 1] /\ ~Follows(p, n - 1)
Opened(p, n, g, c) ==
  /\ g # NoCommit /\ g = Upto(p)[n - 1] /\ c = Upto(p)[n - 1]
  /\ n \in Kept(p) /\ p[n] # "squash" /\ Follows(p, n)
Grown(p, n, g, c) ==
  g # NoCommit /\ Led(g, c, n - 1) /\ Gathered(g, c) = Upto(p)[n - 1] /\ Follows(p, n - 1)
Unfolded(p, n, g, c) ==
  /\ g # NoCommit /\ Led(g, c, n - 1) /\ Gathered(g, c) = Upto(p)[n]
  /\ n \in Kept(p) /\ p[n] = "squash" /\ ~Follows(p, n)

Whole(p, n, g, c) ==
  /\ n \in 1..(Len(p) + 1) /\ c \in Seq(Sets(p)) /\ (g = NoCommit \/ g \in Seq(Sets(p)))
  /\ Alone(p, n, g, c) \/ Opened(p, n, g, c) \/ Grown(p, n, g, c) \/ Unfolded(p, n, g, c)
Held(p, n, g, c) ==
  /\ Whole(p, n, g, c)
  /\ n <= Len(p) => n \in Kept(p) /\ (g = NoCommit => ~Follows(p, n))
Landed(p, n, g, c) ==
  /\ n \in Kept(p) /\ c \in Seq(Sets(p)) /\ (g = NoCommit \/ g \in Seq(Sets(p)))
  /\ \/ g = NoCommit /\ c = Upto(p)[n] /\ p[n] # "squash" /\ ~Follows(p, n)
     \/ /\ g # NoCommit /\ Led(g, c, n) /\ Gathered(g, c) = Upto(p)[n]
        /\ p[n] = "squash" => Led(g, c, n - 1)
        /\ p[n] # "squash" => Follows(p, n)

OnTop(c) == c # << >> /\ c[Len(c)] = {}

LEMMA FollowsIs ==
  ASSUME NEW p \in Seq(Actions)
  PROVE  /\ ValidPlan(p) => ~Follows(p, 0)
         /\ \A n \in 1..Len(p) : n \notin Kept(p) => (Follows(p, n) <=> Follows(p, n - 1))
         /\ \A n \in Kept(p) : Follows(p, n - 1) <=> p[n] = "squash"
         /\ \A n \in Nat : Follows(p, n) => n < Len(p)
<1>1. \A k \in Kept(p) : k \in 1..Len(p) /\ k \in Int
  BY DEF Kept
<1>2. ValidPlan(p) => ~Follows(p, 0)
  <2> SUFFICES ASSUME ValidPlan(p), Follows(p, 0) PROVE FALSE
    OBVIOUS
  <2>1. PICK j \in Kept(p) : p[j] = "squash" /\ \A k \in Kept(p) : k > 0 => j <= k
    BY DEF Follows
  <2>2. PICK i \in Kept(p) : i < j
    BY <2>1 DEF ValidPlan
  <2> QED BY <1>1, <2>1, <2>2
<1>3. ASSUME NEW n \in 1..Len(p), n \notin Kept(p) PROVE Follows(p, n) <=> Follows(p, n - 1)
  <2>1. \A k \in Kept(p) : k > n <=> k > n - 1
    BY <1>1, <1>3
  <2> QED BY <2>1 DEF Follows
<1>4. ASSUME NEW n \in Kept(p) PROVE Follows(p, n - 1) <=> p[n] = "squash"
  <2>1. n > n - 1 /\ \A k \in Kept(p) : k > n - 1 => n <= k
    BY <1>1
  <2>2. ASSUME NEW j \in Kept(p), j > n - 1, \A k \in Kept(p) : k > n - 1 => j <= k PROVE j = n
    <3>1. j <= n /\ n <= j
      BY <2>1, <2>2
    <3> QED BY <1>1, <3>1
  <2>3. Follows(p, n - 1) => p[n] = "squash"
    BY <2>2 DEF Follows
  <2>4. p[n] = "squash" => Follows(p, n - 1)
    BY <2>1 DEF Follows
  <2> QED BY <2>3, <2>4
<1>5. ASSUME NEW n \in Nat, Follows(p, n) PROVE n < Len(p)
  <2>1. PICK j \in Kept(p) : j > n
    BY <1>5 DEF Follows
  <2> QED BY <1>1, <2>1
<1> QED BY <1>2, <1>3, <1>4, <1>5

Enters(p, n, t, d) ==
  /\ t \in Seq(Sets(p)) /\ d \in Seq(Sets(p)) /\ Len(t) \in Nat /\ Len(d) \in Nat
  /\ \A i \in 1..Len(t) : \A e \in t[i] : e < n
  /\ p[n] # "drop" => d # << >> /\ n \in d[Len(d)]
  /\ p[n] = "drop" => d = t
  /\ p[n] = "squash" => t # << >> /\ Adds(t, d, Len(t), {n})
  /\ p[n] \notin {"drop", "squash"} => d = Append(t, {n}) /\ Len(d) = Len(t) + 1

LEMMA UptoNext ==
  ASSUME NEW p \in Seq(Actions), ValidPlan(p), NEW n \in 1..Len(p),
         NEW t, t = Upto(p)[n - 1], NEW d, d = Upto(p)[n]
  PROVE  Enters(p, n, t, d)
<1>1. n - 1 \in 0..Len(p)
  OBVIOUS
<1>2. Carries(p, n - 1)
  BY <1>1, UptoCarries
<1>3. /\ d = WithEntry(p, t, n) /\ t \in Seq(Sets(p)) /\ d \in Seq(Sets(p))
      /\ p[n] = "squash" => t # << >>
      /\ \A i \in 1..Len(t) : \A e \in t[i] : e < n
  BY <1>2, UptoOne
<1>4. Entered(p, n, t, d)
  BY <1>3, OneEntry
<1> QED BY <1>3, <1>4 DEF Entered, Enters

(* A group takes in what is appended to the commits it is folded from. *)
Gathers(g, c, s) ==
  /\ Len(Gathered(g, c)) = Len(g) + 1
  /\ Gathered(g, Append(g, s)) = Append(g, s)
  /\ Len(g) < Len(c) => Adds(Gathered(g, c), Gathered(g, Append(c, s)), Len(g) + 1, s)

LEMMA GatheredIs ==
  ASSUME NEW U, NEW g \in Seq(SUBSET U), NEW c \in Seq(SUBSET U), NEW s \in SUBSET U
  PROVE  Gathers(g, c, s)
<1> DEFINE All(d) == UNION {d[i] : i \in (Len(g) + 1)..Len(d)}
<1>1. \A d : Gathered(g, d) = Append(g, All(d))
  BY DEF Gathered
<1>2. All(c) \in SUBSET U
  OBVIOUS
<1>4. All(Append(g, s)) = s
  <2>1. Append(g, s)[Len(g) + 1] = s /\ (Len(g) + 1)..Len(Append(g, s)) = {Len(g) + 1}
    OBVIOUS
  <2>2. {Append(g, s)[i] : i \in {Len(g) + 1}} = {s}
    BY <2>1
  <2> QED BY <2>1, <2>2
<1>5. Len(g) < Len(c) => All(Append(c, s)) = All(c) \cup s
  <2> SUFFICES ASSUME Len(g) < Len(c) PROVE All(Append(c, s)) = All(c) \cup s
    OBVIOUS
  <2>1. /\ (Len(g) + 1)..Len(Append(c, s)) = ((Len(g) + 1)..Len(c)) \cup {Len(c) + 1}
        /\ Append(c, s)[Len(c) + 1] = s
        /\ \A i \in (Len(g) + 1)..Len(c) : Append(c, s)[i] = c[i]
    OBVIOUS
  <2>2. {Append(c, s)[i] : i \in (Len(g) + 1)..Len(Append(c, s))}
          = {c[i] : i \in (Len(g) + 1)..Len(c)} \cup {s}
    BY <2>1
  <2>3. UNION ({c[i] : i \in (Len(g) + 1)..Len(c)} \cup {s}) = All(c) \cup s
    OBVIOUS
  <2> QED BY <2>2, <2>3
<1> HIDE DEF All
<1>6. PICK u \in SUBSET U : u = All(c)
  BY <1>2
<1>7. /\ Append(g, u) \in Seq(SUBSET U) /\ Len(Append(g, u)) = Len(g) + 1
      /\ Append(g, u)[Len(g) + 1] = u
      /\ \A i \in 1..Len(g) : Append(g, u)[i] = g[i]
  OBVIOUS
<1>8. Adds(Append(g, u), Append(g, u \cup s), Len(g) + 1, s)
  <2>1. /\ Len(Append(g, u \cup s)) = Len(g) + 1 /\ Append(g, u \cup s)[Len(g) + 1] = u \cup s
        /\ \A i \in 1..Len(g) : Append(g, u \cup s)[i] = g[i]
    OBVIOUS
  <2>2. \A i \in 1..(Len(g) + 1) : i = Len(g) + 1 \/ i \in 1..Len(g)
    OBVIOUS
  <2>3. \A i \in 1..Len(g) : i # Len(g) + 1
    OBVIOUS
  <2> QED BY <1>7, <2>1, <2>2, <2>3 DEF Adds
<1>9. Gathered(g, c) = Append(g, u) /\ Gathered(g, Append(g, s)) = Append(g, s)
  BY <1>1, <1>4, <1>6
<1>10. Len(g) < Len(c) => Gathered(g, Append(c, s)) = Append(g, u \cup s)
  BY <1>1, <1>5, <1>6
<1> QED BY <1>6, <1>7, <1>8, <1>9, <1>10 DEF Gathers

LEMMA OfPlan ==
  ASSUME NEW p \in Seq(Actions), NEW c \in Seq(Sets(p))
  PROVE  /\ c \in Seq(SUBSET (1..Len(p))) /\ c \in Commits /\ Len(c) \in Nat
         /\ c # NoCommit /\ c # OldTip /\ c # Elsewhere /\ ~OnTop(c)
<1>1. \A i \in 1..Len(c) : c[i] \in SUBSET (1..Len(p)) /\ c[i] # {}
  BY DEF Sets
<1>2. c \in Seq(SUBSET (1..Len(p))) /\ c \in Commits /\ Len(c) \in Nat
  <2>1. Sets(p) \subseteq SUBSET (1..Len(p)) /\ Sets(p) \subseteq SUBSET Int
    BY DEF Sets
  <2> QED BY <2>1 DEF Commits
<1>3. ~OnTop(c)
  BY <1>1, <1>2 DEF OnTop
<1>4. ASSUME NEW e \in {-2, -1, 0} PROVE c # << {e} >>
  <2> SUFFICES ASSUME c = << {e} >> PROVE FALSE
    OBVIOUS
  <2>1. 1 \in 1..Len(c) /\ c[1] = {e}
    OBVIOUS
  <2>2. e \in 1..Len(p)
    BY <1>1, <2>1
  <2> QED BY <2>2
<1> QED BY <1>2, <1>3, <1>4 DEF NoCommit, OldTip, Elsewhere

LEMMA WholeStarts ==
  ASSUME NEW p \in Seq(Actions), ValidPlan(p)
  PROVE  Whole(p, 1, NoCommit, Onto)
<1>1. Upto(p)[0] = Onto /\ 1 - 1 = 0 /\ 1 \in 1..(Len(p) + 1)
  BY UptoIs
<1>2. Onto \in Seq(Sets(p))
  BY DEF Onto
<1>3. Alone(p, 1, NoCommit, Onto)
  BY <1>1, FollowsIs DEF Alone
<1> QED BY <1>1, <1>2, <1>3 DEF Whole

LEMMA WholeSkips ==
  ASSUME NEW p \in Seq(Actions), ValidPlan(p), NEW n \in 1..Len(p), p[n] = "drop",
         NEW g, NEW c, Whole(p, n, g, c)
  PROVE  Whole(p, n + 1, g, c)
<1>1. n \notin Kept(p) /\ (n + 1) - 1 = n /\ n + 1 \in 1..(Len(p) + 1)
  BY DEF Kept
<1>2. Upto(p)[n] = Upto(p)[n - 1] /\ (Follows(p, n) <=> Follows(p, n - 1))
  <2>1. Enters(p, n, Upto(p)[n - 1], Upto(p)[n])
    BY UptoNext
  <2>2. Follows(p, n) <=> Follows(p, n - 1)
    BY <1>1, FollowsIs
  <2> QED BY <2>1, <2>2 DEF Enters
<1>3. Led(g, c, n - 1) => Led(g, c, n)
  <2>1. 1..(n - 1) \subseteq 1..n
    OBVIOUS
  <2> QED BY <2>1 DEF Led
<1>4. Alone(p, n, g, c) \/ Grown(p, n, g, c)
  BY <1>1 DEF Whole, Opened, Unfolded
<1>5. Alone(p, n + 1, g, c) \/ Grown(p, n + 1, g, c)
  BY <1>1, <1>2, <1>3, <1>4 DEF Alone, Grown
<1> QED BY <1>1, <1>5 DEF Whole

LEMMA WholeOpens ==
  ASSUME NEW p \in Seq(Actions), ValidPlan(p), NEW n \in Kept(p),
         NEW g, NEW c, Whole(p, n, g, c),
         NEW h, h = IF g = NoCommit /\ Follows(p, n) THEN c ELSE g
  PROVE  Held(p, n, h, c)
<1>1. n \in 1..Len(p) /\ c \in Seq(Sets(p))
  BY DEF Kept, Whole
<1>2. CASE g = NoCommit /\ Follows(p, n)
  <2>1. c # NoCommit /\ h = c
    BY <1>1, <1>2, OfPlan
  <2>2. Alone(p, n, g, c)
    BY <1>2 DEF Whole, Opened, Grown, Unfolded
  <2>3. p[n] # "squash"
    BY <2>2, FollowsIs DEF Alone
  <2>4. Opened(p, n, h, c)
    BY <1>2, <2>1, <2>2, <2>3 DEF Opened, Alone
  <2> QED BY <1>1, <2>1, <2>4 DEF Held, Whole
<1>3. CASE ~(g = NoCommit /\ Follows(p, n))
  BY <1>3 DEF Held
<1> QED BY <1>2, <1>3

LEMMA WholeEnds ==
  ASSUME NEW p \in Seq(Actions), NEW n, n > Len(p), NEW g, NEW c, Whole(p, n, g, c)
  PROVE  n = Len(p) + 1 /\ c = Upto(p)[Len(p)]
<1>1. n = Len(p) + 1 /\ n - 1 = Len(p) /\ n \notin Kept(p) /\ Len(p) \in Nat
  BY DEF Whole, Kept
<1>2. ~Follows(p, n - 1)
  BY <1>1, FollowsIs
<1>3. Alone(p, n, g, c)
  BY <1>1, <1>2 DEF Whole, Opened, Grown, Unfolded
<1> QED BY <1>1, <1>3 DEF Alone

LEMMA LandedClears ==
  ASSUME NEW p \in Seq(Actions), NEW n, NEW g, NEW c, Landed(p, n, g, c),
         p[n] = "squash" => Follows(p, n)
  PROVE  Whole(p, n + 1, g, c)
<1>1. n \in 1..Len(p) /\ (n + 1) - 1 = n /\ n + 1 \in 1..(Len(p) + 1)
  BY DEF Landed, Kept
<1>2. Alone(p, n + 1, g, c) \/ Grown(p, n + 1, g, c)
  BY <1>1 DEF Landed, Alone, Grown
<1> QED BY <1>1, <1>2 DEF Whole, Landed

LEMMA LandedFolds ==
  ASSUME NEW p \in Seq(Actions), ValidPlan(p), NEW n, NEW g, NEW c, Landed(p, n, g, c),
         p[n] = "squash", ~Follows(p, n)
  PROVE  g # NoCommit /\ Held(p, n, g, c) /\ Whole(p, n + 1, NoCommit, Gathered(g, c))
<1>1. n \in 1..Len(p) /\ (n + 1) - 1 = n /\ n + 1 \in 1..(Len(p) + 1) /\ n \in Kept(p)
  BY DEF Landed, Kept
<1>2. g # NoCommit /\ Led(g, c, n - 1) /\ Gathered(g, c) = Upto(p)[n]
  BY DEF Landed
<1>3. Unfolded(p, n, g, c)
  BY <1>1, <1>2 DEF Unfolded
<1>4. Held(p, n, g, c)
  BY <1>1, <1>2, <1>3 DEF Landed, Held, Whole
<1>5. Upto(p)[n] \in Seq(Sets(p))
  <2>1. Enters(p, n, Upto(p)[n - 1], Upto(p)[n])
    BY <1>1, UptoNext
  <2> QED BY <2>1 DEF Enters
<1>6. Alone(p, n + 1, NoCommit, Gathered(g, c))
  BY <1>1, <1>2 DEF Alone
<1> QED BY <1>1, <1>2, <1>4, <1>5, <1>6 DEF Whole

(* A step that lands keeps the commits on their way to what the plan asks for. *)
LEMMA HeldLands ==
  ASSUME NEW p \in Seq(Actions), ValidPlan(p), NEW n \in 1..Len(p),
         NEW g, NEW c, Held(p, n, g, c), NEW e, e = Append(c, {n})
  PROVE  Landed(p, n, g, e)
<1> DEFINE t == Upto(p)[n - 1]
           d == Upto(p)[n]
           S == SUBSET (1..Len(p))
<1>1. n \in Kept(p) /\ c \in Seq(Sets(p)) /\ (g = NoCommit \/ g \in Seq(Sets(p))) /\ p[n] # "drop"
  BY DEF Held, Whole, Kept
<1>2. /\ t \in Seq(Sets(p)) /\ d \in Seq(Sets(p))
      /\ p[n] = "squash" => t # << >> /\ Adds(t, d, Len(t), {n})
      /\ p[n] # "squash" => d = Append(t, {n})
  <2>1. Enters(p, n, t, d)
    BY UptoNext
  <2> QED BY <1>1, <2>1 DEF Enters
<1>3. {n} \in Sets(p) /\ {n} \in S /\ n \in 1..n
  BY DEF Sets
<1>4. /\ e \in Seq(Sets(p)) /\ Len(e) = Len(c) + 1 /\ e[Len(c) + 1] = {n}
      /\ \A i \in 1..Len(c) : e[i] = c[i]
  BY <1>1, <1>3
<1>5. CASE Alone(p, n, g, c)
  <2>1. p[n] # "squash" /\ ~Follows(p, n)
    BY <1>1, <1>5, FollowsIs DEF Alone, Held
  <2> QED BY <1>1, <1>2, <1>4, <1>5, <2>1 DEF Alone, Landed
<1>6. CASE Opened(p, n, g, c)
  <2>1. g = t /\ c = t /\ g \in Seq(S) /\ g # NoCommit /\ p[n] # "squash" /\ Follows(p, n)
    BY <1>1, <1>2, <1>6, OfPlan DEF Opened
  <2>2. Gathered(g, e) = Append(g, {n})
    <3>1. Gathers(g, g, {n})
      BY <1>3, <2>1, GatheredIs
    <3> QED BY <2>1, <3>1 DEF Gathers
  <2>3. Led(g, e, n)
    <3>1. Len(g) < Len(e) /\ e[Len(g) + 1] = {n} /\ \A i \in 1..Len(g) : e[i] = g[i]
      BY <1>4, <2>1
    <3> QED BY <1>3, <3>1 DEF Led
  <2> QED BY <1>1, <1>2, <1>4, <2>1, <2>2, <2>3 DEF Landed
<1>7. CASE Grown(p, n, g, c) \/ Unfolded(p, n, g, c)
  <2>1. g # NoCommit /\ Led(g, c, n - 1)
    BY <1>7 DEF Grown, Unfolded
  <2>2. g \in Seq(S) /\ c \in Seq(S) /\ Len(g) < Len(c) /\ Len(g) \in Nat /\ Len(c) \in Nat
    BY <1>1, <2>1, OfPlan DEF Led
  <2>3. Adds(Gathered(g, c), Gathered(g, e), Len(g) + 1, {n}) /\ Len(Gathered(g, c)) = Len(g) + 1
    <3>1. Gathers(g, c, {n})
      BY <1>3, <2>2, GatheredIs
    <3> QED BY <2>2, <3>1 DEF Gathers
  <2>4. p[n] = "squash"
    BY <1>1, <1>7, FollowsIs DEF Grown, Unfolded
  <2>5. Led(g, e, n - 1)
    <3>1. /\ Len(g) < Len(e) /\ e[Len(g) + 1] = c[Len(g) + 1]
          /\ \A i \in 1..Len(g) : e[i] = c[i]
      BY <1>4, <2>2
    <3>2. \A i \in 1..Len(g) : c[i] = g[i]
      BY <2>1 DEF Led
    <3>3. \A i \in 1..Len(g) : e[i] = g[i]
      BY <3>1, <3>2
    <3>4. \E k \in 1..(n - 1) : e[Len(g) + 1] = {k}
      BY <2>1, <3>1 DEF Led
    <3> QED BY <3>1, <3>3, <3>4 DEF Led
  <2>6. Led(g, e, n)
    <3>1. 1..(n - 1) \subseteq 1..n
      OBVIOUS
    <3> QED BY <2>5, <3>1 DEF Led
  <2>7. Gathered(g, e) \in Seq(S)
    <3>1. e \in Seq(S)
      BY <1>4, OfPlan
    <3>2. PICK u \in S : u = UNION {e[i] : i \in (Len(g) + 1)..Len(e)}
      <4>3. (Len(g) + 1)..Len(e) \subseteq 1..Len(e)
        BY <2>2
      <4>1. \A i \in (Len(g) + 1)..Len(e) : e[i] \in S
        BY <3>1, <4>3
      <4>2. UNION {e[i] : i \in (Len(g) + 1)..Len(e)} \in S
        BY <4>1
      <4> QED BY <4>2
    <3>3. Append(g, u) \in Seq(S)
      BY <2>2
    <3> QED BY <3>2, <3>3 DEF Gathered
  <2>8. Gathered(g, e) = d
    <3>1. d \in Seq(S)
      BY <1>2, OfPlan
    <3>2. CASE Grown(p, n, g, c)
      <4>1. Gathered(g, c) = t
        BY <3>2 DEF Grown
      <4>2. Adds(t, Gathered(g, e), Len(t), {n}) /\ Adds(t, d, Len(t), {n})
        BY <1>2, <2>3, <2>4, <4>1
      <4> HIDE DEF t, d
      <4>3. /\ Len(Gathered(g, e)) = Len(d)
            /\ \A i \in 1..Len(Gathered(g, e)) : Gathered(g, e)[i] = d[i]
        BY <4>2 DEF Adds
      <4> QED BY <2>7, <3>1, <4>3, SameSeq
    <3>3. CASE Unfolded(p, n, g, c)
      <4>1. Gathered(g, c) = d
        BY <3>3 DEF Unfolded
      <4>2. Adds(t, d, Len(t), {n}) /\ Len(t) \in Nat
        BY <1>2, <2>4
      <4>3. Adds(d, Gathered(g, e), Len(d), {n})
        BY <2>3, <4>1
      <4>4. n \in d[Len(d)]
        <5>1. Enters(p, n, t, d)
          BY UptoNext
        <5> QED BY <1>1, <5>1 DEF Enters
      <4> HIDE DEF t, d
      <4>5. /\ Len(Gathered(g, e)) = Len(d)
            /\ \A i \in 1..Len(Gathered(g, e)) : Gathered(g, e)[i] = d[i]
        BY <4>3, <4>4 DEF Adds
      <4> QED BY <2>7, <3>1, <4>5, SameSeq
    <3> QED BY <1>7, <3>2, <3>3
  <2> QED BY <1>1, <1>4, <2>1, <2>4, <2>5, <2>6, <2>8 DEF Landed
<1> QED BY <1>5, <1>6, <1>7 DEF Held, Whole

(* As long as an entry is still to land, the finished plan carries it where HEAD does not. *)
LEMMA HeldIsNotComplete ==
  ASSUME NEW p \in Seq(Actions), ValidPlan(p), NEW n \in 1..Len(p),
         NEW g, NEW c, Held(p, n, g, c)
  PROVE  c # Upto(p)[Len(p)]
<1> DEFINE t == Upto(p)[n - 1]
           d == Upto(p)[n]
           all == Upto(p)[Len(p)]
<1>1. n \in Kept(p) /\ c \in Seq(Sets(p)) /\ (g = NoCommit \/ g \in Seq(Sets(p))) /\ p[n] # "drop"
  BY DEF Held, Whole, Kept
<1>2. /\ t \in Seq(Sets(p)) /\ d \in Seq(Sets(p))
      /\ \A i \in 1..Len(t) : \A e \in t[i] : e < n
      /\ d # << >> /\ n \in d[Len(d)] /\ (p[n] = "squash" => Adds(t, d, Len(t), {n}))
  <2>1. Enters(p, n, t, d)
    BY UptoNext
  <2> QED BY <1>1, <2>1 DEF Enters
<1>3. Len(d) <= Len(all) /\ \A i \in 1..Len(d) : d[i] \subseteq all[i]
  <2>1. n \in 0..Len(p) /\ Len(p) \in n..Len(p)
    OBVIOUS
  <2> QED BY <2>1, UptoGrows
<1>4. Len(d) \in 1..Len(d) /\ Len(d) \in 1..Len(all) /\ n \in all[Len(d)]
  <2> HIDE DEF d, all
  <2>1. Len(d) \in Nat /\ Len(d) # 0
    BY <1>2
  <2>2. Len(all) \in Int
    <3>1. Len(p) \in 0..Len(p) /\ Carries(p, Len(p))
      BY UptoCarries
    <3> QED BY <3>1 DEF Carries, all
  <2> QED BY <1>2, <1>3, <2>1, <2>2
<1> SUFFICES ASSUME c = all PROVE FALSE
  OBVIOUS
<1>5. Len(d) \in 1..Len(c) /\ n \in c[Len(d)]
  BY <1>4
<1> HIDE DEF all, d, t
<1>6. CASE Alone(p, n, g, c) \/ Opened(p, n, g, c)
  <2>1. c = t
    BY <1>6 DEF Alone, Opened, t
  <2> QED BY <1>2, <1>5, <2>1
<1>7. CASE Grown(p, n, g, c) \/ Unfolded(p, n, g, c)
  <2>1. g # NoCommit /\ Led(g, c, n - 1)
    BY <1>7 DEF Grown, Unfolded
  <2>2. g \in Seq(SUBSET (1..Len(p))) /\ c \in Seq(SUBSET (1..Len(p)))
    BY <1>1, <2>1, OfPlan
  <2>3. Len(Gathered(g, c)) = Len(g) + 1
    <3>1. Gathers(g, c, {n})
      BY <2>2, GatheredIs
    <3> QED BY <3>1 DEF Gathers
  <2>4. Len(d) = Len(g) + 1
    <3>1. p[n] = "squash"
      BY <1>1, <1>7, FollowsIs DEF Grown, Unfolded
    <3> QED BY <1>2, <1>7, <2>3, <3>1 DEF Grown, Unfolded, Adds, t, d
  <2>5. n \notin c[Len(g) + 1]
    BY <2>1 DEF Led
  <2> QED BY <1>5, <2>4, <2>5
<1> QED BY <1>6, <1>7 DEF Held, Whole

(* A stored rebase carries every entry it is past, and none it has not come to: HEAD and the *)
(* plan say which entry is next.                                                             *)
LEMMA HeldBelow ==
  ASSUME NEW p \in Seq(Actions), ValidPlan(p), NEW n \in Kept(p), NEW g, NEW c, Held(p, n, g, c)
  PROVE  /\ ~Unfolded(p, n, g, c) => \A i \in 1..Len(c) : \A e \in c[i] : e < n
         /\ \A i \in 1..Len(c) : \A e \in c[i] : e < n + 1
<1> DEFINE u == IF Unfolded(p, n, g, c) THEN Upto(p)[n] ELSE Upto(p)[n - 1]
           b == IF Unfolded(p, n, g, c) THEN n + 1 ELSE n
<1>1. n \in 1..Len(p) /\ c \in Seq(Sets(p)) /\ (g = NoCommit \/ g \in Seq(Sets(p)))
  BY DEF Held, Whole, Kept
<1>2. b \in Nat /\ b <= n + 1
  BY <1>1
<1>3. u \in Seq(Sets(p)) /\ \A i \in 1..Len(u) : \A e \in u[i] : e < b
  <2>1. n \in 0..Len(p) /\ n - 1 \in 0..Len(p) /\ (n - 1) + 1 = n
    BY <1>1
  <2>2. Carries(p, n) /\ Carries(p, n - 1)
    BY <2>1, UptoCarries
  <2>3. CASE Unfolded(p, n, g, c)
    BY <2>2, <2>3 DEF Carries
  <2>4. CASE ~Unfolded(p, n, g, c)
    <3>1. \A i \in 1..Len(Upto(p)[n - 1]) : \A e \in Upto(p)[n - 1][i] : e < (n - 1) + 1
      BY <2>2 DEF Carries
    <3> QED BY <2>1, <2>2, <2>4, <3>1 DEF Carries
  <2> QED BY <2>3, <2>4
<1>4. c = u \/ (Led(g, c, n - 1) /\ Gathered(g, c) = u /\ g # NoCommit)
  BY DEF Held, Whole, Alone, Opened, Grown, Unfolded
<1> HIDE DEF u
<1>5. ASSUME NEW i \in 1..Len(c), NEW e \in c[i] PROVE e < b
  <2>1. CASE c = u
    BY <1>3, <1>5, <2>1
  <2>2. CASE Led(g, c, n - 1) /\ Gathered(g, c) = u /\ g # NoCommit
    <3> DEFINE all == UNION {c[k] : k \in (Len(g) + 1)..Len(c)}
    <3>1. u = Append(g, all) /\ g \in Seq(Sets(p)) /\ Len(g) \in Nat
      BY <1>1, <2>2 DEF Gathered
    <3>2. CASE i \in 1..Len(g)
      <4>1. c[i] = g[i]
        BY <2>2, <3>2 DEF Led
      <4>2. u[i] = g[i] /\ i \in 1..Len(u)
        <5> HIDE DEF all
        <5> QED BY <3>1, <3>2
      <4> QED BY <1>3, <1>5, <4>1, <4>2
    <3>3. CASE i \in (Len(g) + 1)..Len(c)
      <4>1. e \in all
        BY <1>5, <3>3
      <4>2. u[Len(g) + 1] = all /\ Len(g) + 1 \in 1..Len(u)
        <5> HIDE DEF all
        <5> QED BY <3>1
      <4> HIDE DEF all
      <4> QED BY <1>3, <4>1, <4>2
    <3>4. i \in 1..Len(g) \/ i \in (Len(g) + 1)..Len(c)
      BY <1>1, <1>5, <3>1
    <3> QED BY <3>2, <3>3, <3>4
  <2> QED BY <1>4, <2>1, <2>2
<1>6. \A i \in 1..Len(c) : \A e \in c[i] : e < n + 1
  <2> SUFFICES ASSUME NEW i \in 1..Len(c), NEW e \in c[i] PROVE e < n + 1
    OBVIOUS
  <2>1. e < b /\ e \in Nat
    BY <1>1, <1>5 DEF Sets
  <2> QED BY <1>1, <1>2, <2>1
<1> QED BY <1>5, <1>6

LEMMA HeldHas ==
  ASSUME NEW p \in Seq(Actions), ValidPlan(p), NEW n \in Kept(p), NEW g, NEW c, Held(p, n, g, c),
         NEW k \in Kept(p), k < n \/ (k = n /\ Unfolded(p, n, g, c))
  PROVE  \E i \in 1..Len(c) : k \in c[i]
<1>1. /\ n \in 1..Len(p) /\ k \in 1..Len(p) /\ p[k] # "drop"
      /\ c \in Seq(Sets(p)) /\ (g = NoCommit \/ g \in Seq(Sets(p)))
  BY DEF Held, Whole, Kept
<1>2. PICK m \in k..Len(p) :
        \/ c = Upto(p)[m]
        \/ Led(g, c, n - 1) /\ Gathered(g, c) = Upto(p)[m] /\ g # NoCommit
  <2>1. CASE Unfolded(p, n, g, c)
    <3>1. n \in k..Len(p)
      BY <1>1
    <3> QED BY <2>1, <3>1 DEF Unfolded
  <2>2. CASE ~Unfolded(p, n, g, c)
    <3>1. n - 1 \in k..Len(p)
      BY <1>1, <2>2
    <3> QED BY <2>2, <3>1 DEF Held, Whole, Alone, Opened, Grown
  <2> QED BY <2>1, <2>2
<1> DEFINE t == Upto(p)[k]
           u == Upto(p)[m]
<1>3. t \in Seq(Sets(p)) /\ t # << >> /\ k \in t[Len(t)]
  <2>1. Enters(p, k, Upto(p)[k - 1], t)
    BY <1>1, UptoNext
  <2> QED BY <1>1, <2>1 DEF Enters
<1>4. Len(t) <= Len(u) /\ \A i \in 1..Len(t) : t[i] \subseteq u[i]
  <2>1. k \in 0..Len(p)
    BY <1>1
  <2> QED BY <2>1, UptoGrows
<1>5. u \in Seq(Sets(p))
  <2>1. m \in 0..Len(p)
    BY <1>1
  <2>2. Carries(p, m)
    BY <2>1, UptoCarries
  <2> QED BY <2>2 DEF Carries
<1> HIDE DEF t, u
<1>6. PICK i \in 1..Len(u) : k \in u[i]
  <2>1. Len(t) \in 1..Len(t) /\ Len(t) \in 1..Len(u)
    BY <1>3, <1>4, <1>5
  <2> QED BY <1>3, <1>4, <2>1
<1>7. CASE c = u
  BY <1>6, <1>7
<1>8. CASE Led(g, c, n - 1) /\ Gathered(g, c) = u /\ g # NoCommit
  <2> DEFINE all == UNION {c[x] : x \in (Len(g) + 1)..Len(c)}
  <2>1. u = Append(g, all) /\ g \in Seq(Sets(p)) /\ Len(g) \in Nat /\ Len(g) < Len(c)
    BY <1>1, <1>8 DEF Gathered, Led
  <2>2. i \in 1..(Len(g) + 1)
    <3> HIDE DEF all
    <3> QED BY <1>6, <2>1
  <2>3. CASE i = Len(g) + 1
    <3>1. k \in all
      <4> HIDE DEF all
      <4> QED BY <1>6, <2>1, <2>3
    <3>2. PICK x \in (Len(g) + 1)..Len(c) : k \in c[x]
      BY <3>1
    <3>3. x \in 1..Len(c)
      BY <1>1, <2>1, <3>2
    <3> QED BY <3>2, <3>3
  <2>4. CASE i \in 1..Len(g)
    <3>1. u[i] = g[i]
      <4> HIDE DEF all
      <4> QED BY <2>1, <2>4
    <3>2. c[i] = g[i] /\ i \in 1..Len(c)
      BY <1>1, <1>8, <2>1, <2>4 DEF Led
    <3> QED BY <1>6, <3>1, <3>2
  <2>5. i = Len(g) + 1 \/ i \in 1..Len(g)
    BY <2>1, <2>2
  <2> QED BY <2>3, <2>4, <2>5
<1> QED BY <1>2, <1>7, <1>8 DEF u

LEMMA NotBoth ==
  ASSUME NEW p \in Seq(Actions), ValidPlan(p), NEW c,
         NEW n \in Kept(p), NEW g, Held(p, n, g, c),
         NEW m \in Kept(p), NEW h, Held(p, m, h, c), n < m
  PROVE  FALSE
<1>1. n \in 1..Len(p) /\ m \in 1..Len(p) /\ c \in Seq(Sets(p)) /\ Len(c) \in Nat
  BY DEF Held, Whole, Kept
<1>2. PICK i \in 1..Len(c) : n \in c[i]
  BY HeldHas
<1>3. Unfolded(p, n, g, c)
  <2> SUFFICES ASSUME ~Unfolded(p, n, g, c) PROVE FALSE
    OBVIOUS
  <2>1. n < n
    BY <1>2, HeldBelow
  <2> QED BY <1>1, <2>1
<1>4. ~Unfolded(p, m, h, c)
  <2> SUFFICES ASSUME Unfolded(p, m, h, c) PROVE FALSE
    OBVIOUS
  <2>1. PICK x \in 1..Len(c) : m \in c[x]
    BY HeldHas
  <2>2. m < n + 1
    BY <2>1, HeldBelow
  <2> QED BY <1>1, <2>2
<1>5. \A k \in Kept(p) : k > n => m <= k
  <2> SUFFICES ASSUME NEW k \in Kept(p), k > n, ~(m <= k) PROVE FALSE
    OBVIOUS
  <2>1. k \in 1..Len(p) /\ k < m
    BY <1>1 DEF Kept
  <2>2. PICK x \in 1..Len(c) : k \in c[x]
    BY <2>1, HeldHas
  <2>3. k < n + 1
    BY <2>2, HeldBelow
  <2> QED BY <1>1, <2>1, <2>3
<1>6. p[m] # "squash"
  BY <1>1, <1>3, <1>5 DEF Unfolded, Follows
<1>7. c = Upto(p)[m - 1]
  <2>1. ~Follows(p, m - 1)
    BY <1>6, FollowsIs
  <2> QED BY <1>4, <2>1 DEF Held, Whole, Alone, Opened, Grown
<1> DEFINE t == Upto(p)[n - 1]
           d == Upto(p)[n]
<1>8. /\ Led(g, c, n - 1) /\ Gathered(g, c) = d /\ g # NoCommit /\ p[n] = "squash"
      /\ g \in Seq(SUBSET (1..Len(p))) /\ c \in Seq(SUBSET (1..Len(p)))
  BY <1>1, <1>3, OfPlan DEF Unfolded, Held, Whole
<1>9. d # << >> /\ n \in d[Len(d)]
  <2>1. Enters(p, n, t, d)
    BY <1>1, UptoNext
  <2> QED BY <1>8, <2>1 DEF Enters
<1>10. \A x \in 1..Len(d) : d[x] \subseteq c[x]
  <2>1. n \in 0..Len(p) /\ m - 1 \in n..Len(p)
    BY <1>1
  <2> QED BY <1>7, <2>1, UptoGrows
<1>11. Len(d) = Len(g) + 1 /\ Len(g) \in Nat
  <2>1. {n} \in SUBSET (1..Len(p))
    BY <1>1
  <2>2. Gathers(g, c, {n})
    BY <1>8, <2>1, GatheredIs
  <2> QED BY <1>8, <2>2 DEF Gathers
<1> HIDE DEF t, d
<1>12. n \in c[Len(g) + 1]
  <2>1. Len(d) \in 1..Len(d)
    BY <1>11
  <2> QED BY <1>9, <1>10, <1>11, <2>1
<1>13. PICK k \in 1..(n - 1) : c[Len(g) + 1] = {k}
  BY <1>8 DEF Led
<1> QED BY <1>1, <1>12, <1>13

LEMMA OneCursor ==
  ASSUME NEW p \in Seq(Actions), ValidPlan(p), NEW c,
         NEW n \in Kept(p), NEW g, Held(p, n, g, c), NEW m \in Kept(p), NEW h, Held(p, m, h, c)
  PROVE  n = m
<1>1. n \in Int /\ m \in Int
  BY DEF Kept
<1>2. ~(n < m) /\ ~(m < n)
  BY NotBoth
<1> QED BY <1>1, <1>2

-----------------------------------------------------------------------------
(* No job has left its plan, as long as a landed step's files could be cleared *)

Exclusive ==
  \A v, w \in Workers :
    v # w /\ job[v].pc \notin {"idle", "commit"} => job[w].pc \in {"idle", "commit"}

BranchOK == branch \in {OldTip, NoCommit, Complete} \/ OnTop(branch)
OtherOK == other = Elsewhere \/ OnTop(other)

WholeOf(st) == Whole(plan, st.cursor, st.group, st.expected)
HeldOf(st) == Held(plan, st.cursor, st.group, st.expected)
StoresOK ==
  /\ file = NoRebase \/ HeldOf(file)
  /\ \A w \in Workers : fallback[w] = NoRebase \/ HeldOf(fallback[w])

JobRight(w) ==
  LET j == job[w]
      st == j.st
  IN /\ j.pc \in {"next", "land", "landed", "clear", "finish"} => AtExpected(st)
     /\ j.pc \in {"next", "finish"} => WholeOf(st)
     /\ j.pc = "finish" => st.cursor > Len(plan)
     /\ j.pc \in {"land", "commit", "adopt", "failed", "keep"} => HeldOf(st)
     /\ j.pc \in {"land", "commit", "adopt"} => st.cursor \in DOMAIN plan
     /\ j.pc = "commit" => j.parent = st.expected
     /\ j.pc = "adopt" => head = "detached" /\ at = Append(st.expected, {st.cursor})
     /\ j.pc = "landed" => Landed(plan, st.cursor, st.group, st.expected)
     /\ j.pc = "clear" => Whole(plan, st.cursor + 1, st.group, st.expected)
     /\ j.pc \in {"abort", "restore"} => j.mode # "continue"
     /\ j.pc \in {"attach", "clean"} /\ j.mode = "continue" => HeldOf(st)

Right == BranchOK /\ OtherOK /\ StoresOK /\ \A w \in Workers : JobRight(w)

RebaseInv == RebaseTypeOK /\ Exclusive /\ (uncleared \/ Right)

LEMMA BranchStays ==
  ASSUME BranchOK, OtherOK, UNCHANGED <<plan, branch, other>> PROVE BranchOK' /\ OtherOK'
BY DEF BranchOK, OtherOK, Complete

LEMMA StoresHold ==
  ASSUME StoresOK, UNCHANGED <<plan, storeVars>> PROVE StoresOK'
BY DEF StoresOK, HeldOf, storeVars

LEMMA PlanGiven ==
  ASSUME RebaseTypeOK, NEW w \in Workers
  PROVE  /\ plan \in Seq(Actions) /\ ValidPlan(plan)
         /\ DOMAIN plan = 1..Len(plan) /\ Len(plan) \in Nat
         /\ GitTypeOK /\ JobTypeOK /\ job[w] \in RebaseJobs /\ job[w].st \in Rebases
         /\ job[w].st.cursor \in Nat
<1>1. GitTypeOK /\ JobTypeOK
  BY DEF RebaseTypeOK
<1>2. plan \in Seq(Actions) /\ ValidPlan(plan) /\ DOMAIN plan = 1..Len(plan) /\ Len(plan) \in Nat
  BY <1>1, PlanIs DEF GitTypeOK
<1> QED BY <1>1, <1>2 DEF JobTypeOK, RebaseJobs, Rebases

LEMMA IdleRight ==
  ASSUME NEW w \in Workers, job'[w].pc \in {"idle", "detach", "forget"} PROVE JobRight(w)'
BY DEF JobRight

LEMMA FailedRight ==
  ASSUME JobTypeOK, NEW w \in Workers, NEW st \in Rebases, Failed(w, st), plan' = plan,
         job[w].mode = "continue" => HeldOf(st)
  PROVE  JobRight(w)'
<1>1. CASE job'[w] = NoJob
  BY <1>1, Given, IdleRight
<1>2. CASE job'[w].pc = "restore" /\ job'[w].mode = "roll back"
  BY <1>2 DEF JobRight
<1>3. CASE job[w].mode = "continue" /\ job'[w].pc = "failed" /\ job'[w].st = st
  <2>1. HeldOf(st)'
    BY <1>3 DEF HeldOf
  <2> QED BY <1>3, <2>1 DEF JobRight
<1> QED BY <1>1, <1>2, <1>3, WentWrong

LEMMA CommandRight ==
  ASSUME RebaseTypeOK, Right, NEW w \in Workers, Start(w) \/ Continue(w) \/ Abort(w)
  PROVE  BranchOK' /\ OtherOK' /\ StoresOK' /\ JobRight(w)'
<1>1. BranchOK' /\ OtherOK' /\ StoresOK' /\ UNCHANGED <<plan, gitVars>>
  BY BranchStays, StoresHold DEF Right, Start, Continue, Abort, gitVars
<1>2. job \in [Workers -> RebaseJobs] /\ Stored(w) \in Rebases
  BY StoredIs DEF RebaseTypeOK, JobTypeOK
<1>3. CASE Start(w)
  <2>1. job'[w].pc = "detach"
    BY <1>2, <1>3 DEF Start, RebaseJobs
  <2> QED BY <1>1, <2>1, IdleRight
<1>4. CASE Abort(w)
  <2>1. job'[w].pc = "abort" /\ job'[w].mode = "abort"
    BY <1>2, <1>4 DEF Abort, RebaseJobs
  <2> QED BY <1>1, <2>1 DEF JobRight
<1>5. CASE Continue(w)
  <2>8. PICK st \in Rebases : st = Stored(w)
    BY <1>2
  <2>1. st # NoRebase /\ HeldOf(st) /\ st.cursor \in Nat
    BY <1>2, <1>5, <2>8 DEF Continue, Stored, Right, StoresOK, Rebases
  <2>2. job'[w].pc = Resume(st) /\ job'[w].st = st /\ Resume(st) # "refuse"
    <3> DEFINE j == [NoJob EXCEPT !.pc = Resume(st), !.mode = "continue", !.st = st, !.loaded = st]
    <3>1. job'[w] = j
      BY <1>2, <1>5, <2>8 DEF Continue
    <3>2. j.pc = Resume(st) /\ j.st = st
      BY Given DEF RebaseJobs
    <3> QED BY <1>5, <2>8, <3>1, <3>2 DEF Continue
  <2>3. HeldOf(st)' /\ WholeOf(st)' /\ (AtExpected(st) => AtExpected(st)')
    BY <1>1, <2>1 DEF HeldOf, WholeOf, Held, AtExpected, gitVars
  <2>4. /\ Resume(st) \in {"finish", "land", "next", "adopt"}
        /\ Resume(st) \in {"finish", "land", "next"} => AtExpected(st)
        /\ Resume(st) = "finish" => st.cursor > Len(plan)
        /\ Resume(st) \in {"land", "adopt"} => ~(st.cursor > Len(plan))
        /\ Resume(st) = "adopt" => ByHand(st)
    BY <2>2 DEF Resume
  <2>5. Resume(st) \in {"land", "adopt"} => st.cursor \in DOMAIN plan
    <3>1. HeldOf(st) => st.cursor \in 1..(Len(plan) + 1)
      BY DEF HeldOf, Held, Whole
    <3> QED BY <2>1, <2>4, <3>1, PlanGiven
  <2>6. Resume(st) = "adopt" => head' = "detached" /\ at' = Append(st.expected, {st.cursor})
    BY <1>1, <2>4 DEF ByHand, gitVars
  <2>7. Len(plan') = Len(plan) /\ DOMAIN plan' = DOMAIN plan
    BY <1>1
  <2> QED BY <1>1, <2>2, <2>3, <2>4, <2>5, <2>6, <2>7 DEF JobRight
<1> QED BY <1>3, <1>4, <1>5

LEMMA AdvanceRight ==
  ASSUME RebaseTypeOK, Right, NEW w \in Workers, Detach(w) \/ Advance(w)
  PROVE  BranchOK' /\ OtherOK' /\ StoresOK' /\ JobRight(w)'
<1>1. BranchOK' /\ OtherOK' /\ StoresOK' /\ plan' = plan
  BY BranchStays, StoresHold DEF Right, Detach, Advance
<1>2. /\ plan \in Seq(Actions) /\ ValidPlan(plan) /\ DOMAIN plan = 1..Len(plan) /\ Len(plan) \in Nat
      /\ GitTypeOK /\ JobTypeOK /\ job[w] \in RebaseJobs /\ job[w].st \in Rebases
      /\ job[w].st.cursor \in Nat
  BY PlanGiven
<1>3. CASE Detach(w)
  <2>3. PICK new \in Rebases :
          new = [cursor |-> 1, group |-> NoCommit, expected |-> Onto, stop |-> "error"]
    BY Given DEF Rebases
  <2>1. CASE Stop(w)
    BY <1>1, <1>2, <2>1, Ended, IdleRight
  <2>2. CASE head' = "detached" /\ at' = Onto /\ GotoWith(w, "next", new)
    <3>1. "next" \in Pcs
      BY DEF Pcs
    <3>2. new.cursor = 1 /\ new.group = NoCommit /\ new.expected = Onto
      BY <2>3
    <3>3. job'[w].pc = "next" /\ job'[w].st = new
      BY <1>2, <2>2, <3>1, Went
    <3>4. WholeOf(new)' /\ AtExpected(new)'
      BY <1>1, <1>2, <2>2, <3>2, WholeStarts DEF WholeOf, AtExpected
    <3> QED BY <1>1, <3>3, <3>4 DEF JobRight
  <2> QED BY <1>3, <2>1, <2>2, <2>3 DEF Detach
<1>4. CASE Advance(w)
  <2>6. PICK st \in Rebases : st = job[w].st
    BY <1>2
  <2>7. st.cursor \in Nat /\ st.cursor + 1 \in Nat /\ GroupOf(st) \in Commits
    BY HeadIs, <1>2 DEF GroupOf, Rebases
  <2>8. PICK past \in Rebases : past = [st EXCEPT !.cursor = @ + 1]
    BY <2>7 DEF Rebases
  <2>9. PICK grouped \in Rebases : grouped = [st EXCEPT !.group = GroupOf(st)]
    BY <2>7 DEF Rebases
  <2>1. WholeOf(st) /\ AtExpected(st) /\ st \in Rebases /\ st.cursor \in 1..(Len(plan) + 1)
    BY <1>2, <1>4, <2>6 DEF Advance, At, Right, JobRight, WholeOf, Whole
  <2>2. UNCHANGED <<plan, head, at, branch, other>>
    BY <1>4 DEF Advance
  <2>3. CASE st.cursor > Len(plan) /\ Goto(w, "finish")
    <3>1. job'[w].pc = "finish" /\ job'[w].st = st
      BY <1>2, <2>3, <2>6, WentTo DEF Pcs
    <3>2. WholeOf(st)' /\ AtExpected(st)' /\ st.cursor > Len(plan')
      BY <2>1, <2>2, <2>3 DEF WholeOf, AtExpected
    <3> QED BY <1>1, <3>1, <3>2 DEF JobRight
  <2>4. CASE st.cursor <= Len(plan) /\ plan[st.cursor] = "drop" /\ GotoWith(w, "next", past)
    <3>1. past.cursor = st.cursor + 1 /\ past.group = st.group /\ past.expected = st.expected
      BY <2>8 DEF Rebases
    <3>2. st.cursor \in 1..Len(plan)
      BY <1>2, <2>1, <2>4
    <3>3. Whole(plan, st.cursor + 1, st.group, st.expected)
      BY <1>2, <2>1, <2>4, <3>2, WholeSkips DEF WholeOf
    <3>4. WholeOf(past)' /\ AtExpected(past)'
      BY <2>1, <2>2, <3>1, <3>3 DEF WholeOf, AtExpected
    <3>5. job'[w].pc = "next" /\ job'[w].st = past
      BY <1>2, <2>4, <3>1, Went DEF Pcs
    <3> QED BY <1>1, <3>4, <3>5 DEF JobRight
  <2>5. CASE st.cursor <= Len(plan) /\ plan[st.cursor] # "drop"
    <3>1. st.cursor \in Kept(plan) /\ st.cursor \in DOMAIN plan
      BY <1>2, <2>1, <2>5 DEF Kept
    <3>2. GroupOf(st) = IF st.group = NoCommit /\ Follows(plan, st.cursor) THEN st.expected ELSE st.group
      <4>1. HeadCommit = st.expected
        BY <1>2, <2>1, HeadIs DEF AtExpected
      <4>2. StartsGroup(st.cursor) <=> Follows(plan, st.cursor)
        BY DEF StartsGroup, NextKept, Follows
      <4> QED BY <4>1, <4>2 DEF GroupOf
    <3>3. Held(plan, st.cursor, GroupOf(st), st.expected)
      BY <1>2, <2>1, <3>1, <3>2, WholeOpens DEF WholeOf
    <3>5. /\ grouped.cursor = st.cursor /\ grouped.group = GroupOf(st)
          /\ grouped.expected = st.expected
      BY <2>9 DEF Rebases
    <3>6. HeldOf(grouped) /\ HeldOf(grouped)' /\ AtExpected(grouped)'
      BY <2>1, <2>2, <3>3, <3>5 DEF HeldOf, AtExpected
    <3>7. CASE Failed(w, grouped)
      BY <1>1, <1>2, <3>5, <3>6, <3>7, FailedRight
    <3>8. CASE GotoWith(w, "land", grouped)
      <4>1. job'[w].pc = "land" /\ job'[w].st = grouped
        BY <1>2, <3>5, <3>8, Went DEF Pcs
      <4> QED BY <1>1, <3>1, <3>5, <3>6, <4>1 DEF JobRight
    <3>9. ASSUME NEW s \in {"conflict", "edit"}, Paused(w, [grouped EXCEPT !.stop = s])
          PROVE  JobRight(w)'
      <4>4. PICK new \in Rebases : new = [grouped EXCEPT !.stop = s]
        BY DEF Rebases
      <4>1. /\ new.cursor = grouped.cursor /\ new.group = grouped.group
            /\ new.expected = grouped.expected
        BY <4>4 DEF Rebases
      <4>2. job'[w].pc = "keep" /\ job'[w].st = new
        BY <1>2, <3>9, <4>4, WentToKeep
      <4>3. HeldOf(new)'
        BY <3>6, <4>1 DEF HeldOf
      <4> QED BY <4>2, <4>3 DEF JobRight
    <3> QED
      <4>1. \/ Failed(w, grouped) \/ GotoWith(w, "land", grouped)
            \/ Paused(w, [grouped EXCEPT !.stop = "conflict"])
            \/ Paused(w, [grouped EXCEPT !.stop = "edit"])
        BY <1>2, <1>4, <2>5, <2>6, <2>7, <2>9 DEF Advance
      <4> QED BY <1>1, <3>7, <3>8, <3>9, <4>1
  <2> QED BY <1>4, <2>3, <2>4, <2>5, <2>6, <2>8, <2>9 DEF Advance
<1> QED BY <1>3, <1>4

LEMMA LandRight ==
  ASSUME RebaseTypeOK, Right, NEW w \in Workers, Land(w) \/ Commit(w) \/ Adopt(w)
  PROVE  BranchOK' /\ OtherOK' /\ StoresOK' /\ JobRight(w)'
<1>1. /\ plan \in Seq(Actions) /\ ValidPlan(plan) /\ DOMAIN plan = 1..Len(plan) /\ Len(plan) \in Nat
      /\ GitTypeOK /\ JobTypeOK /\ job[w] \in RebaseJobs /\ job[w].st \in Rebases
      /\ job[w].st.cursor \in Nat
  BY PlanGiven
<1>2. PICK st \in Rebases : st = job[w].st
  BY <1>1
<1>3. HeldOf(st) /\ st.cursor \in DOMAIN plan /\ plan' = plan
  BY <1>2 DEF Right, JobRight, Land, Commit, Adopt, At
<1>4. Held(plan, st.cursor, st.group, st.expected) /\ st.expected \in Seq(Sets(plan))
  BY <1>3 DEF HeldOf, Held, Whole
<1>5. CASE Failed(w, st) /\ UNCHANGED <<head, at, branch, other, storeVars>>
  BY <1>1, <1>3, <1>5, FailedRight, BranchStays, StoresHold DEF Right
<1>6. PICK new \in Commits : new = Append(st.expected, {st.cursor})
  <2>1. st.expected \in Seq(SUBSET Int) /\ {st.cursor} \in SUBSET Int
    BY DEF Rebases, Commits
  <2>2. Append(st.expected, {st.cursor}) \in Seq(SUBSET Int)
    BY <2>1
  <2> QED BY <2>2 DEF Commits
<1>7. Landed(plan, st.cursor, st.group, new)
  BY <1>1, <1>3, <1>4, <1>6, HeldLands
<1>8. PICK there \in Rebases : there = [st EXCEPT !.expected = new]
  BY DEF Rebases
<1>9. there.cursor = st.cursor /\ there.group = st.group /\ there.expected = new
  BY <1>8 DEF Rebases
<1>10. ASSUME GotoWith(w, "landed", there), head' = "detached", at' = new PROVE JobRight(w)'
  <2>1. job'[w].pc = "landed" /\ job'[w].st = there
    BY <1>1, <1>10, Went DEF Pcs
  <2> QED BY <1>3, <1>7, <1>9, <1>10, <2>1 DEF JobRight, AtExpected
<1>11. CASE Land(w)
  <2>1. CASE conflict
    BY <1>2, <1>5, <1>11, <2>1 DEF Land, gitVars
  <2>2. CASE ~conflict
    <3>1. PICK c \in Commits : c = HeadCommit
      BY <1>1, HeadIs
    <3>2. c = st.expected
      BY <1>1, <1>2, <1>11, <3>1, HeadIs DEF Land, At, Right, JobRight, AtExpected
    <3>3. job'[w].pc = "commit" /\ job'[w].st = st /\ job'[w].parent = c
      <4>1. job'[w] = [job[w] EXCEPT !.pc = "commit", !.parent = c]
        BY <1>1, <1>11, <2>2, <3>1 DEF Land, JobTypeOK
      <4> QED BY <1>1, <1>2, <4>1 DEF RebaseJobs
    <3>4. HeldOf(st)' /\ st.cursor \in DOMAIN plan'
      BY <1>3 DEF HeldOf
    <3>5. JobRight(w)'
      BY <3>2, <3>3, <3>4 DEF JobRight
    <3>6. UNCHANGED <<plan, branch, other, storeVars>>
      BY <1>11 DEF Land, gitVars
    <3> QED BY <3>5, <3>6, BranchStays, StoresHold DEF Right
  <2> QED BY <2>1, <2>2
<1>12. CASE Commit(w)
  <2>1. job[w].parent = st.expected
    BY <1>2, <1>12 DEF Commit, At, Right, JobRight
  <2>2. CASE Failed(w, st) /\ UNCHANGED <<head, at, branch, other>>
    BY <1>5, <1>12, <2>2 DEF Commit
  <2>3. CASE Swaps(w) /\ MoveHead(new) /\ GotoWith(w, "landed", there)
    <3>1. HeadCommit = st.expected
      BY <2>1, <2>3 DEF Swaps
    <3>2. st.expected # Complete
      BY <1>1, <1>3, <1>4, HeldIsNotComplete DEF Complete
    <3>3. /\ st.expected # NoCommit /\ st.expected # OldTip /\ st.expected # Elsewhere
          /\ ~OnTop(st.expected)
      BY <1>1, <1>4, OfPlan
    <3>4. head # "branch" /\ head # "other"
      <4>1. branch # st.expected
        BY <3>2, <3>3 DEF Right, BranchOK
      <4>2. other # st.expected
        BY <3>3 DEF Right, OtherOK
      <4> QED BY <1>1, <3>1, <4>1, <4>2, HeadIs
    <3>5. head' = "detached" /\ at' = new /\ UNCHANGED <<branch, other>>
      BY <1>1, <2>3, <3>4 DEF MoveHead, GitTypeOK
    <3>6. JobRight(w)'
      BY <1>10, <2>3, <3>5
    <3>7. UNCHANGED <<plan, branch, other, storeVars>>
      BY <1>12, <3>5 DEF Commit
    <3> QED BY <3>6, <3>7, BranchStays, StoresHold DEF Right
  <2> QED BY <1>2, <1>6, <1>8, <1>12, <2>1, <2>2, <2>3 DEF Commit
<1>13. CASE Adopt(w)
  <2>1. head = "detached" /\ at = new
    BY <1>2, <1>6, <1>13 DEF Adopt, At, Right, JobRight
  <2>2. HeadCommit = new
    BY <1>1, <2>1, HeadIs
  <2>3. UNCHANGED <<plan, head, at, branch, other, storeVars>>
    BY <1>13 DEF Adopt, gitVars
  <2>4. Failed(w, st) \/ GotoWith(w, "landed", there)
    BY <1>2, <1>8, <1>13, <2>2 DEF Adopt
  <2>5. CASE GotoWith(w, "landed", there)
    <3>1. JobRight(w)'
      BY <1>10, <2>1, <2>3, <2>5
    <3> QED BY <2>3, <3>1, BranchStays, StoresHold DEF Right
  <2> QED BY <1>5, <2>3, <2>4, <2>5
<1> QED BY <1>11, <1>12, <1>13

LEMMA LandedRight ==
  ASSUME RebaseTypeOK, Right, NEW w \in Workers, AfterLanded(w) \/ ClearStep(w), ~uncleared'
  PROVE  BranchOK' /\ OtherOK' /\ StoresOK' /\ JobRight(w)'
<1>1. /\ plan \in Seq(Actions) /\ ValidPlan(plan) /\ DOMAIN plan = 1..Len(plan) /\ Len(plan) \in Nat
      /\ GitTypeOK /\ JobTypeOK /\ job[w] \in RebaseJobs /\ job[w].st \in Rebases
      /\ job[w].st.cursor \in Nat
  BY PlanGiven
<1>2. PICK st \in Rebases : st = job[w].st
  BY <1>1
<1>3. AtExpected(st) /\ UNCHANGED <<plan, branch, other, storeVars>>
  BY <1>2 DEF Right, JobRight, AfterLanded, ClearStep, At
<1>4. BranchOK' /\ OtherOK' /\ StoresOK'
  BY <1>3, BranchStays, StoresHold DEF Right
<1>5. HeadCommit = st.expected
  BY <1>1, <1>3, HeadIs DEF AtExpected
<1>6. CASE AfterLanded(w)
  <2>1. Landed(plan, st.cursor, st.group, st.expected)
    BY <1>2, <1>6 DEF AfterLanded, At, Right, JobRight
  <2>2. EndsGroup(st.cursor) <=> plan[st.cursor] = "squash" /\ ~Follows(plan, st.cursor)
    BY DEF EndsGroup, StartsGroup, NextKept, Follows
  <2>3. Collapsed(st) = Gathered(st.group, st.expected)
    BY <1>5 DEF Collapsed, Gathered
  <2>4. CASE ~EndsGroup(st.cursor)
    <3>1. PICK there \in Rebases : there = [st EXCEPT !.expected = HeadCommit]
      BY <1>1, HeadIs DEF Rebases
    <3>2. there.cursor = st.cursor /\ there.group = st.group /\ there.expected = st.expected
      BY <1>5, <3>1 DEF Rebases
    <3>3. GotoWith(w, "clear", there) /\ UNCHANGED <<head, at>>
      BY <1>2, <1>6, <2>4, <3>1 DEF AfterLanded
    <3>4. job'[w].pc = "clear" /\ job'[w].st = there
      BY <1>1, <3>3, Went DEF Pcs
    <3>5. Whole(plan, st.cursor + 1, st.group, st.expected)
      BY <1>1, <2>1, <2>2, <2>4, LandedClears
    <3> QED BY <1>3, <1>4, <3>2, <3>3, <3>4, <3>5 DEF JobRight, AtExpected
  <2>5. CASE EndsGroup(st.cursor)
    <3>1. /\ st.group # NoCommit /\ Held(plan, st.cursor, st.group, st.expected)
          /\ Whole(plan, st.cursor + 1, NoCommit, Gathered(st.group, st.expected))
      BY <1>1, <2>1, <2>2, <2>5, LandedFolds
    <3>2. PICK all \in Commits : all = Collapsed(st)
      <4>1. Collapsed(st) \in Seq(Sets(plan))
        BY <2>3, <3>1 DEF Whole
      <4> QED BY <1>1, <4>1, OfPlan
    <3>3. PICK there \in Rebases : there = [st EXCEPT !.expected = all, !.group = NoCommit]
      BY Given DEF Rebases
    <3>4. there.cursor = st.cursor /\ there.group = NoCommit /\ there.expected = all
      BY <3>3 DEF Rebases
    <3>5. CASE head' = "detached" /\ at' = all /\ GotoWith(w, "clear", there)
      <4>1. job'[w].pc = "clear" /\ job'[w].st = there
        BY <1>1, <3>5, Went DEF Pcs
      <4> QED BY <1>3, <1>4, <2>3, <3>1, <3>2, <3>4, <3>5, <4>1 DEF JobRight, AtExpected
    <3>6. CASE Failed(w, st)
      BY <1>1, <1>3, <1>4, <3>1, <3>6, FailedRight DEF HeldOf
    <3> QED BY <1>2, <1>6, <2>5, <3>2, <3>3, <3>5, <3>6 DEF AfterLanded
  <2> QED BY <2>4, <2>5
<1>7. CASE ClearStep(w)
  <2>1. Whole(plan, st.cursor + 1, st.group, st.expected) /\ st.cursor + 1 \in Nat
    BY <1>1, <1>2, <1>7 DEF ClearStep, At, Right, JobRight
  <2>2. PICK there \in Rebases : there = [st EXCEPT !.cursor = @ + 1]
    BY <2>1 DEF Rebases
  <2>3. there.cursor = st.cursor + 1 /\ there.group = st.group /\ there.expected = st.expected
    BY <2>2 DEF Rebases
  <2>4. GotoWith(w, "next", there) /\ UNCHANGED <<head, at>>
    <3>1. faults' = faults
      BY <1>7 DEF ClearStep
    <3>2. ~(faults = 0 /\ 0 < MaxFaults /\ faults' = MaxFaults)
      BY <3>1
    <3> QED BY <1>2, <1>7, <2>2, <3>2 DEF ClearStep
  <2>5. job'[w].pc = "next" /\ job'[w].st = there
    BY <1>1, <2>4, Went DEF Pcs
  <2> QED BY <1>3, <1>4, <2>1, <2>3, <2>4, <2>5 DEF JobRight, AtExpected, WholeOf
<1> QED BY <1>6, <1>7

LEMMA FinishRight ==
  ASSUME RebaseTypeOK, Right, NEW w \in Workers,
         Finish(w) \/ Attach(w) \/ Clean(w) \/ Restore(w) \/ AbortRebase(w)
  PROVE  BranchOK' /\ OtherOK' /\ StoresOK' /\ JobRight(w)'
<1>1. /\ plan \in Seq(Actions) /\ ValidPlan(plan) /\ DOMAIN plan = 1..Len(plan) /\ Len(plan) \in Nat
      /\ GitTypeOK /\ JobTypeOK /\ job[w] \in RebaseJobs /\ job[w].st \in Rebases
      /\ job[w].st.cursor \in Nat
  BY PlanGiven
<1>2. PICK st \in Rebases : st = job[w].st
  BY <1>1
<1>3. UNCHANGED <<plan, other, storeVars>>
  BY DEF Finish, Attach, Clean, Restore, AbortRebase
<1>4. StoresOK' /\ OtherOK'
  BY <1>3, StoresHold DEF Right, OtherOK
<1>5. CASE Finish(w)
  <2>1. AtExpected(st) /\ WholeOf(st) /\ st.cursor > Len(plan)
    BY <1>2, <1>5 DEF Finish, At, Right, JobRight
  <2>2. HeldOf(st)
    BY <1>1, <1>2, <2>1 DEF WholeOf, HeldOf, Held
  <2>3. HeadCommit = Complete
    <3>1. HeadCommit = st.expected
      BY <1>1, <2>1, HeadIs DEF AtExpected
    <3>2. st.expected = Upto(plan)[Len(plan)]
      BY <1>1, <2>1, WholeEnds DEF WholeOf
    <3> QED BY <3>1, <3>2 DEF Complete
  <2>4. branch' = branch \/ branch' = Complete
    BY <1>5, <2>3 DEF Finish
  <2>5. BranchOK'
    BY <1>3, <2>4 DEF Right, BranchOK, Complete
  <2>6. CASE Failed(w, st)
    BY <1>1, <1>3, <1>4, <2>2, <2>5, <2>6, FailedRight
  <2>7. CASE Goto(w, "attach")
    <3>1. job'[w].pc = "attach" /\ job'[w].st = st
      BY <1>1, <1>2, <2>7, WentTo DEF Pcs
    <3> QED BY <1>3, <1>4, <2>2, <2>5, <3>1 DEF JobRight, HeldOf
  <2> QED BY <1>2, <1>5, <2>6, <2>7 DEF Finish
<1>6. ASSUME Attach(w) \/ Clean(w) \/ Restore(w) \/ AbortRebase(w)
      PROVE  BranchOK' /\ OtherOK' /\ StoresOK' /\ JobRight(w)'
  <2>1. BranchOK'
    <3>1. branch' = branch
      BY <1>6 DEF Attach, Clean, Restore, AbortRebase
    <3> QED BY <1>3, <3>1, BranchStays DEF Right
  <2>2. job[w].mode = "continue" => HeldOf(st)
    BY <1>2, <1>6 DEF Attach, Clean, Restore, AbortRebase, At, Right, JobRight
  <2>3. CASE Failed(w, st)
    BY <1>1, <1>3, <1>4, <2>1, <2>2, <2>3, FailedRight
  <2>4. CASE Stop(w)
    BY <1>1, <1>4, <2>1, <2>4, Ended, IdleRight
  <2>5. ASSUME NEW pc \in {"attach", "clean", "forget"}, Goto(w, pc) PROVE JobRight(w)'
    <3>1. job'[w].pc = pc /\ job'[w].st = st /\ job'[w].mode = job[w].mode
      BY <1>1, <1>2, <2>5, WentTo DEF Pcs
    <3> QED BY <1>3, <2>2, <3>1 DEF JobRight, HeldOf
  <2>6. ASSUME AbortRebase(w), Goto(w, "restore") PROVE JobRight(w)'
    <3>1. job'[w].pc = "restore" /\ job'[w].mode = job[w].mode
      BY <1>1, <2>6, WentTo DEF Pcs
    <3>2. job[w].mode # "continue"
      BY <2>6 DEF AbortRebase, At, Right, JobRight
    <3> QED BY <3>1, <3>2 DEF JobRight
  <2>7. \/ Failed(w, st) \/ Stop(w) \/ Goto(w, "attach") \/ Goto(w, "clean") \/ Goto(w, "forget")
        \/ AbortRebase(w) /\ Goto(w, "restore")
    BY <1>2, <1>6 DEF Attach, Clean, Restore, AbortRebase
  <2> QED BY <1>4, <2>1, <2>3, <2>4, <2>5, <2>6, <2>7
<1> QED BY <1>5, <1>6

LEMMA KeepRight ==
  ASSUME RebaseTypeOK, Right, NEW w \in Workers,
         ContinueFailed(w) \/ Leave(w) \/ Save(w) \/ Forget(w)
  PROVE  BranchOK' /\ OtherOK' /\ StoresOK' /\ JobRight(w)'
<1>1. GitTypeOK /\ JobTypeOK /\ StoreTypeOK /\ job[w] \in RebaseJobs /\ job[w].st \in Rebases
  BY PlanGiven DEF RebaseTypeOK
<1>2. PICK st \in Rebases : st = job[w].st
  BY <1>1
<1>3. UNCHANGED <<plan, gitVars>> /\ BranchOK' /\ OtherOK'
  BY BranchStays DEF ContinueFailed, Leave, Save, Forget, Right, gitVars
<1>4. CASE ContinueFailed(w)
  <2>1. st.stop \in {"error", "edit", "conflict"}
    BY DEF Rebases
  <2>2. StopOf(st) \in {"error", "edit", "conflict"}
    BY <2>1 DEF StopOf
  <2>3. PICK new \in Rebases : new = [st EXCEPT !.stop = StopOf(st)]
    BY <2>2 DEF Rebases
  <2>4. new.cursor = st.cursor /\ new.group = st.group /\ new.expected = st.expected
    BY <2>3 DEF Rebases
  <2>5. HeldOf(st)
    BY <1>2, <1>4 DEF ContinueFailed, At, Right, JobRight
  <2>6. job'[w].pc = "keep" /\ job'[w].st = new
    BY <1>1, <1>2, <1>4, <2>3, Went DEF ContinueFailed, Pcs
  <2>7. HeldOf(new)'
    BY <1>3, <2>4, <2>5 DEF HeldOf
  <2>8. StoresOK'
    BY <1>4, StoresHold DEF ContinueFailed, Right
  <2> QED BY <1>3, <2>6, <2>7, <2>8 DEF JobRight
<1>5. CASE Leave(w)
  <2>1. StoresOK'
    BY <1>5, StoresHold DEF Leave, Right
  <2> QED BY <1>1, <1>3, <1>5, <2>1, Ended, IdleRight DEF Leave
<1>6. CASE Save(w)
  <2>1. HeldOf(st)
    BY <1>2, <1>6 DEF Save, At, Right, JobRight
  <2>2. \A v \in Workers : fallback'[v] \in {fallback[v], NoRebase, st}
    BY <1>1, <1>2, <1>6 DEF Save, StoreTypeOK
  <2>3. file' \in {file, st}
    BY <1>2, <1>6 DEF Save
  <2>4. StoresOK'
    BY <1>3, <2>1, <2>2, <2>3 DEF StoresOK, HeldOf, Right
  <2> QED BY <1>1, <1>3, <1>6, <2>4, Ended, IdleRight DEF Save
<1>7. CASE Forget(w)
  <2>1. \A v \in Workers : fallback'[v] \in {fallback[v], NoRebase}
    BY <1>1, <1>7 DEF Forget, StoreTypeOK
  <2>2. file' \in {file, NoRebase}
    BY <1>7 DEF Forget
  <2>3. StoresOK'
    BY <1>3, <2>1, <2>2 DEF StoresOK, HeldOf, Right
  <2> QED BY <1>1, <1>3, <1>7, <2>3, Ended, IdleRight DEF Forget
<1> QED BY <1>4, <1>5, <1>6, <1>7

LEMMA OthersStay ==
  ASSUME JobTypeOK, NEW w \in Workers, MayWork(w), Start(w) \/ Continue(w) \/ Abort(w) \/ Step(w)
  PROVE  \A v \in Workers : v # w => job'[v] = job[v] /\ job[v].pc \in {"idle", "commit"}
<1>1. \A v \in Workers : v # w => job'[v] = job[v]
  <2>2. CASE Start(w) \/ Continue(w) \/ Abort(w)
    BY <2>2 DEF Start, Continue, Abort, JobTypeOK
  <2>3. CASE Step(w)
    BY <2>3
       DEF Step, Detach, Advance, Land, Commit, Adopt, AfterLanded, ClearStep, Finish, Attach,
           Clean, Restore, AbortRebase, ContinueFailed, Leave, Save, Forget, Goto, GotoWith, Stop,
           Failed, Paused, JobTypeOK
  <2> QED BY <2>2, <2>3
<1> QED BY <1>1 DEF MayWork, Others

LEMMA WorkRight ==
  ASSUME RebaseInv, NEW w \in Workers, MayWork(w), Start(w) \/ Continue(w) \/ Abort(w) \/ Step(w)
  PROVE  RebaseInv'
<1>1. RebaseTypeOK'
  BY CommandTyped, StepTyped DEF RebaseInv
<1>2. \A v \in Workers : v # w => job'[v] = job[v] /\ job[v].pc \in {"idle", "commit"}
  <2>1. JobTypeOK
    BY DEF RebaseInv, RebaseTypeOK
  <2> QED BY <2>1, OthersStay
<1>3. Exclusive'
  BY <1>2 DEF Exclusive
<1>4. ASSUME ~uncleared' PROVE Right'
  <2>1. ~uncleared /\ plan' = plan
    <3>1. CASE Start(w) \/ Continue(w) \/ Abort(w)
      BY <1>4, <3>1 DEF Start, Continue, Abort
    <3>2. CASE ClearStep(w)
      <4>1. uncleared' = (uncleared \/ faults' # faults) /\ plan' = plan
        BY <3>2 DEF ClearStep
      <4> QED BY <1>4, <4>1
    <3>3. CASE Step(w) /\ ~ClearStep(w)
      <4>1. plan' = plan /\ uncleared' = uncleared
        BY <3>3
           DEF Step, Detach, Advance, Land, Commit, Adopt, AfterLanded, Finish, Attach, Clean,
               Restore, AbortRebase, ContinueFailed, Leave, Save, Forget, outside
      <4> QED BY <1>4, <4>1
    <3> QED BY <3>1, <3>2, <3>3
  <2>2. RebaseTypeOK /\ Right
    BY <2>1 DEF RebaseInv
  <2>3. BranchOK' /\ OtherOK' /\ StoresOK' /\ JobRight(w)'
    BY <1>4, <2>2, CommandRight, AdvanceRight, LandRight, LandedRight, FinishRight, KeepRight DEF Step
  <2>4. ASSUME NEW v \in Workers, v # w PROVE JobRight(v)'
    <3>1. job'[v] = job[v] /\ job[v].pc \in {"idle", "commit"} /\ JobRight(v)
      BY <1>2, <2>2, <2>4 DEF Right
    <3> QED BY <2>1, <3>1 DEF JobRight, HeldOf
  <2> QED BY <2>3, <2>4 DEF Right
<1> QED BY <1>1, <1>3, <1>4 DEF RebaseInv

LEMMA OutsideRight ==
  ASSUME RebaseInv, Terminal \/ \E w \in Workers : Crash(w)
  PROVE  RebaseInv'
<1>1. RebaseTypeOK' /\ GitTypeOK /\ JobTypeOK /\ StoreTypeOK
  BY OutsideTyped DEF RebaseInv, RebaseTypeOK
<1>2. CASE \E w \in Workers : Crash(w)
  <2>1. PICK w \in Workers : Crash(w)
    BY <1>2
  <2>2. job'[w] = NoJob /\ \A v \in Workers : v # w => job'[v] = job[v]
    BY <1>1, <2>1 DEF Crash, JobTypeOK
  <2>3. Exclusive'
    BY <2>2, Given DEF RebaseInv, Exclusive
  <2>4. ASSUME Right PROVE Right'
    <3>1. UNCHANGED <<plan, gitVars, file>>
      BY <2>1 DEF Crash
    <3>2. \A v \in Workers : fallback'[v] \in {fallback[v], NoRebase}
      BY <1>1, <2>1 DEF Crash, StoreTypeOK
    <3>3. BranchOK' /\ OtherOK'
      BY <2>4, <3>1, BranchStays DEF Right, gitVars
    <3>4. StoresOK'
      BY <2>4, <3>1, <3>2 DEF Right, StoresOK, HeldOf
    <3>5. JobRight(w)'
      BY <2>2, Given, IdleRight
    <3>6. ASSUME NEW v \in Workers, v # w PROVE JobRight(v)'
      <4>1. JobRight(v) /\ job'[v] = job[v] /\ UNCHANGED <<plan, head, at>>
        BY <2>2, <2>4, <3>1, <3>6 DEF Right, gitVars
      <4> QED BY <4>1 DEF JobRight, AtExpected, HeldOf, WholeOf
    <3> QED BY <3>3, <3>4, <3>5, <3>6 DEF Right
  <2>5. uncleared' = uncleared
    BY <2>1 DEF Crash
  <2> QED BY <1>1, <2>3, <2>4, <2>5 DEF RebaseInv
<1>3. CASE Terminal
  <2>1. Quiet /\ UNCHANGED <<plan, storeVars, job, uncleared>>
    BY <1>3 DEF Terminal, Resolve, CommitByHand, SkipByHand, Diverge, outside
  <2>2. Exclusive'
    BY <2>1 DEF RebaseInv, Exclusive
  <2>3. ASSUME Right PROVE Right'
    <3>1. ASSUME NEW v \in Workers PROVE JobRight(v)'
      <4>1. JobRight(v) /\ job'[v] = job[v] /\ job[v].pc \in {"idle", "commit"}
        BY <2>1, <2>3 DEF Right, Quiet
      <4> QED BY <2>1, <4>1 DEF JobRight, HeldOf
    <3>2. StoresOK'
      BY <2>1, <2>3, StoresHold DEF Right
    <3>3. \A c \in Commits : OnTop(Append(c, {}))
      <4> SUFFICES ASSUME NEW c \in Commits PROVE OnTop(Append(c, {}))
        OBVIOUS
      <4>1. Append(c, {}) # << >> /\ Len(Append(c, {})) = Len(c) + 1 /\ Append(c, {})[Len(c) + 1] = {}
        BY DEF Commits
      <4> QED BY <4>1 DEF OnTop
    <3>4. HeadCommit \in Commits /\ branch \in Commits
      BY <1>1, HeadIs DEF GitTypeOK
    <3>5. branch' = branch \/ branch' = NoCommit \/ OnTop(branch')
      BY <1>3, <3>3, <3>4 DEF Terminal, Resolve, CommitByHand, SkipByHand, Diverge, MoveHead
    <3>6. other' = other \/ OnTop(other')
      BY <1>3, <3>3, <3>4 DEF Terminal, Resolve, CommitByHand, SkipByHand, Diverge, MoveHead
    <3>7. BranchOK' /\ OtherOK'
      BY <2>1, <2>3, <3>5, <3>6 DEF Right, BranchOK, OtherOK, OnTop, Complete
    <3> QED BY <3>1, <3>2, <3>7 DEF Right
  <2> QED BY <1>1, <2>1, <2>2, <2>3 DEF RebaseInv
<1> QED BY <1>2, <1>3

LEMMA RebaseHolds == RebaseInv /\ [Next]_vars => RebaseInv'
<1>1. ASSUME RebaseInv, UNCHANGED vars PROVE RebaseInv'
  <2>1. RebaseTypeOK'
    BY <1>1, RebaseTyped DEF RebaseInv
  <2>2. Exclusive' /\ uncleared' = uncleared
    BY <1>1 DEF RebaseInv, Exclusive, vars, outside
  <2>3. ASSUME Right PROVE Right'
    <3>1. UNCHANGED <<plan, head, at, branch, other, storeVars, job>>
      BY <1>1 DEF vars, gitVars
    <3>2. BranchOK' /\ OtherOK' /\ StoresOK'
      BY <2>3, <3>1, BranchStays, StoresHold DEF Right
    <3>3. ASSUME NEW v \in Workers PROVE JobRight(v)'
      <4>1. JobRight(v)
        BY <2>3 DEF Right
      <4> QED BY <3>1, <4>1 DEF JobRight, AtExpected, HeldOf, WholeOf
    <3> QED BY <3>2, <3>3 DEF Right
  <2> QED BY <1>1, <2>1, <2>2, <2>3 DEF RebaseInv
<1>2. ASSUME RebaseInv, Next PROVE RebaseInv'
  BY <1>2, WorkRight, OutsideRight DEF Next
<1> QED BY <1>1, <1>2

LEMMA RebaseStarts == Init => RebaseInv
<1> SUFFICES ASSUME Init PROVE RebaseInv
  OBVIOUS
<1>1. RebaseTypeOK
  BY RebaseStartsTyped
<1>2. Exclusive
  BY Given DEF Init, Exclusive
<1>3. Right
  BY Given DEF Init, Right, BranchOK, OtherOK, StoresOK, JobRight
<1> QED BY <1>1, <1>2, <1>3 DEF RebaseInv

(* Every variable keeps its type: plans, commits, stored states and jobs stay what they are, *)
(* whatever fails and whoever acts (git-core/rebase.rs, worker/rebase.rs).                   *)
THEOREM RebaseIsTyped == Spec => []RebaseTypeOK
<1>1. Init /\ [][Next]_vars => []RebaseTypeOK
  BY RebaseStartsTyped, RebaseTyped, PTL
<1> QED BY <1>1 DEF Spec

(* The rebased branch only ever gets to the whole plan, each entry once and every group in *)
(* one commit: for any number of windows, every plan, and however many calls fail, users    *)
(* interfere and workers die, as long as a landed step's files could be cleared              *)
(* (advance, land_current_step, after_landed, finish).                                       *)
THEOREM BranchGetsWholePlan == Spec => []BranchIsWhole
<1>1. RebaseInv => BranchIsWhole
  BY DEF RebaseInv, Right, BranchOK, OnTop, BranchIsWhole
<1>2. Init /\ [][Next]_vars => []RebaseInv
  BY RebaseStarts, RebaseHolds, PTL
<1> QED BY <1>1, <1>2, PTL DEF Spec

-----------------------------------------------------------------------------
(* A rebase that is stopped can be taken up again: nobody in a terminal moved HEAD or the *)
(* branch, nothing died at work, every roll back worked and what landed could be cleared. *)

Calm == ~excused /\ ~uncleared

(* What a job may be for, at each of its places. *)
JobShape(w) ==
  LET j == job[w]
  IN /\ j.pc = "idle" => j = NoJob
     /\ j.ok => j.pc = "keep"
     /\ j.pc = "detach" => j.mode = "start"
     /\ j.pc \in {"next", "land", "commit", "landed", "clear", "finish"} =>
          j.mode \in {"start", "continue"}
     /\ j.pc \in {"adopt", "failed"} => j.mode = "continue"
     /\ j.pc = "abort" => j.mode = "abort"
     /\ j.pc = "restore" => j.mode \in {"abort", "roll back"}
     /\ j.pc = "keep" => j.mode = "continue" \/ (j.mode = "start" /\ j.ok)
     /\ j.pc \in {"attach", "clean"} => j.mode \in {"start", "continue", "abort", "roll back"}
     /\ j.pc = "forget" => j.mode \in {"start", "continue", "abort"}
Shaped == \A w \in Workers : JobShape(w)

(* A copy that only one window has: nobody else is at work or has another one. *)
OneCopy ==
  \A x \in Workers : fallback[x] # NoRebase =>
    \A v \in Workers : v # x => job[v] = NoJob /\ fallback[v] = NoRebase

(* Where HEAD is, and which pick is paused, at each place of a job. *)
Own(st) == pick = NoPick \/ pick = st.cursor
PickOK(w) ==
  LET j == job[w]
      st == j.st
  IN /\ j.pc \in {"detach", "clean"} => head = "branch"
     /\ j.pc \in {"detach", "next", "adopt", "finish"} => pick = NoPick
     /\ j.pc \in {"attach", "clean"} /\ j.mode \in {"start", "continue"} => pick = NoPick
     /\ j.pc = "land" => pick = st.cursor
     /\ j.pc \in {"landed", "clear"} => Own(st)
     /\ j.pc \in {"restore", "attach", "clean"} /\ j.mode = "abort" => Own(st)
     /\ j.pc \in {"failed", "keep"} /\ AtExpected(st) => Own(st)
     /\ j.pc = "keep" /\ AtExpected(st) /\ pick # NoPick => st.stop # "error"
     /\ j.pc = "keep" /\ j.ok => AtExpected(st)

(* How far a Continue has come from the copy it began with, and what an Abort was begun for. *)
Gained(st, l) ==
  st.cursor # l.cursor \/ Len(st.expected) # Len(l.expected) \/ st.group # l.group
GainOK(w) ==
  LET j == job[w]
      st == j.st
      l == j.loaded
  IN /\ j.mode = "continue" =>
          /\ j.pc \in {"next", "land", "commit", "landed", "clear"} => st.cursor >= l.cursor
          /\ j.pc = "next" /\ st.cursor = l.cursor => st = l /\ l = Stored(w) /\ l # NoRebase
          /\ j.pc = "adopt" => st = l
          /\ j.pc \in {"land", "commit"} /\ st.cursor = l.cursor =>
               st.expected = l.expected /\ (st.group = l.group \/ StartsGroup(st.cursor))
          /\ j.pc = "landed" /\ st.cursor = l.cursor =>
               Len(st.expected) > Len(l.expected) /\ (st.group = l.group \/ StartsGroup(st.cursor))
          /\ j.pc = "clear" => Gained(st, l)
     /\ j.mode = "abort" /\ j.pc \in {"abort", "restore", "attach", "clean"} =>
          Stored(w) = st /\ st # NoRebase

(* The paused pick is the step that comes next on HEAD, but for a job that has just committed it. *)
PickHeld ==
  (\A w \in Workers : job[w].pc \notin {"landed", "clear"}) /\ head = "detached" /\ pick # NoPick =>
    \E g \in Commits : Held(plan, pick, g, at)

(* The copy of the rebase that counts: the one in memory, if a save failed, or rebase.json. *)
CopyIn(fb, f) ==
  IF \A x \in Workers : fb[x] = NoRebase THEN f
  ELSE fb[CHOOSE x \in Workers : fb[x] # NoRebase]
Copy == CopyIn(fallback, file)

(* While HEAD is detached some job is on its way, or that copy is what Abort takes back to *)
(* the branch, and some window reads it.                                                   *)
Stranding == head = "detached" /\ branch = OldTip
Carrier(v) ==
  \/ job[v].mode \in {"start", "roll back"}
  \/ /\ job[v].mode = "continue" /\ at = job[v].st.expected
     /\ Gained(job[v].st, job[v].loaded)
Current(st) == st # NoRebase /\ Owned(st)
Readable ==
  (\A x \in Workers : fallback[x] = NoRebase) => \E x \in Workers : forgotten[x] # file
Carried == Stranding => (\E v \in Workers : Carrier(v)) \/ (Current(Copy) /\ Readable)
Forgets ==
  \A w \in Workers : job[w].pc = "forget" /\ Stranding => \E v \in Workers : v # w /\ Carrier(v)

(* The step that copy has paused is not taken for one that was never picked: else a user who *)
(* commits it by hand is told that HEAD moved.                                               *)
Stray(c) == AtExpected(c) /\ pick # NoPick /\ pick = c.cursor /\ c.stop = "error"
Mends(v) ==
  \/ job[v].mode \in {"start", "roll back"}
  \/ /\ job[v].mode = "continue" /\ at = job[v].st.expected
     /\ job[v].pc \in {"land", "commit", "landed", "clear", "failed", "keep"}
     /\ Gained(job[v].st, job[v].loaded) \/ job[v].loaded.stop = "error"
     /\ job[v].pc = "keep" => job[v].st # job[v].loaded
Mended == Stranding => (\E v \in Workers : Mends(v)) \/ ~Stray(Copy)

(* Once HEAD is back on the branch, a pick that could not be taken back is that copy's. *)
OnBranch == head = "branch" /\ branch = OldTip
Leftover ==
  /\ OnBranch /\ pick # NoPick /\ (\A v \in Workers : job[v].pc # "clean") =>
       Copy = NoRebase \/ Copy.cursor = pick
  /\ OnBranch /\ (\E v \in Workers : job[v].pc = "forget") => pick = NoPick

GroundOK == PickHeld /\ Carried /\ Mended /\ Forgets /\ Leftover
CalmOK ==
  /\ head # "other" /\ OneCopy /\ GroundOK
  /\ \A w \in Workers : PickOK(w) /\ GainOK(w)
StrandInv == RebaseInv /\ Shaped /\ faults \in Nat /\ (Calm => CalmOK)

LEMMA FailedShape ==
  ASSUME JobTypeOK, NEW w \in Workers, JobShape(w), job[w].pc # "keep", NEW st \in Rebases,
         Failed(w, st)
  PROVE  JobShape(w)'
<1>1. ~job[w].ok
  BY DEF JobShape
<1>2. CASE job'[w] = NoJob
  BY <1>2, Given DEF JobShape
<1>3. CASE job'[w].pc = "restore" /\ job'[w].mode = "roll back" /\ job'[w].ok = job[w].ok
  BY <1>1, <1>3 DEF JobShape
<1>4. CASE job'[w].pc = "failed" /\ job'[w].mode = "continue" /\ job'[w].ok = job[w].ok
  BY <1>1, <1>4 DEF JobShape
<1> QED BY <1>2, <1>3, <1>4, WentWrong

LEMMA EndedShape ==
  ASSUME JobTypeOK, NEW w \in Workers, Stop(w) PROVE JobShape(w)'
BY Ended, Given DEF JobShape

(* How a command begins. *)
LEMMA Began ==
  ASSUME JobTypeOK, NEW w \in Workers, JobShape(w)
  PROVE  /\ Start(w) => /\ job'[w].pc = "detach" /\ job'[w].mode = "start" /\ ~job'[w].ok
         /\ Continue(w) =>
              /\ job'[w].pc = Resume(Stored(w)) /\ job'[w].mode = "continue" /\ ~job'[w].ok
              /\ job'[w].st = Stored(w) /\ job'[w].loaded = Stored(w)
         /\ Abort(w) => /\ job'[w].pc = "abort" /\ job'[w].mode = "abort" /\ ~job'[w].ok
                        /\ job'[w].st = Stored(w)
<1>1. job[w] \in RebaseJobs
  BY DEF JobTypeOK
<1>2. ASSUME Start(w)
      PROVE  job'[w].pc = "detach" /\ job'[w].mode = "start" /\ ~job'[w].ok
  <2>1. job'[w] = [job[w] EXCEPT !.pc = "detach", !.mode = "start"]
    BY <1>2 DEF Start, JobTypeOK
  <2>2. ~job[w].ok
    BY <1>2 DEF Start, At, JobShape
  <2> QED BY <1>1, <2>1, <2>2 DEF RebaseJobs
<1>3. ASSUME Abort(w)
      PROVE  /\ job'[w].pc = "abort" /\ job'[w].mode = "abort" /\ ~job'[w].ok
             /\ job'[w].st = Stored(w)
  <2>1. job'[w] = [job[w] EXCEPT !.pc = "abort", !.mode = "abort", !.st = Stored(w)]
    BY <1>3 DEF Abort, JobTypeOK
  <2>2. ~job[w].ok
    BY <1>3 DEF Abort, At, JobShape
  <2> QED BY <1>1, <2>1, <2>2 DEF RebaseJobs
<1>4. ASSUME Continue(w)
      PROVE  /\ job'[w].pc = Resume(Stored(w)) /\ job'[w].mode = "continue" /\ ~job'[w].ok
             /\ job'[w].st = Stored(w) /\ job'[w].loaded = Stored(w)
  <2>1. job'[w] = [NoJob EXCEPT !.pc = Resume(Stored(w)), !.mode = "continue", !.st = Stored(w),
                     !.loaded = Stored(w)]
    BY <1>4 DEF Continue, JobTypeOK
  <2> QED BY <2>1, Given DEF RebaseJobs
<1> QED BY <1>2, <1>3, <1>4

(* Land's way to the signer. *)
LEMMA WentToCommit ==
  ASSUME JobTypeOK, GitTypeOK, NEW w \in Workers, Land(w), ~conflict
  PROVE  /\ job'[w].pc = "commit" /\ job'[w].mode = job[w].mode /\ job'[w].st = job[w].st
         /\ job'[w].loaded = job[w].loaded /\ job'[w].ok = job[w].ok
<1>1. job'[w] = [job[w] EXCEPT !.pc = "commit", !.parent = HeadCommit] /\ job[w] \in RebaseJobs
  BY DEF Land, JobTypeOK
<1> QED BY <1>1 DEF RebaseJobs

LEMMA StepShape ==
  ASSUME RebaseTypeOK, NEW w \in Workers, JobShape(w), Step(w)
  PROVE  JobShape(w)'
<1>1. GitTypeOK /\ JobTypeOK /\ job[w] \in RebaseJobs /\ job[w].st \in Rebases
  BY DEF RebaseTypeOK, JobTypeOK, RebaseJobs
<1>2. PICK st \in Rebases : st = job[w].st
  BY <1>1
<1>3. HeadCommit \in Commits /\ st.cursor + 1 \in Nat /\ st.group \in Commits
  BY <1>1, HeadIs DEF Rebases
<1>4. ASSUME NEW pc \in Pcs, NEW new \in Rebases, GotoWith(w, pc, new), job[w].pc # "keep"
      PROVE  job'[w].pc = pc /\ job'[w].mode = job[w].mode /\ ~job'[w].ok
  BY <1>1, <1>4, Went DEF JobShape
<1>5. ASSUME NEW pc \in Pcs, Goto(w, pc), job[w].pc # "keep"
      PROVE  job'[w].pc = pc /\ job'[w].mode = job[w].mode /\ ~job'[w].ok
  BY <1>1, <1>5, WentTo DEF JobShape
<1>6. CASE Detach(w)
  <2>1. PICK new \in Rebases :
          new = [cursor |-> 1, group |-> NoCommit, expected |-> Onto, stop |-> "error"]
    BY Given DEF Rebases
  <2>2. CASE GotoWith(w, "next", new)
    BY <1>4, <1>6, <2>2 DEF Detach, At, JobShape, Pcs
  <2> QED BY <1>1, <1>6, <2>1, <2>2, EndedShape DEF Detach
<1>7. CASE Advance(w)
  <2>1. PICK grouped \in Rebases : grouped = [st EXCEPT !.group = GroupOf(st)]
    <3>1. GroupOf(st) \in Commits
      BY <1>3 DEF GroupOf
    <3> QED BY <3>1 DEF Rebases
  <2>2. PICK past \in Rebases : past = [st EXCEPT !.cursor = @ + 1]
    BY <1>3 DEF Rebases
  <2>3. job[w].pc = "next" /\ job[w].mode \in {"start", "continue"}
    BY <1>7 DEF Advance, At, JobShape
  <2>4. CASE Goto(w, "finish")
    BY <1>5, <2>3, <2>4 DEF JobShape, Pcs
  <2>5. CASE GotoWith(w, "next", past)
    BY <1>4, <2>3, <2>5 DEF JobShape, Pcs
  <2>6. CASE GotoWith(w, "land", grouped)
    BY <1>4, <2>3, <2>6 DEF JobShape, Pcs
  <2>7. CASE Failed(w, grouped)
    BY <1>1, <2>3, <2>7, FailedShape
  <2>8. ASSUME NEW s \in {"conflict", "edit"}, Paused(w, [grouped EXCEPT !.stop = s])
        PROVE  JobShape(w)'
    <3>1. PICK new \in Rebases : new = [grouped EXCEPT !.stop = s]
      BY DEF Rebases
    <3>2. job'[w].pc = "keep" /\ job'[w].mode = job[w].mode /\ job'[w].ok
      BY <1>1, <2>8, <3>1, WentToKeep
    <3> QED BY <2>3, <3>2 DEF JobShape
  <2>9. \/ Goto(w, "finish") \/ GotoWith(w, "next", past) \/ GotoWith(w, "land", grouped)
        \/ Failed(w, grouped)
        \/ Paused(w, [grouped EXCEPT !.stop = "conflict"])
        \/ Paused(w, [grouped EXCEPT !.stop = "edit"])
    BY <1>2, <1>7, <2>1, <2>2 DEF Advance
  <2> QED BY <2>4, <2>5, <2>6, <2>7, <2>8, <2>9
<1>8. CASE Land(w)
  <2>1. job[w].pc = "land" /\ job[w].mode \in {"start", "continue"}
    BY <1>8 DEF Land, At, JobShape
  <2>2. CASE conflict
    BY <1>1, <1>2, <1>8, <2>1, <2>2, FailedShape DEF Land
  <2>3. CASE ~conflict
    BY <1>1, <1>8, <2>1, <2>3, WentToCommit DEF JobShape
  <2> QED BY <2>2, <2>3
<1>9. ASSUME NEW pc \in Pcs, NEW new \in Rebases, GotoWith(w, pc, new),
             \/ pc \in {"landed", "clear", "next"} /\ job[w].pc \in {"commit", "landed", "clear", "adopt"}
             \/ pc = "keep" /\ job[w].pc = "failed"
      PROVE  JobShape(w)'
  <2>1. job'[w].pc = pc /\ job'[w].mode = job[w].mode /\ ~job'[w].ok
    BY <1>4, <1>9
  <2>2. job[w].mode \in {"start", "continue"} /\ (pc = "keep" => job[w].mode = "continue")
    BY <1>9 DEF JobShape
  <2>3. pc \in {"landed", "clear", "next", "keep"}
    BY <1>9
  <2> QED BY <2>1, <2>2, <2>3 DEF JobShape
<1>10. CASE Commit(w) \/ Adopt(w)
  <2>1. job[w].pc \in {"commit", "adopt"}
    BY <1>10 DEF Commit, Adopt, At
  <2>2. PICK c \in Commits : Failed(w, st) \/ GotoWith(w, "landed", [st EXCEPT !.expected = c])
    <3>1. Append(job[w].parent, {st.cursor}) \in Commits
      <4>0. job[w].parent \in Commits /\ st.cursor \in Nat
        BY <1>1 DEF RebaseJobs, Rebases
      <4>1. job[w].parent \in Seq(SUBSET Int) /\ {st.cursor} \in SUBSET Int
        BY <4>0 DEF Commits
      <4>2. Append(job[w].parent, {st.cursor}) \in Seq(SUBSET Int)
        BY <4>1
      <4> QED BY <4>2 DEF Commits
    <3> QED BY <1>2, <1>3, <1>10, <3>1 DEF Commit, Adopt
  <2>3. PICK new \in Rebases : new = [st EXCEPT !.expected = c]
    BY DEF Rebases
  <2> QED BY <1>1, <1>9, <2>1, <2>2, <2>3, FailedShape DEF Pcs
<1>11. CASE AfterLanded(w)
  <2>1. job[w].pc = "landed"
    BY <1>11 DEF AfterLanded, At
  <2>2. PICK all : all = Collapsed(st)
    OBVIOUS
  <2>3. \/ Failed(w, st) \/ GotoWith(w, "clear", [st EXCEPT !.expected = HeadCommit])
        \/ GotoWith(w, "clear", [st EXCEPT !.expected = all, !.group = NoCommit])
    BY <1>2, <1>11, <2>2 DEF AfterLanded
  <2>4. all \in Commits
    <3>1. \A i \in (Len(st.group) + 1)..Len(HeadCommit) : HeadCommit[i] \subseteq Int
      BY <1>3 DEF Commits
    <3>2. UNION {HeadCommit[i] : i \in (Len(st.group) + 1)..Len(HeadCommit)} \in SUBSET Int
      BY <3>1
    <3> QED BY <1>3, <2>2, <3>2 DEF Collapsed, Commits
  <2>5. /\ [st EXCEPT !.expected = HeadCommit] \in Rebases
        /\ [st EXCEPT !.expected = all, !.group = NoCommit] \in Rebases /\ "clear" \in Pcs
    BY <1>3, <2>4, Given DEF Rebases, Pcs
  <2>6. ASSUME NEW new \in Rebases, GotoWith(w, "clear", new) PROVE JobShape(w)'
    BY <1>9, <2>1, <2>5, <2>6
  <2> QED BY <1>1, <2>1, <2>3, <2>5, <2>6, FailedShape
<1>12. CASE ClearStep(w)
  <2>1. job[w].pc = "clear"
    BY <1>12 DEF ClearStep, At
  <2>2. PICK past \in Rebases : past = [st EXCEPT !.cursor = @ + 1]
    BY <1>3 DEF Rebases
  <2>3. Failed(w, st) \/ GotoWith(w, "next", past)
    BY <1>2, <1>12, <2>2 DEF ClearStep
  <2> QED BY <1>1, <1>9, <2>1, <2>3, FailedShape DEF Pcs
<1>13. CASE Finish(w) \/ Attach(w) \/ Clean(w) \/ Restore(w)
  <2>1. job[w].pc \in {"finish", "attach", "clean", "restore"}
    BY <1>13 DEF Finish, Attach, Clean, Restore, At
  <2>2. CASE Failed(w, st)
    BY <1>1, <2>1, <2>2, FailedShape
  <2>3. CASE Stop(w)
    BY <1>1, <2>3, EndedShape
  <2>4. ASSUME NEW pc \in {"attach", "clean", "forget"}, Goto(w, pc),
               pc = "forget" => job[w].mode # "roll back"
        PROVE  JobShape(w)'
    <3>1. job'[w].pc = pc /\ job'[w].mode = job[w].mode /\ ~job'[w].ok
      BY <1>5, <2>1, <2>4 DEF Pcs
    <3>2. job[w].mode \in {"start", "continue", "abort", "roll back"}
      BY <2>1 DEF JobShape
    <3> QED BY <2>4, <3>1, <3>2 DEF JobShape
  <2>5. \/ Failed(w, st) \/ Stop(w) \/ Goto(w, "attach") \/ Goto(w, "clean")
        \/ Goto(w, "forget") /\ job[w].mode # "roll back"
    BY <1>2, <1>13 DEF Finish, Attach, Clean, Restore
  <2> QED BY <2>2, <2>3, <2>4, <2>5
<1>14. CASE AbortRebase(w)
  <2>1. job[w].pc = "abort" /\ job[w].mode = "abort"
    BY <1>14 DEF AbortRebase, At, JobShape
  <2>2. CASE Stop(w)
    BY <1>1, <2>2, EndedShape
  <2>3. CASE Goto(w, "restore") \/ Goto(w, "forget")
    BY <1>5, <2>1, <2>3 DEF JobShape, Pcs
  <2> QED BY <1>14, <2>2, <2>3 DEF AbortRebase
<1>15. CASE ContinueFailed(w)
  <2>1. StopOf(st) \in {"error", "edit", "conflict"}
    BY DEF StopOf, Rebases
  <2>2. PICK new \in Rebases : new = [st EXCEPT !.stop = StopOf(st)]
    BY <2>1 DEF Rebases
  <2> QED BY <1>2, <1>9, <1>15, <2>2 DEF ContinueFailed, At, Pcs
<1>16. CASE Leave(w) \/ Save(w) \/ Forget(w)
  BY <1>1, <1>16, EndedShape DEF Leave, Save, Forget
<1> QED
  BY <1>6, <1>7, <1>8, <1>10, <1>11, <1>12, <1>13, <1>14, <1>15, <1>16 DEF Step

LEMMA ShapeHolds ==
  ASSUME RebaseTypeOK, Shaped, Next
  PROVE  Shaped'
<1>1. JobTypeOK
  BY DEF RebaseTypeOK
<1>2. ASSUME NEW w \in Workers, MayWork(w), Start(w) \/ Continue(w) \/ Abort(w) \/ Step(w)
      PROVE  Shaped'
  <2>1. JobShape(w)'
    <3>1. JobShape(w)
      BY DEF Shaped
    <3>2. CASE Start(w) \/ Abort(w)
      BY <1>1, <3>1, <3>2, Began DEF JobShape
    <3>3. CASE Continue(w)
      <4>1. Resume(Stored(w)) \in {"finish", "land", "next", "adopt"}
        BY <3>3 DEF Continue, Resume
      <4> QED BY <1>1, <3>1, <3>3, <4>1, Began DEF JobShape
    <3> QED BY <1>2, <3>1, <3>2, <3>3, StepShape
  <2>2. ASSUME NEW v \in Workers, v # w PROVE JobShape(v)'
    <3>1. job'[v] = job[v] /\ JobShape(v)
      BY <1>1, <1>2, <2>2, OthersStay DEF Shaped
    <3> QED BY <3>1 DEF JobShape
  <2> QED BY <2>1, <2>2 DEF Shaped
<1>3. ASSUME NEW w \in Workers, Crash(w) PROVE Shaped'
  <2>1. job'[w] = NoJob /\ \A v \in Workers : v # w => job'[v] = job[v]
    BY <1>1, <1>3 DEF Crash, JobTypeOK
  <2>2. JobShape(w)'
    BY <2>1, Given DEF JobShape
  <2>3. ASSUME NEW v \in Workers, v # w PROVE JobShape(v)'
    <3>1. job'[v] = job[v] /\ JobShape(v)
      BY <2>1, <2>3 DEF Shaped
    <3> QED BY <3>1 DEF JobShape
  <2> QED BY <2>2, <2>3 DEF Shaped
<1>4. ASSUME Terminal PROVE Shaped'
  <2>1. job' = job
    BY <1>4 DEF Terminal, Resolve, CommitByHand, SkipByHand, Diverge
  <2> QED BY <2>1 DEF Shaped, JobShape
<1> QED BY <1>2, <1>3, <1>4 DEF Next

-----------------------------------------------------------------------------
(* What a step of one worker does to all that *)

Ready(w) == RebaseInv /\ Shaped /\ faults \in Nat /\ Calm /\ CalmOK /\ MayWork(w)

LEMMA Known ==
  ASSUME NEW w \in Workers, Ready(w)
  PROVE  /\ RebaseTypeOK /\ GitTypeOK /\ JobTypeOK /\ StoreTypeOK /\ Right /\ JobRight(w)
         /\ JobShape(w) /\ PickOK(w) /\ GainOK(w)
         /\ plan \in Seq(Actions) /\ ValidPlan(plan) /\ DOMAIN plan = 1..Len(plan)
         /\ Len(plan) \in Nat
         /\ job[w] \in RebaseJobs /\ job[w].st \in Rebases /\ job[w].loaded \in Rebases
         /\ Stored(w) \in Rebases
<1>1. RebaseTypeOK /\ GitTypeOK /\ JobTypeOK /\ StoreTypeOK /\ Right
  BY DEF Ready, RebaseInv, RebaseTypeOK, Calm
<1>2. JobRight(w) /\ JobShape(w) /\ PickOK(w) /\ GainOK(w)
  BY <1>1 DEF Ready, Right, Shaped, CalmOK
<1>3. Stored(w) \in Rebases
  BY <1>1, StoredIs
<1>4. job[w].loaded \in Rebases
  BY <1>1 DEF JobTypeOK, RebaseJobs
<1> QED BY <1>1, <1>2, <1>3, <1>4, PlanGiven

(* A worker at work knows of the only copy in memory. *)
LEMMA CopyIs ==
  ASSUME NEW fb, NEW f, NEW w \in Workers, \A v \in Workers : v # w => fb[v] = NoRebase
  PROVE  CopyIn(fb, f) = IF fb[w] = NoRebase THEN f ELSE fb[w]
<1>1. CASE fb[w] = NoRebase
  BY <1>1 DEF CopyIn
<1>2. CASE fb[w] # NoRebase
  <2>1. (CHOOSE x \in Workers : fb[x] # NoRebase) = w
    BY <1>2
  <2> QED BY <1>2, <2>1 DEF CopyIn
<1> QED BY <1>1, <1>2

LEMMA CopyHere ==
  ASSUME NEW w \in Workers, Ready(w), job[w].pc # "idle"
  PROVE  /\ \A v \in Workers : v # w => fallback[v] = NoRebase
         /\ Stored(w) # NoRebase => Copy = Stored(w)
<1>1. \A v \in Workers : v # w => fallback[v] = NoRebase
  BY Given DEF Ready, CalmOK, OneCopy
<1>2. Copy = IF fallback[w] = NoRebase THEN file ELSE fallback[w]
  BY <1>1, CopyIs DEF Copy
<1> QED BY <1>1, <1>2 DEF Stored

(* The parts about HEAD and the copies, where a step leaves both alone. *)
Leaves(w) ==
  /\ UNCHANGED <<plan, head, at, branch, storeVars>> /\ pick' \in {pick, NoPick}
  /\ \A v \in Workers : v # w => job'[v] = job[v] /\ job[v].pc \in {"idle", "commit"}

LEMMA GroundStays ==
  ASSUME NEW w \in Workers, CalmOK, Leaves(w), job'[w].pc # "forget",
         job[w].pc \notin {"landed", "clear", "clean"},
         Stranding /\ Carrier(w) => Carrier(w)', Stranding /\ Mends(w) => Mends(w)' \/ pick' = NoPick
  PROVE  GroundOK'
<1>1. PickHeld'
  <2>1. \A v \in Workers : job[v].pc \notin {"landed", "clear"}
    BY DEF Leaves
  <2> QED BY <2>1 DEF CalmOK, GroundOK, PickHeld, Leaves
<1>2. Copy' = Copy /\ Readable' = Readable /\ (Stranding' <=> Stranding)
  BY DEF Copy, Readable, Stranding, Leaves, storeVars
<1>3. ASSUME NEW v \in Workers, Stranding
      PROVE  (Carrier(v) => Carrier(v)') /\ (Mends(v) => Mends(v)' \/ pick' = NoPick)
  <2> SUFFICES ASSUME v # w PROVE (Carrier(v) => Carrier(v)') /\ (Mends(v) => Mends(v)')
    BY <1>3
  <2>1. job'[v] = job[v] /\ at' = at
    BY DEF Leaves
  <2> QED BY <2>1 DEF Carrier, Mends, Gained
<1>4. PICK c : c = Copy
  OBVIOUS
<1>5. /\ Current(c) => Current(c)'
      /\ ~Stray(c) \/ pick' = NoPick => ~Stray(c)'
  <2>1. AtExpected(c)' <=> AtExpected(c)
    BY DEF AtExpected, Leaves
  <2>2. (OwnPick(c)' => OwnPick(c)) /\ (pick = NoPick => pick' = NoPick)
    BY DEF OwnPick, Leaves
  <2>3. ByHand(c) => ByHand(c)'
    BY DEF ByHand, Leaves
  <2>4. Owned(c) => Owned(c)'
    BY <2>1, <2>3 DEF Owned, OwnPick, Leaves
  <2> QED BY <2>1, <2>4 DEF Current, Stray, Leaves
<1>6. Carried' /\ Mended'
  BY <1>2, <1>3, <1>4, <1>5 DEF CalmOK, GroundOK, Carried, Mended
<1>7. \A v \in Workers : job'[v].pc # "forget"
  BY DEF Leaves
<1>8. Forgets'
  BY <1>7 DEF Forgets
<1>9. Leftover'
  <2>1. \A v \in Workers : job[v].pc # "clean"
    BY DEF Leaves
  <2>2. OnBranch' <=> OnBranch
    BY DEF OnBranch, Leaves
  <2>3. OnBranch /\ pick # NoPick => c = NoRebase \/ c.cursor = pick
    BY <1>4, <2>1 DEF CalmOK, GroundOK, Leftover
  <2>4. OnBranch' /\ pick' # NoPick => c = NoRebase \/ c.cursor = pick'
    BY <2>2, <2>3 DEF Leaves
  <2> QED BY <1>2, <1>4, <1>7, <2>4 DEF Leftover
<1> QED BY <1>1, <1>6, <1>8, <1>9 DEF GroundOK

OneOK(w) == PickOK(w) /\ GainOK(w) /\ GroundOK

LEMMA EndedOK ==
  ASSUME NEW w \in Workers, job'[w] = NoJob PROVE PickOK(w)' /\ GainOK(w)'
BY Given DEF PickOK, GainOK

(* A call that fails: what the job has got to goes on to be kept, rolled back or given up. *)
LEMMA FailedOK ==
  ASSUME NEW w \in Workers, Ready(w), Leaves(w), pick' = pick,
         job[w].pc \notin {"landed", "clear", "clean"}, job[w].mode # "roll back",
         NEW st \in Rebases, Failed(w, st),
         /\ st.cursor = job[w].st.cursor /\ st.expected = job[w].st.expected
         /\ st.group = job[w].st.group \/ job[w].pc = "next",
         job[w].mode = "continue" /\ AtExpected(st) => Own(st)
  PROVE  OneOK(w)'
<1>1. JobTypeOK /\ job[w] \in RebaseJobs /\ job[w].st \in Rebases /\ job[w].loaded \in Rebases
  BY Known
<1>2. \/ job[w].mode = "start" /\ job'[w].pc = "restore" /\ job'[w].mode = "roll back"
      \/ /\ job[w].mode = "continue" /\ job'[w].pc = "failed" /\ job'[w].mode = "continue"
         /\ job'[w].st = st /\ job'[w].loaded = job[w].loaded
      \/ job[w].mode \notin {"start", "continue"} /\ job'[w] = NoJob
  BY <1>1, WentWrong
<1>3. PickOK(w)' /\ GainOK(w)' /\ job'[w].pc # "forget"
  <2>1. CASE job'[w].pc = "restore" /\ job'[w].mode = "roll back"
    BY <2>1 DEF PickOK, GainOK
  <2>2. CASE /\ job[w].mode = "continue" /\ job'[w].pc = "failed" /\ job'[w].mode = "continue"
             /\ job'[w].st = st
    <3>1. AtExpected(st)' => Own(st)'
      BY <2>2 DEF AtExpected, Own, Leaves
    <3> QED BY <2>2, <3>1 DEF PickOK, GainOK
  <2>3. CASE job'[w] = NoJob
    BY <2>3, EndedOK, Given
  <2> QED BY <1>2, <2>1, <2>2, <2>3
<1>4. Carrier(w) => Carrier(w)'
  <2>1. CASE job[w].mode = "continue"
    <3>1. at' = at /\ job'[w].mode = "continue" /\ job'[w].st = st /\ job'[w].loaded = job[w].loaded
      BY <1>2, <2>1 DEF Leaves
    <3>2. Gained(job[w].st, job[w].loaded) => Gained(st, job[w].loaded)
      <4>1. CASE job[w].pc = "next"
        <5>1. GainOK(w)
          BY Known
        <5>2. job[w].st.cursor = job[w].loaded.cursor => job[w].st = job[w].loaded
          BY <2>1, <4>1, <5>1 DEF GainOK
        <5> QED BY <5>2 DEF Gained
      <4>2. CASE job[w].pc # "next"
        BY <4>2 DEF Gained
      <4> QED BY <4>1, <4>2
    <3> QED BY <2>1, <3>1, <3>2 DEF Carrier
  <2>2. CASE job[w].mode # "continue"
    BY <1>2, <2>2 DEF Carrier
  <2> QED BY <2>1, <2>2
<1>5. Mends(w) => Mends(w)'
  <2>1. CASE job[w].mode = "continue"
    <3>1. /\ at' = at /\ job'[w].mode = "continue" /\ job'[w].st = st /\ job'[w].pc = "failed"
          /\ job'[w].loaded = job[w].loaded
      BY <1>2, <2>1 DEF Leaves
    <3>2. job[w].pc # "next" => (Gained(job[w].st, job[w].loaded) => Gained(st, job[w].loaded))
      BY DEF Gained
    <3> QED BY <2>1, <3>1, <3>2 DEF Mends
  <2>2. CASE job[w].mode # "continue"
    BY <1>2, <2>2 DEF Mends
  <2> QED BY <2>1, <2>2
<1>6. GroundOK'
  <2>1. CalmOK
    BY DEF Ready
  <2> QED BY <1>3, <1>4, <1>5, <2>1, GroundStays
<1> QED BY <1>3, <1>6 DEF OneOK

LEMMA LeavesIs ==
  ASSUME NEW w \in Workers, Ready(w), Continue(w) \/ Abort(w) \/ Step(w),
         UNCHANGED <<plan, head, at, branch, storeVars>>, pick' \in {pick, NoPick}
  PROVE  Leaves(w)
<1>1. JobTypeOK /\ MayWork(w)
  BY Known DEF Ready
<1>2. \A v \in Workers : v # w => job'[v] = job[v] /\ job[v].pc \in {"idle", "commit"}
  BY <1>1, OthersStay
<1> QED BY <1>2 DEF Leaves

(* Where HEAD is detached after a step, and the job itself answers for it. *)
LEMMA GroundNew ==
  ASSUME NEW w \in Workers, Ready(w), Step(w), head' # "branch", job'[w].pc # "forget", PickHeld',
         Stranding' => Carrier(w)' \/ (Current(Copy) /\ Readable)',
         Stranding' => Mends(w)' \/ ~Stray(Copy)'
  PROVE  GroundOK'
<1>1. \A v \in Workers : job'[v].pc # "forget"
  <2>1. JobTypeOK /\ MayWork(w)
    BY Known DEF Ready
  <2> QED BY <2>1, OthersStay
<1>2. Forgets' /\ Leftover'
  BY <1>1 DEF Forgets, Leftover, OnBranch
<1>3. Carried' /\ Mended'
  BY DEF Carried, Mended
<1> QED BY <1>2, <1>3 DEF GroundOK

LEMMA StartOK ==
  ASSUME RebaseInv, Shaped, Calm => CalmOK, NEW w \in Workers, MayWork(w), Start(w), Calm'
  PROVE  CalmOK'
<1>1. RebaseTypeOK /\ JobTypeOK /\ JobShape(w) /\ job \in [Workers -> RebaseJobs]
  BY DEF RebaseInv, RebaseTypeOK, Shaped, JobTypeOK
<1>2. /\ job'[w].pc = "detach" /\ job'[w].mode = "start"
      /\ \A v \in Workers : v # w => job'[v] = job[v] /\ job[v].pc \in {"idle", "commit"}
  BY <1>1, Began, OthersStay
<1>3. /\ head = "branch" /\ pick = NoPick /\ head' = head /\ pick' = pick
      /\ UNCHANGED <<plan, gitVars, storeVars>>
  BY DEF Start, gitVars
<1>4. \A v \in Workers : v # w => fallback[v] = NoRebase
  BY DEF Start, Calm, Others
<1>5. \A v \in Workers : fallback'[v] = NoRebase
  BY <1>3, <1>4 DEF Start, Stored, storeVars
<1>6. OneCopy'
  BY <1>5 DEF OneCopy
<1>7. PickOK(w)' /\ GainOK(w)'
  BY <1>2, <1>3 DEF PickOK, GainOK
<1>8. ASSUME NEW v \in Workers, v # w PROVE PickOK(v)' /\ GainOK(v)'
  <2>1. PickOK(v)'
    BY <1>2, <1>8 DEF PickOK
  <2>2. CASE Calm
    <3>1. GainOK(v) /\ job'[v] = job[v] /\ job[v].pc \in {"idle", "commit"} /\ plan' = plan
      BY <1>2, <1>3, <1>8, <2>2 DEF CalmOK
    <3>2. \A n : StartsGroup(n)' <=> StartsGroup(n)
      BY <3>1 DEF StartsGroup, NextKept, Kept
    <3>3. GainOK(v)'
      BY <3>1, <3>2 DEF GainOK
    <3> QED BY <2>1, <3>3
  <2>3. CASE ~Calm
    <3>1. job[v] = NoJob
      BY <1>8, <2>3 DEF Start, Calm, Others
    <3>2. job'[v] = NoJob
      BY <1>2, <1>8, <3>1
    <3> QED BY <3>2, EndedOK
  <2> QED BY <2>2, <2>3
<1>9. GroundOK'
  BY <1>2, <1>3 DEF GroundOK, PickHeld, Carried, Mended, Forgets, Leftover, Stranding, OnBranch
<1> QED BY <1>3, <1>6, <1>7, <1>8, <1>9 DEF CalmOK

LEMMA CommandOK ==
  ASSUME NEW w \in Workers, Ready(w), Continue(w) \/ Abort(w)
  PROVE  OneOK(w)'
<1>1. JobTypeOK /\ JobShape(w) /\ Stored(w) \in Rebases
  BY Known
<1>2. Leaves(w) /\ pick' = pick
  <2>1. UNCHANGED <<plan, head, at, branch, storeVars, pick>>
    BY DEF Continue, Abort, gitVars
  <2> QED BY <2>1, LeavesIs
<1>3. job[w] = NoJob
  BY <1>1 DEF Continue, Abort, At, JobShape
<1>4. ~Carrier(w) /\ ~Mends(w)
  BY <1>3, Given DEF Carrier, Mends
<1>5. Stored(w)' = Stored(w) /\ Stored(w) # NoRebase
  BY <1>2 DEF Stored, Leaves, storeVars, Continue, Abort
<1>6. PICK st \in Rebases : st = Stored(w)
  BY <1>1
<1>7. CASE Abort(w)
  <2>1. job'[w].pc = "abort" /\ job'[w].mode = "abort" /\ job'[w].st = st
    BY <1>1, <1>6, <1>7, Began
  <2>2. PickOK(w)' /\ GainOK(w)'
    BY <1>5, <1>6, <2>1 DEF PickOK, GainOK
  <2>3. GroundOK'
    BY <1>2, <1>3, <1>4, <2>1, GroundStays, Given DEF Ready
  <2> QED BY <2>2, <2>3 DEF OneOK
<1>8. CASE Continue(w)
  <2>1. /\ job'[w].pc = Resume(st) /\ job'[w].mode = "continue" /\ job'[w].st = st
        /\ job'[w].loaded = st
    BY <1>1, <1>6, <1>8, Began
  <2>2. /\ Resume(st) \in {"finish", "land", "next", "adopt"}
        /\ Resume(st) # "land" => pick = NoPick
        /\ Resume(st) = "land" => pick = st.cursor
    BY <1>6, <1>8 DEF Continue, Resume, OwnPick, ByHand
  <2>3. PickOK(w)'
    BY <1>2, <2>1, <2>2 DEF PickOK
  <2>4. GainOK(w)'
    <3>1. st.cursor \in Nat
      BY DEF Rebases
    <3> QED BY <1>5, <1>6, <2>1, <2>2, <3>1 DEF GainOK
  <2>5. GroundOK'
    BY <1>2, <1>3, <1>4, <2>1, <2>2, GroundStays, Given DEF Ready
  <2> QED BY <2>3, <2>4, <2>5 DEF OneOK
<1> QED BY <1>7, <1>8

LEMMA DetachOK ==
  ASSUME NEW w \in Workers, Ready(w), Detach(w)
  PROVE  OneOK(w)'
<1>1. JobTypeOK /\ PickOK(w) /\ JobShape(w)
  BY Known
<1>2. head = "branch" /\ pick = NoPick /\ pick' = NoPick /\ job[w].mode = "start"
  BY <1>1 DEF Detach, At, PickOK, JobShape
<1>3. CASE Stop(w) /\ UNCHANGED <<head, at>>
  <2>1. job'[w] = NoJob /\ PickOK(w)' /\ GainOK(w)'
    BY <1>1, <1>3, Ended, EndedOK
  <2>2. \A v \in Workers : job'[v].pc # "forget"
    <3>1. \A v \in Workers : v # w => job'[v].pc \in {"idle", "commit"}
      BY <1>1, OthersStay DEF Ready, Step
    <3> QED BY <2>1, <3>1, Given
  <2>3. GroundOK'
    BY <1>2, <1>3, <2>2 DEF GroundOK, PickHeld, Carried, Mended, Forgets, Leftover, Stranding, OnBranch
  <2> QED BY <2>1, <2>3 DEF OneOK
<1>4. ASSUME NEW new \in Rebases, GotoWith(w, "next", new), head' = "detached" PROVE OneOK(w)'
  <2>1. job'[w].pc = "next" /\ job'[w].mode = "start"
    BY <1>1, <1>2, <1>4, Went DEF Pcs
  <2>2. PickOK(w)' /\ GainOK(w)'
    BY <1>2, <2>1 DEF PickOK, GainOK
  <2>3. PickHeld' /\ Carrier(w)' /\ ~Stray(Copy)'
    BY <1>2, <2>1 DEF PickHeld, Carrier, Stray
  <2>4. GroundOK'
    BY <1>4, <2>1, <2>3, GroundNew DEF Step
  <2> QED BY <2>2, <2>4 DEF OneOK
<1>5. PICK new \in Rebases :
        new = [cursor |-> 1, group |-> NoCommit, expected |-> Onto, stop |-> "error"]
  BY Given DEF Rebases
<1> QED BY <1>3, <1>4, <1>5 DEF Detach

(* The copy a Continue began with, where it has got no further, or an Abort was begun for. *)
LEMMA CopyBegun ==
  ASSUME NEW w \in Workers, Ready(w), job[w].pc # "idle", NEW st, st # NoRebase, st = Stored(w)
  PROVE  Copy = st /\ Readable
<1>1. Copy = st
  BY CopyHere
<1>2. Readable
  BY DEF Stored, Readable
<1> QED BY <1>1, <1>2

(* A step's changes are applied: its pick is there, in a job that goes on or stops. *)
LEMMA PicksOK ==
  ASSUME NEW w \in Workers, Ready(w), Step(w), job[w].pc = "next", RebaseInv', ~uncleared',
         UNCHANGED <<plan, head, at, branch, storeVars>>,
         NEW st \in Rebases, st = job[w].st, NEW new \in Rebases,
         new.cursor = st.cursor, new.expected = st.expected, new.group = GroupOf(st),
         pick' = st.cursor, st.cursor \in 1..Len(plan),
         job'[w].pc = "land" \/ (job'[w].pc = "keep" /\ new.stop # "error"),
         job'[w].st = new, job'[w].mode = job[w].mode, job'[w].loaded = job[w].loaded
  PROVE  OneOK(w)'
<1>1. /\ JobRight(w) /\ JobShape(w) /\ PickOK(w) /\ GainOK(w) /\ job[w].loaded \in Rebases
      /\ Len(plan) \in Nat
  BY Known
<1>2. /\ head = "detached" /\ at = st.expected /\ job[w].mode \in {"start", "continue"}
      /\ at' = at /\ head' = head /\ branch' = branch
  BY <1>1 DEF JobRight, JobShape, AtExpected
<1>3. PICK l \in Rebases : l = job[w].loaded
  BY <1>1
<1>4. job[w].mode = "continue" =>
        st.cursor >= l.cursor /\ (st.cursor = l.cursor => st = l /\ l = Stored(w) /\ l # NoRebase)
  BY <1>1, <1>3 DEF GainOK
<1>5. HeldOf(new)'
  <2>1. JobRight(w)'
    BY DEF RebaseInv, Right
  <2> QED BY <2>1 DEF JobRight, HeldOf
<1>6. PickOK(w)'
  BY <1>2 DEF PickOK, AtExpected, Own
<1>7. GainOK(w)'
  <2>1. st.cursor \in Nat /\ l.cursor \in Nat
    BY DEF Rebases
  <2>2. StartsGroup(st.cursor)' <=> StartsGroup(st.cursor)
    BY DEF StartsGroup, NextKept, Kept
  <2>3. job[w].mode = "continue" /\ st.cursor = l.cursor =>
          new.expected = l.expected /\ (new.group = l.group \/ StartsGroup(new.cursor)')
    BY <1>4, <2>2 DEF GroupOf
  <2> QED BY <1>2, <1>3, <1>4, <2>3 DEF GainOK
<1>8. PickHeld'
  <2>1. Held(plan', pick', new.group, at') /\ new.group \in Commits
    BY <1>2, <1>5 DEF HeldOf, Rebases
  <2> QED BY <2>1 DEF PickHeld
<1>9. Copy' = Copy /\ Readable' = Readable
  BY DEF Copy, Readable, storeVars
<1>10. /\ Stranding' => Carrier(w)' \/ (Current(Copy) /\ Readable)'
       /\ Stranding' => Mends(w)' \/ ~Stray(Copy)'
  <2>1. CASE job[w].mode = "start"
    BY <2>1 DEF Carrier, Mends
  <2>2. CASE job[w].mode = "continue" /\ st.cursor # l.cursor
    <3>1. Gained(new, l)
      BY <2>2 DEF Gained
    <3>2. new # l
      BY <2>2
    <3> QED BY <1>2, <1>3, <2>2, <3>1, <3>2 DEF Carrier, Mends
  <2>3. CASE job[w].mode = "continue" /\ st.cursor = l.cursor
    <3>1. Copy = st /\ Readable /\ st # NoRebase /\ st = l
      BY <1>4, <2>3, CopyBegun
    <3>2. Stranding' => Current(st)'
      BY <1>2, <3>1 DEF Current, Owned, AtExpected, OwnPick, Stranding
    <3>3. CASE l.stop = "error"
      <4>1. job'[w].pc = "keep" => new # l
        BY <3>3
      <4>2. Mends(w)'
        BY <1>2, <1>3, <2>3, <3>3, <4>1 DEF Mends
      <4> QED BY <1>9, <3>1, <3>2, <4>2
    <3>4. CASE l.stop # "error"
      <4>1. ~Stray(st)'
        BY <3>1, <3>4 DEF Stray
      <4> QED BY <1>9, <3>1, <3>2, <4>1
    <3> QED BY <3>3, <3>4
  <2> QED BY <1>2, <2>1, <2>2, <2>3
<1>11. GroundOK'
  BY <1>2, <1>8, <1>10, GroundNew
<1> QED BY <1>6, <1>7, <1>11 DEF OneOK

LEMMA AdvanceOK ==
  ASSUME NEW w \in Workers, Ready(w), Advance(w), RebaseInv', ~uncleared'
  PROVE  OneOK(w)'
<1>1. /\ JobTypeOK /\ GitTypeOK /\ JobRight(w) /\ JobShape(w) /\ PickOK(w) /\ GainOK(w)
      /\ job[w].st \in Rebases /\ job[w].loaded \in Rebases /\ Len(plan) \in Nat
  BY Known
<1>2. PICK st \in Rebases : st = job[w].st
  BY <1>1
<1>3. PICK l \in Rebases : l = job[w].loaded
  BY <1>1
<1>4. /\ job[w].pc = "next" /\ pick = NoPick /\ job[w].mode \in {"start", "continue"}
      /\ UNCHANGED <<plan, head, at, branch, storeVars>> /\ st.cursor \in Nat /\ l.cursor \in Nat
      /\ Step(w)
  BY <1>1 DEF Advance, At, PickOK, JobShape, Rebases, Step
<1>5. WholeOf(st) /\ st.cursor \in 1..(Len(plan) + 1)
  BY <1>1, <1>2, <1>4 DEF JobRight, WholeOf, Whole
<1>6. job[w].mode = "continue" => st.cursor >= l.cursor /\ (st.cursor = l.cursor => st = l)
  BY <1>1, <1>2, <1>3, <1>4 DEF GainOK
<1>7. PICK grouped \in Rebases : grouped = [st EXCEPT !.group = GroupOf(st)]
  <2>1. GroupOf(st) \in Commits
    BY <1>1, HeadIs DEF GroupOf, Rebases
  <2> QED BY <2>1 DEF Rebases
<1>8. /\ grouped.cursor = st.cursor /\ grouped.group = GroupOf(st)
      /\ grouped.expected = st.expected
  BY <1>7 DEF Rebases
<1>9. PICK past \in Rebases : past = [st EXCEPT !.cursor = @ + 1]
  <2>1. st.cursor + 1 \in Nat
    BY <1>4
  <2> QED BY <2>1 DEF Rebases
<1>10. past.cursor = st.cursor + 1 /\ past.expected = st.expected /\ past.group = st.group
  BY <1>9 DEF Rebases
<1>11. ASSUME UNCHANGED <<pick, conflict>> PROVE Leaves(w)
  BY <1>4, <1>11, LeavesIs
<1>12. CASE Goto(w, "finish") /\ UNCHANGED <<pick, conflict>>
  <2>1. /\ job'[w].pc = "finish" /\ job'[w].mode = job[w].mode /\ job'[w].st = st
        /\ job'[w].loaded = l
    BY <1>1, <1>2, <1>3, <1>12, WentTo DEF Pcs
  <2>2. PickOK(w)' /\ GainOK(w)'
    BY <1>4, <1>12, <2>1 DEF PickOK, GainOK
  <2>3. (Carrier(w) => Carrier(w)') /\ (Mends(w) => Mends(w)')
    BY <1>2, <1>3, <1>4, <2>1 DEF Carrier, Mends
  <2>4. GroundOK'
    BY <1>4, <1>11, <1>12, <2>1, <2>3, GroundStays DEF Ready
  <2> QED BY <2>2, <2>4 DEF OneOK
<1>13. CASE GotoWith(w, "next", past) /\ UNCHANGED <<pick, conflict>>
  <2>1. /\ job'[w].pc = "next" /\ job'[w].mode = job[w].mode /\ job'[w].st = past
        /\ job'[w].loaded = l
    BY <1>1, <1>3, <1>13, Went DEF Pcs
  <2>2. PickOK(w)'
    BY <1>4, <1>13, <2>1 DEF PickOK
  <2>3. job[w].mode = "continue" => past.cursor >= l.cursor /\ past.cursor # l.cursor
    BY <1>4, <1>6, <1>10
  <2>4. GainOK(w)'
    BY <1>4, <2>1, <2>3 DEF GainOK
  <2>5. Carrier(w) => Carrier(w)'
    <3>1. job[w].mode = "continue" => Gained(past, l)
      BY <2>3 DEF Gained
    <3> QED BY <1>2, <1>4, <1>10, <2>1, <3>1 DEF Carrier
  <2>6. Mends(w) => Mends(w)'
    BY <1>4, <2>1 DEF Mends
  <2>7. GroundOK'
    BY <1>4, <1>11, <1>13, <2>1, <2>5, <2>6, GroundStays DEF Ready
  <2> QED BY <2>2, <2>4, <2>7 DEF OneOK
<1>14. CASE Failed(w, grouped) /\ UNCHANGED <<pick, conflict>>
  <2>1. AtExpected(grouped) => Own(grouped)
    BY <1>4 DEF Own
  <2> QED BY <1>2, <1>4, <1>8, <1>11, <1>14, <2>1, FailedOK
<1>15. CASE st.cursor <= Len(plan) /\ pick' = st.cursor /\ GotoWith(w, "land", grouped)
  <2>1. /\ job'[w].pc = "land" /\ job'[w].mode = job[w].mode /\ job'[w].st = grouped
        /\ job'[w].loaded = job[w].loaded
    BY <1>1, <1>15, Went DEF Pcs
  <2>2. st.cursor \in 1..Len(plan)
    BY <1>1, <1>5, <1>15
  <2> QED BY <1>2, <1>4, <1>8, <1>15, <2>1, <2>2, PicksOK
<1>16. ASSUME NEW s \in {"conflict", "edit"}, st.cursor <= Len(plan), pick' = st.cursor,
              Paused(w, [grouped EXCEPT !.stop = s])
       PROVE  OneOK(w)'
  <2>1. PICK new \in Rebases : new = [grouped EXCEPT !.stop = s]
    BY DEF Rebases
  <2>2. /\ new.cursor = st.cursor /\ new.group = GroupOf(st) /\ new.expected = st.expected
        /\ new.stop # "error"
    BY <1>8, <2>1 DEF Rebases
  <2>3. /\ job'[w].pc = "keep" /\ job'[w].mode = job[w].mode /\ job'[w].st = new
        /\ job'[w].loaded = job[w].loaded
    BY <1>1, <1>16, <2>1, WentToKeep
  <2>4. st.cursor \in 1..Len(plan)
    BY <1>1, <1>5, <1>16
  <2> QED BY <1>2, <1>4, <1>16, <2>2, <2>3, <2>4, PicksOK
<1>17. \/ Goto(w, "finish") /\ UNCHANGED <<pick, conflict>>
       \/ GotoWith(w, "next", past) /\ UNCHANGED <<pick, conflict>>
       \/ Failed(w, grouped) /\ UNCHANGED <<pick, conflict>>
       \/ st.cursor <= Len(plan) /\ pick' = st.cursor /\ GotoWith(w, "land", grouped)
       \/ st.cursor <= Len(plan) /\ pick' = st.cursor /\ Paused(w, [grouped EXCEPT !.stop = "conflict"])
       \/ st.cursor <= Len(plan) /\ pick' = st.cursor /\ Paused(w, [grouped EXCEPT !.stop = "edit"])
  BY <1>2, <1>7, <1>9 DEF Advance
<1> QED BY <1>12, <1>13, <1>14, <1>15, <1>16, <1>17

LEMMA LandOK ==
  ASSUME NEW w \in Workers, Ready(w), Land(w)
  PROVE  OneOK(w)'
<1>1. /\ JobTypeOK /\ GitTypeOK /\ JobRight(w) /\ JobShape(w) /\ PickOK(w) /\ GainOK(w)
      /\ job[w].st \in Rebases
  BY Known
<1>2. PICK st \in Rebases : st = job[w].st
  BY <1>1
<1>3. /\ job[w].pc = "land" /\ pick = st.cursor /\ job[w].mode \in {"start", "continue"}
      /\ UNCHANGED <<plan, head, at, branch, storeVars, pick>>
  BY <1>1, <1>2 DEF Land, At, PickOK, JobShape, gitVars
<1>4. Leaves(w)
  BY <1>3, LeavesIs DEF Step
<1>5. CASE conflict
  <2>1. Failed(w, st) /\ Own(st)
    BY <1>2, <1>3, <1>5 DEF Land, Own
  <2> QED BY <1>2, <1>3, <1>4, <2>1, FailedOK
<1>6. CASE ~conflict
  <2>1. /\ job'[w].pc = "commit" /\ job'[w].mode = job[w].mode /\ job'[w].st = job[w].st
        /\ job'[w].loaded = job[w].loaded
    BY <1>1, <1>6, WentToCommit
  <2>2. PickOK(w)'
    BY <2>1 DEF PickOK
  <2>3. GainOK(w)'
    <3>1. StartsGroup(st.cursor)' <=> StartsGroup(st.cursor)
      BY <1>3 DEF StartsGroup, NextKept, Kept
    <3> QED BY <1>1, <1>2, <1>3, <2>1, <3>1 DEF GainOK
  <2>4. (Carrier(w) => Carrier(w)') /\ (Mends(w) => Mends(w)')
    BY <1>3, <2>1 DEF Carrier, Mends
  <2>5. GroundOK'
    BY <1>3, <1>4, <2>1, <2>4, GroundStays DEF Ready
  <2> QED BY <2>2, <2>3, <2>5 DEF OneOK
<1> QED BY <1>5, <1>6

(* A signer may come back to a pick of another window's: where HEAD is as its own job expects *)
(* it, that pick is the same step.                                                            *)
LEMMA CommitOwn ==
  ASSUME NEW w \in Workers, Ready(w), job[w].pc = "commit", NEW st \in Rebases, st = job[w].st,
         AtExpected(st)
  PROVE  Own(st)
<1>1. /\ GitTypeOK /\ JobRight(w) /\ plan \in Seq(Actions) /\ ValidPlan(plan)
      /\ DOMAIN plan = 1..Len(plan) /\ Len(plan) \in Nat
  BY Known
<1>2. Held(plan, st.cursor, st.group, at) /\ st.cursor \in 1..Len(plan) /\ head = "detached"
  BY <1>1 DEF JobRight, HeldOf, AtExpected
<1>3. SUFFICES ASSUME pick # NoPick PROVE pick = st.cursor
  BY DEF Own
<1>4. \A v \in Workers : job[v].pc \notin {"landed", "clear"}
  BY DEF Ready, MayWork, Others
<1>5. PICK g \in Commits : Held(plan, pick, g, at)
  BY <1>2, <1>3, <1>4 DEF Ready, CalmOK, GroundOK, PickHeld
<1>6. pick <= Len(plan)
  BY <1>1 DEF GitTypeOK, Foreign
<1>7. pick \in Kept(plan) /\ st.cursor \in Kept(plan)
  BY <1>2, <1>5, <1>6 DEF Held
<1> QED BY <1>1, <1>2, <1>5, <1>7, OneCursor

(* Where a step has landed, or was committed by hand. *)
LEMMA LandedOK ==
  ASSUME NEW w \in Workers, Ready(w), Step(w), job'[w].pc \in {"landed", "clear"},
         head' = "detached", Gained(job'[w].st, job'[w].loaded), at' = job'[w].st.expected,
         job'[w].mode \in {"start", "continue"}
  PROVE  GroundOK'
<1>1. PickHeld'
  BY DEF PickHeld
<1>2. Carrier(w)' /\ Mends(w)'
  BY DEF Carrier, Mends, Gained
<1> QED BY <1>1, <1>2, GroundNew

LEMMA CommitOK ==
  ASSUME NEW w \in Workers, Ready(w), Commit(w), RebaseInv', ~uncleared'
  PROVE  OneOK(w)'
<1>1. /\ JobTypeOK /\ GitTypeOK /\ JobRight(w) /\ JobShape(w) /\ GainOK(w)
      /\ job[w].st \in Rebases /\ job[w].loaded \in Rebases
  BY Known
<1>2. PICK st \in Rebases : st = job[w].st
  BY <1>1
<1>3. PICK l \in Rebases : l = job[w].loaded
  BY <1>1
<1>4. /\ job[w].pc = "commit" /\ job[w].mode \in {"start", "continue"}
      /\ job[w].parent = st.expected /\ UNCHANGED <<plan, pick, conflict, storeVars>>
      /\ st.cursor \in Nat /\ l.cursor \in Nat /\ st.expected \in Commits
  BY <1>1, <1>2 DEF Commit, At, JobShape, JobRight, Rebases
<1>5. job[w].mode = "continue" =>
        /\ st.cursor >= l.cursor
        /\ st.cursor = l.cursor =>
             st.expected = l.expected /\ (st.group = l.group \/ StartsGroup(st.cursor))
  BY <1>1, <1>2, <1>3, <1>4 DEF GainOK
<1>6. CASE Failed(w, st) /\ UNCHANGED <<head, at, branch, other>>
  <2>1. Leaves(w)
    BY <1>4, <1>6, LeavesIs DEF Step, Commit
  <2>2. AtExpected(st) => Own(st)
    BY <1>2, <1>4, CommitOwn
  <2> QED BY <1>2, <1>4, <1>6, <2>1, <2>2, FailedOK
<1>7. PICK new \in Commits : new = Append(st.expected, {st.cursor}) /\ Len(new) = Len(st.expected) + 1
  <2>1. st.expected \in Seq(SUBSET Int) /\ {st.cursor} \in SUBSET Int
    BY <1>4 DEF Commits
  <2>2. /\ Append(st.expected, {st.cursor}) \in Seq(SUBSET Int)
        /\ Len(Append(st.expected, {st.cursor})) = Len(st.expected) + 1
    BY <2>1
  <2> QED BY <2>2 DEF Commits
<1>8. PICK there \in Rebases : there = [st EXCEPT !.expected = new]
  BY DEF Rebases
<1>9. there.cursor = st.cursor /\ there.group = st.group /\ there.expected = new
  BY <1>8 DEF Rebases
<1>10. CASE Swaps(w) /\ MoveHead(new) /\ GotoWith(w, "landed", there)
  <2>1. /\ job'[w].pc = "landed" /\ job'[w].mode = job[w].mode /\ job'[w].st = there
        /\ job'[w].loaded = l
    BY <1>1, <1>3, <1>10, Went DEF Pcs
  <2>2. head' = "detached" /\ at' = new /\ head = "detached"
    <3>1. JobRight(w)'
      BY DEF RebaseInv, Right
    <3>2. AtExpected(there)'
      BY <2>1, <3>1 DEF JobRight, AtExpected
    <3> QED BY <1>9, <1>10, <3>2 DEF AtExpected, MoveHead
  <2>3. AtExpected(st)
    BY <1>1, <1>4, <1>10, <2>2, HeadIs DEF Swaps, AtExpected
  <2>4. pick = NoPick \/ pick = st.cursor
    BY <1>2, <1>4, <2>3, CommitOwn DEF Own
  <2>5. PickOK(w)'
    BY <1>4, <1>9, <2>1, <2>4 DEF PickOK, Own
  <2>6. Len(st.expected) \in Nat
    BY <1>4 DEF Commits
  <2>7. job[w].mode = "continue" /\ st.cursor = l.cursor =>
          Len(new) > Len(l.expected) /\ (there.group = l.group \/ StartsGroup(there.cursor)')
    <3>1. StartsGroup(st.cursor)' <=> StartsGroup(st.cursor)
      BY <1>4 DEF StartsGroup, NextKept, Kept
    <3> QED BY <1>5, <1>7, <1>9, <2>6, <3>1
  <2>8. GainOK(w)'
    BY <1>4, <1>5, <1>9, <2>1, <2>7 DEF GainOK
  <2>9. GroundOK'
    <3>1. PickHeld'
      BY <2>1 DEF PickHeld
    <3>2. job[w].mode = "continue" => Gained(there, l)
      <4>1. Len(l.expected) \in Nat
        BY DEF Rebases, Commits
      <4> QED BY <1>9, <2>6, <2>7, <4>1 DEF Gained
    <3>3. Carrier(w)' /\ Mends(w)'
      BY <1>4, <1>9, <2>1, <2>2, <3>2 DEF Carrier, Mends
    <3> QED BY <2>1, <2>2, <3>1, <3>3, GroundNew DEF Step
  <2> QED BY <2>5, <2>8, <2>9 DEF OneOK
<1> QED BY <1>2, <1>4, <1>6, <1>7, <1>8, <1>10 DEF Commit

LEMMA AdoptOK ==
  ASSUME NEW w \in Workers, Ready(w), Adopt(w)
  PROVE  OneOK(w)'
<1>1. /\ JobTypeOK /\ GitTypeOK /\ JobRight(w) /\ JobShape(w) /\ PickOK(w) /\ GainOK(w)
      /\ job[w].st \in Rebases /\ job[w].loaded \in Rebases
  BY Known
<1>2. PICK st \in Rebases : st = job[w].st
  BY <1>1
<1>3. /\ job[w].pc = "adopt" /\ job[w].mode = "continue" /\ pick = NoPick /\ head = "detached"
      /\ at = Append(st.expected, {st.cursor}) /\ job[w].loaded = st
      /\ UNCHANGED <<plan, head, at, branch, storeVars, pick>>
      /\ st.expected \in Commits /\ st.cursor \in Nat
  BY <1>1, <1>2 DEF Adopt, At, PickOK, JobShape, JobRight, GainOK, gitVars, Rebases
<1>4. Leaves(w)
  BY <1>3, LeavesIs DEF Step
<1>5. CASE Failed(w, st)
  BY <1>2, <1>3, <1>4, <1>5, FailedOK DEF Own
<1>6. PICK c \in Commits : c = HeadCommit /\ c = at
  BY <1>1, <1>3, HeadIs
<1>7. PICK there \in Rebases : there = [st EXCEPT !.expected = c]
  BY DEF Rebases
<1>8. there.cursor = st.cursor /\ there.group = st.group /\ there.expected = c
  BY <1>7 DEF Rebases
<1>9. Len(c) > Len(st.expected) /\ Len(c) # Len(st.expected)
  <2>1. st.expected \in Seq(SUBSET Int) /\ {st.cursor} \in SUBSET Int
    BY <1>3 DEF Commits
  <2>2. c = Append(st.expected, {st.cursor})
    BY <1>3, <1>6
  <2> QED BY <2>1, <2>2
<1>10. CASE GotoWith(w, "landed", there)
  <2>1. /\ job'[w].pc = "landed" /\ job'[w].mode = "continue" /\ job'[w].st = there
        /\ job'[w].loaded = st
    BY <1>1, <1>3, <1>10, Went DEF Pcs
  <2>2. PickOK(w)' /\ GainOK(w)'
    BY <1>3, <1>8, <1>9, <2>1 DEF PickOK, GainOK, Own
  <2>3. Gained(there, st)
    BY <1>8, <1>9 DEF Gained
  <2>4. GroundOK'
    BY <1>3, <1>6, <1>8, <2>1, <2>3, LandedOK DEF Step
  <2> QED BY <2>2, <2>4 DEF OneOK
<1> QED BY <1>2, <1>5, <1>6, <1>7, <1>10 DEF Adopt

LEMMA AfterOK ==
  ASSUME NEW w \in Workers, Ready(w), AfterLanded(w)
  PROVE  OneOK(w)'
<1>1. /\ JobTypeOK /\ GitTypeOK /\ JobRight(w) /\ JobShape(w) /\ PickOK(w) /\ GainOK(w)
      /\ job[w].st \in Rebases /\ job[w].loaded \in Rebases
      /\ plan \in Seq(Actions) /\ ValidPlan(plan)
  BY Known
<1>2. PICK st \in Rebases : st = job[w].st
  BY <1>1
<1>3. PICK l \in Rebases : l = job[w].loaded
  BY <1>1
<1>4. /\ job[w].pc = "landed" /\ job[w].mode \in {"start", "continue"} /\ Own(st)
      /\ head = "detached" /\ at = st.expected /\ Landed(plan, st.cursor, st.group, st.expected)
      /\ UNCHANGED <<plan, branch, pick, storeVars>> /\ st.cursor \in Nat /\ l.cursor \in Nat
  BY <1>1, <1>2, <1>3 DEF AfterLanded, At, PickOK, JobShape, JobRight, AtExpected, Rebases
<1>5. job[w].mode = "continue" =>
        /\ st.cursor >= l.cursor
        /\ st.cursor = l.cursor =>
             Len(st.expected) > Len(l.expected) /\ (st.group = l.group \/ StartsGroup(st.cursor))
  BY <1>1, <1>2, <1>3, <1>4 DEF GainOK
<1>6. job[w].mode = "continue" => Gained(st, l)
  <2>1. Len(st.expected) \in Nat /\ Len(l.expected) \in Nat
    BY DEF Rebases, Commits
  <2> QED BY <1>5, <2>1 DEF Gained
<1>7. PICK c \in Commits : c = HeadCommit /\ c = st.expected
  BY <1>1, <1>4, HeadIs
<1>8. /\ EndsGroup(st.cursor) <=> plan[st.cursor] = "squash" /\ ~Follows(plan, st.cursor)
      /\ EndsGroup(st.cursor) => ~StartsGroup(st.cursor)
  BY DEF EndsGroup, StartsGroup, NextKept, Follows
<1>9. EndsGroup(st.cursor) => st.group # NoCommit /\ Held(plan, st.cursor, st.group, st.expected)
  BY <1>1, <1>4, <1>8, LandedFolds
<1>10. ASSUME NEW there \in Rebases, there.cursor = st.cursor, GotoWith(w, "clear", there),
              head' = "detached", at' = there.expected, job[w].mode = "continue" => Gained(there, l)
       PROVE  OneOK(w)'
  <2>1. /\ job'[w].pc = "clear" /\ job'[w].mode = job[w].mode /\ job'[w].st = there
        /\ job'[w].loaded = l
    BY <1>1, <1>3, <1>10, Went DEF Pcs
  <2>2. PickOK(w)'
    BY <1>4, <1>10, <2>1 DEF PickOK, Own
  <2>3. GainOK(w)'
    BY <1>4, <1>5, <1>10, <2>1 DEF GainOK, Gained
  <2>4. PickHeld'
    BY <2>1 DEF PickHeld
  <2>5. Carrier(w)' /\ Mends(w)'
    BY <1>4, <1>10, <2>1 DEF Carrier, Mends, Gained
  <2>6. GroundOK'
    BY <1>10, <2>1, <2>4, <2>5, GroundNew DEF Step
  <2> QED BY <2>2, <2>3, <2>6 DEF OneOK
<1>11. CASE ~EndsGroup(st.cursor)
  <2>1. PICK there \in Rebases : there = [st EXCEPT !.expected = c]
    BY DEF Rebases
  <2>2. there.cursor = st.cursor /\ there.group = st.group /\ there.expected = c
    BY <2>1 DEF Rebases
  <2>3. GotoWith(w, "clear", there) /\ UNCHANGED <<head, at>>
    BY <1>2, <1>7, <1>11, <2>1 DEF AfterLanded
  <2>4. job[w].mode = "continue" => Gained(there, l)
    BY <1>6, <1>7, <2>2 DEF Gained
  <2> QED BY <1>4, <1>7, <1>10, <2>2, <2>3, <2>4
<1>12. CASE EndsGroup(st.cursor)
  <2>1. PICK all \in Commits : all = Collapsed(st)
    <3>1. Collapsed(st) = Gathered(st.group, st.expected)
      BY <1>7 DEF Collapsed, Gathered
    <3>2. Gathered(st.group, st.expected) \in Seq(Sets(plan))
      BY <1>1, <1>4, <1>8, <1>12, LandedFolds DEF Whole
    <3> QED BY <1>1, <3>1, <3>2, OfPlan
  <2>2. PICK there \in Rebases : there = [st EXCEPT !.expected = all, !.group = NoCommit]
    BY Given DEF Rebases
  <2>3. there.cursor = st.cursor /\ there.group = NoCommit /\ there.expected = all
    BY <2>2 DEF Rebases
  <2>4. CASE head' = "detached" /\ at' = all /\ GotoWith(w, "clear", there)
    <3>1. job[w].mode = "continue" => Gained(there, l)
      BY <1>5, <1>8, <1>9, <1>12, <2>3 DEF Gained
    <3> QED BY <1>10, <2>3, <2>4, <3>1
  <2>5. CASE Failed(w, st) /\ UNCHANGED <<head, at>>
    <3>1. \/ /\ job[w].mode = "start" /\ job'[w].pc = "restore" /\ job'[w].mode = "roll back"
          \/ /\ job[w].mode = "continue" /\ job'[w].pc = "failed" /\ job'[w].mode = "continue"
             /\ job'[w].st = st /\ job'[w].loaded = l
      BY <1>1, <1>3, <1>4, <2>5, WentWrong
    <3>2. PickOK(w)' /\ GainOK(w)'
      BY <1>4, <3>1 DEF PickOK, GainOK, Own
    <3>3. PickHeld'
      <4>1. Held(plan', st.cursor, st.group, at') /\ st.group \in Commits
        BY <1>4, <1>9, <1>12, <2>5 DEF Rebases
      <4> QED BY <1>4, <4>1 DEF PickHeld, Own
    <3>4. Carrier(w)' /\ Mends(w)'
      BY <1>4, <1>6, <2>5, <3>1 DEF Carrier, Mends, Gained
    <3>5. GroundOK'
      BY <1>4, <2>5, <3>1, <3>3, <3>4, GroundNew DEF Step
    <3> QED BY <3>2, <3>5 DEF OneOK
  <2> QED BY <1>2, <1>12, <2>1, <2>2, <2>4, <2>5 DEF AfterLanded
<1> QED BY <1>11, <1>12

LEMMA ClearOK ==
  ASSUME NEW w \in Workers, Ready(w), ClearStep(w), ~uncleared'
  PROVE  OneOK(w)'
<1>1. /\ JobTypeOK /\ JobRight(w) /\ JobShape(w) /\ GainOK(w)
      /\ job[w].st \in Rebases /\ job[w].loaded \in Rebases
  BY Known
<1>2. PICK st \in Rebases : st = job[w].st
  BY <1>1
<1>3. PICK l \in Rebases : l = job[w].loaded
  BY <1>1
<1>4. /\ job[w].pc = "clear" /\ job[w].mode \in {"start", "continue"}
      /\ head' = "detached" /\ at' = st.expected /\ st.cursor \in Nat /\ l.cursor \in Nat
  BY <1>1, <1>2, <1>3 DEF ClearStep, At, JobShape, JobRight, AtExpected, Rebases
<1>5. PICK past \in Rebases : past = [st EXCEPT !.cursor = @ + 1]
  <2>1. st.cursor + 1 \in Nat
    BY <1>4
  <2> QED BY <2>1 DEF Rebases
<1>6. past.cursor = st.cursor + 1 /\ past.group = st.group /\ past.expected = st.expected
  BY <1>5 DEF Rebases
<1>7. GotoWith(w, "next", past) /\ pick' = NoPick
  <2>1. faults' = faults
    BY DEF ClearStep
  <2>2. ~(faults = 0 /\ 0 < MaxFaults /\ faults' = MaxFaults)
    BY <2>1
  <2> QED BY <1>2, <1>5, <2>2 DEF ClearStep
<1>8. /\ job'[w].pc = "next" /\ job'[w].mode = job[w].mode /\ job'[w].st = past
      /\ job'[w].loaded = l
  BY <1>1, <1>3, <1>7, Went DEF Pcs
<1>9. job[w].mode = "continue" => past.cursor >= l.cursor /\ past.cursor # l.cursor
  <2>1. job[w].mode = "continue" => st.cursor >= l.cursor
    BY <1>1, <1>2, <1>3, <1>4 DEF GainOK
  <2> QED BY <1>4, <1>6, <2>1
<1>10. PickOK(w)' /\ GainOK(w)'
  BY <1>4, <1>7, <1>8, <1>9 DEF PickOK, GainOK
<1>11. PickHeld' /\ ~Stray(Copy)' /\ Carrier(w)'
  BY <1>4, <1>6, <1>7, <1>8, <1>9 DEF PickHeld, Stray, Carrier, Gained
<1>12. GroundOK'
  BY <1>4, <1>8, <1>11, GroundNew DEF Step
<1> QED BY <1>10, <1>12 DEF OneOK

LEMMA FinishOK ==
  ASSUME NEW w \in Workers, Ready(w), Finish(w)
  PROVE  OneOK(w)'
<1>1. /\ JobTypeOK /\ GitTypeOK /\ JobRight(w) /\ JobShape(w) /\ PickOK(w)
      /\ job[w].st \in Rebases /\ plan \in Seq(Actions)
  BY Known
<1>2. PICK st \in Rebases : st = job[w].st
  BY <1>1
<1>3. /\ job[w].pc = "finish" /\ job[w].mode \in {"start", "continue"} /\ pick = NoPick
      /\ head = "detached" /\ at = st.expected /\ WholeOf(st)
      /\ UNCHANGED <<plan, head, at, pick, storeVars>> /\ Step(w)
  BY <1>1, <1>2 DEF Finish, At, PickOK, JobShape, JobRight, AtExpected, Step
<1>4. CASE Failed(w, st) /\ UNCHANGED branch
  <2>1. Leaves(w)
    BY <1>3, <1>4, LeavesIs
  <2> QED BY <1>2, <1>3, <1>4, <2>1, FailedOK DEF Own
<1>5. CASE branch' = HeadCommit /\ Goto(w, "attach")
  <2>1. job'[w].pc = "attach" /\ job'[w].mode = job[w].mode
    BY <1>1, <1>5, WentTo DEF Pcs
  <2>2. PickOK(w)' /\ GainOK(w)'
    BY <1>3, <2>1 DEF PickOK, GainOK
  <2>3. ~Stranding'
    <3>1. HeadCommit = st.expected
      BY <1>1, <1>3, HeadIs
    <3>2. st.expected # OldTip
      BY <1>1, <1>3, OfPlan DEF WholeOf, Whole
    <3> QED BY <1>5, <3>1, <3>2 DEF Stranding
  <2>4. PickHeld'
    BY <1>3 DEF PickHeld
  <2>5. GroundOK'
    BY <1>3, <2>1, <2>3, <2>4, GroundNew
  <2> QED BY <2>2, <2>5 DEF OneOK
<1> QED BY <1>2, <1>4, <1>5 DEF Finish

(* The end of a rebase: HEAD goes back to the branch, what is left over is cleaned up. A roll *)
(* back that fails is excused.                                                                *)
LEMMA RollsBack ==
  ASSUME NEW w \in Workers, Ready(w), job[w].pc \in {"restore", "attach", "clean"},
         RollBackMayFail(w), ~excused', NEW st \in Rebases, Failed(w, st),
         job[w].pc = "clean" => faults' = faults + 1
  PROVE  job[w].mode # "roll back"
<1>1. job[w].pc = "clean" => faults' # faults
  <2>1. faults \in Nat
    BY DEF Ready
  <2> QED BY <2>1
<1> SUFFICES ASSUME job[w].mode = "roll back" PROVE FALSE
  OBVIOUS
<1>2. job'[w].pc = "idle"
  BY Known, WentWrong, Given
<1> QED BY <1>1, <1>2 DEF RollBackMayFail

LEMMA AttachOK ==
  ASSUME NEW w \in Workers, Ready(w), Attach(w), ~excused'
  PROVE  OneOK(w)'
<1>1. JobTypeOK /\ JobShape(w) /\ PickOK(w) /\ GainOK(w) /\ job[w].st \in Rebases
  BY Known
<1>2. PICK st \in Rebases : st = job[w].st
  BY <1>1
<1>3. /\ job[w].pc = "attach" /\ job[w].mode \in {"start", "continue", "abort", "roll back"}
      /\ job[w].mode \in {"start", "continue"} => pick = NoPick
      /\ job[w].mode = "abort" => Own(st) /\ Stored(w) = st /\ st # NoRebase
      /\ UNCHANGED <<plan, at, branch, pick, storeVars>> /\ RollBackMayFail(w) /\ Step(w)
  BY <1>1, <1>2 DEF Attach, At, JobShape, PickOK, GainOK, Step
<1>4. CASE Failed(w, st) /\ UNCHANGED head
  <2>1. Leaves(w)
    BY <1>3, <1>4, LeavesIs
  <2>2. job[w].mode # "roll back"
    BY <1>3, <1>4, RollsBack
  <2> QED BY <1>2, <1>3, <1>4, <2>1, <2>2, FailedOK DEF Own
<1>5. CASE head' = "branch" /\ Goto(w, "clean")
  <2>1. /\ job'[w].pc = "clean" /\ job'[w].mode = job[w].mode /\ job'[w].st = st
    BY <1>1, <1>2, <1>5, WentTo DEF Pcs
  <2>2. PickOK(w)'
    BY <1>3, <1>5, <2>1 DEF PickOK, Own
  <2>3. Stored(w)' = Stored(w)
    BY <1>3 DEF Stored, storeVars
  <2>4. GainOK(w)'
    BY <1>3, <2>1, <2>3 DEF GainOK
  <2>5. \A v \in Workers : job'[v].pc # "forget"
    BY <1>1, <1>3, <2>1, OthersStay DEF Ready
  <2>6. GroundOK'
    BY <1>5, <2>1, <2>5 DEF GroundOK, PickHeld, Carried, Mended, Forgets, Leftover, Stranding
  <2> QED BY <2>2, <2>4, <2>6 DEF OneOK
<1> QED BY <1>2, <1>4, <1>5 DEF Attach

LEMMA RestoreOK ==
  ASSUME NEW w \in Workers, Ready(w), Restore(w), ~excused'
  PROVE  OneOK(w)'
<1>1. JobTypeOK /\ JobShape(w) /\ PickOK(w) /\ GainOK(w) /\ job[w].st \in Rebases
  BY Known
<1>2. PICK st \in Rebases : st = job[w].st
  BY <1>1
<1>3. /\ job[w].pc = "restore" /\ job[w].mode \in {"abort", "roll back"}
      /\ job[w].mode = "abort" => Own(st) /\ Stored(w) = st /\ st # NoRebase
      /\ UNCHANGED <<plan, head, at, branch, pick, storeVars>> /\ RollBackMayFail(w) /\ Step(w)
  BY <1>1, <1>2 DEF Restore, At, JobShape, PickOK, GainOK, Step
<1>4. Leaves(w)
  BY <1>3, LeavesIs
<1>5. CASE Failed(w, st)
  <2>1. job[w].mode # "roll back"
    BY <1>3, <1>5, RollsBack
  <2> QED BY <1>2, <1>3, <1>4, <1>5, <2>1, FailedOK
<1>6. CASE Goto(w, "attach")
  <2>1. /\ job'[w].pc = "attach" /\ job'[w].mode = job[w].mode /\ job'[w].st = st
    BY <1>1, <1>2, <1>6, WentTo DEF Pcs
  <2>2. PickOK(w)'
    BY <1>3, <2>1 DEF PickOK, Own
  <2>3. Stored(w)' = Stored(w)
    BY <1>3 DEF Stored, storeVars
  <2>4. GainOK(w)'
    BY <1>3, <2>1, <2>3 DEF GainOK
  <2>5. (Carrier(w) => Carrier(w)') /\ (Mends(w) => Mends(w)')
    BY <1>3, <2>1 DEF Carrier, Mends
  <2>6. GroundOK'
    BY <1>3, <1>4, <2>1, <2>5, GroundStays DEF Ready
  <2> QED BY <2>2, <2>4, <2>6 DEF OneOK
<1> QED BY <1>2, <1>5, <1>6 DEF Restore

LEMMA CleanOK ==
  ASSUME NEW w \in Workers, Ready(w), Clean(w), ~excused'
  PROVE  OneOK(w)'
<1>1. JobTypeOK /\ JobShape(w) /\ PickOK(w) /\ GainOK(w) /\ job[w].st \in Rebases
  BY Known
<1>2. PICK st \in Rebases : st = job[w].st
  BY <1>1
<1>3. /\ job[w].pc = "clean" /\ job[w].mode \in {"start", "continue", "abort", "roll back"}
      /\ job[w].mode \in {"start", "continue"} => pick = NoPick
      /\ job[w].mode = "abort" => Own(st) /\ Stored(w) = st /\ st # NoRebase
      /\ head = "branch" /\ head' = head
      /\ UNCHANGED <<plan, at, branch, storeVars>> /\ RollBackMayFail(w) /\ Step(w)
  BY <1>1, <1>2 DEF Clean, At, JobShape, PickOK, GainOK, Step
<1>4. PickHeld' /\ Carried' /\ Mended' /\ Forgets'
  BY <1>3 DEF PickHeld, Carried, Mended, Forgets, Stranding
<1>5. CASE pick' = NoPick /\ (Stop(w) \/ Goto(w, "forget"))
  <2>1. job'[w] = NoJob \/ job'[w].pc = "forget"
    BY <1>1, <1>5, Ended, WentTo DEF Pcs
  <2>2. PickOK(w)' /\ GainOK(w)'
    BY <2>1, EndedOK DEF PickOK, GainOK
  <2>3. Leftover'
    BY <1>5 DEF Leftover
  <2> QED BY <1>4, <2>2, <2>3 DEF OneOK, GroundOK
<1>6. CASE pick' \in {pick, NoPick} /\ Failed(w, st) /\ faults' = faults + 1
  <2>1. job[w].mode # "roll back"
    BY <1>3, <1>6, RollsBack
  <2>2. \/ job'[w].pc = "restore" /\ job'[w].mode = "roll back"
        \/ job'[w].pc = "failed" /\ job'[w].mode = "continue"
        \/ job'[w] = NoJob
    BY <1>1, <1>6, WentWrong
  <2>3. PickOK(w)' /\ GainOK(w)' /\ job'[w].pc # "forget"
    <3>1. head' # "detached"
      BY <1>3
    <3>2. CASE job'[w] = NoJob
      BY <3>2, EndedOK, Given
    <3>3. CASE job'[w].pc = "restore" /\ job'[w].mode = "roll back"
      BY <3>3 DEF PickOK, GainOK
    <3>4. CASE job'[w].pc = "failed" /\ job'[w].mode = "continue"
      BY <3>1, <3>4 DEF PickOK, GainOK, AtExpected
    <3> QED BY <2>2, <3>2, <3>3, <3>4
  <2>4. \A v \in Workers : job'[v].pc # "forget"
    BY <1>1, <1>3, <2>3, OthersStay DEF Ready
  <2>5. pick' # NoPick => Copy' = NoRebase \/ Copy'.cursor = pick'
    <3> SUFFICES ASSUME pick' # NoPick PROVE Copy' = NoRebase \/ Copy'.cursor = pick'
      OBVIOUS
    <3>1. job[w].mode = "abort" /\ pick' = pick
      BY <1>3, <1>6, <2>1
    <3>2. Copy = st
      BY <1>3, <3>1, CopyBegun
    <3>3. Copy' = Copy
      BY <1>3 DEF Copy, storeVars
    <3> QED BY <1>3, <3>1, <3>2, <3>3 DEF Own
  <2>6. Leftover'
    BY <2>4, <2>5 DEF Leftover
  <2> QED BY <1>4, <2>3, <2>6 DEF OneOK, GroundOK
<1> QED BY <1>2, <1>5, <1>6 DEF Clean, Fails

(* A window that carries the rebase while another one's step is taken waits for its signer. *)
LEMMA CarrierWaits ==
  ASSUME NEW w \in Workers, Ready(w), NEW v \in Workers, v # w, Carrier(v)
  PROVE  Mends(v) /\ job[v].pc = "commit"
<1>1. job[v].pc \in {"idle", "commit"} /\ JobShape(v)
  BY DEF Ready, MayWork, Others, Shaped
<1>2. job[v].pc = "commit"
  BY <1>1, Given DEF JobShape, Carrier
<1> QED BY <1>2 DEF Carrier, Mends

LEMMA AbortOK ==
  ASSUME NEW w \in Workers, Ready(w), AbortRebase(w)
  PROVE  OneOK(w)'
<1>1. /\ JobTypeOK /\ JobShape(w) /\ GainOK(w) /\ job[w].st \in Rebases
  BY Known
<1>2. PICK st \in Rebases : st = job[w].st
  BY <1>1
<1>3. /\ job[w].pc = "abort" /\ job[w].mode = "abort" /\ Stored(w) = st /\ st # NoRebase
      /\ UNCHANGED <<plan, head, at, branch, storeVars>> /\ pick' \in {pick, NoPick} /\ Step(w)
  BY <1>1, <1>2 DEF AbortRebase, At, JobShape, GainOK, Step
<1>4. Leaves(w) /\ Copy = st /\ ~Carrier(w) /\ ~Mends(w)
  BY <1>3, LeavesIs, CopyBegun DEF Carrier, Mends
<1>5. CASE Owned(st) /\ Goto(w, "restore") /\ UNCHANGED pick
  <2>1. /\ job'[w].pc = "restore" /\ job'[w].mode = "abort" /\ job'[w].st = st
    BY <1>1, <1>2, <1>3, <1>5, WentTo DEF Pcs
  <2>2. PickOK(w)'
    BY <1>5, <2>1 DEF PickOK, Own, Owned, OwnPick
  <2>3. Stored(w)' = Stored(w)
    BY <1>3 DEF Stored, storeVars
  <2>4. GainOK(w)'
    BY <1>3, <2>1, <2>3 DEF GainOK
  <2>5. GroundOK'
    BY <1>3, <1>4, <2>1, GroundStays DEF Ready
  <2> QED BY <2>2, <2>4, <2>5 DEF OneOK
<1>6. CASE Stop(w)
  <2>1. job'[w] = NoJob
    BY <1>1, <1>6, Ended
  <2>2. GroundOK'
    BY <1>3, <1>4, <2>1, GroundStays, Given DEF Ready
  <2> QED BY <2>1, <2>2, EndedOK DEF OneOK
<1>7. CASE /\ ~Owned(st) /\ Goto(w, "forget")
           /\ ~AtExpected(st) /\ OwnPick(st) => pick' = NoPick
  <2>1. job'[w].pc = "forget" /\ job'[w].mode = "abort"
    BY <1>1, <1>3, <1>7, WentTo DEF Pcs
  <2>2. PickOK(w)' /\ GainOK(w)'
    BY <2>1 DEF PickOK, GainOK
  <2>3. GroundOK
    BY DEF Ready, CalmOK
  <2>4. \A v \in Workers : job[v].pc \notin {"landed", "clear", "clean", "forget"}
    BY <1>3, <1>4 DEF Leaves
  <2>5. PickHeld'
    BY <1>3, <2>3, <2>4 DEF GroundOK, PickHeld
  <2>6. Stranding => \E v \in Workers : v # w /\ Carrier(v) /\ Mends(v) /\ Carrier(v)' /\ Mends(v)'
    <3> SUFFICES ASSUME Stranding
                 PROVE  \E v \in Workers : v # w /\ Carrier(v) /\ Mends(v) /\ Carrier(v)' /\ Mends(v)'
      OBVIOUS
    <3>1. PICK v \in Workers : Carrier(v)
      BY <1>4, <1>7, <2>3 DEF GroundOK, Carried, Current
    <3>2. v # w /\ Mends(v)
      BY <1>4, <3>1, CarrierWaits
    <3>3. job'[v] = job[v] /\ at' = at
      BY <1>3, <1>4, <3>2 DEF Leaves
    <3>4. Carrier(v)' /\ Mends(v)'
      BY <3>1, <3>2, <3>3 DEF Carrier, Mends, Gained
    <3> QED BY <3>1, <3>2, <3>4
  <2>7. Stranding' <=> Stranding
    BY <1>3 DEF Stranding
  <2>8. Carried' /\ Mended'
    BY <2>6, <2>7 DEF Carried, Mended
  <2>9. Forgets'
    <3>1. \A x \in Workers : x # w => job'[x].pc # "forget"
      BY <1>4, <2>4 DEF Leaves
    <3> QED BY <2>6, <2>7, <3>1 DEF Forgets
  <2>10. Leftover'
    <3>1. Copy' = Copy /\ (OnBranch' <=> OnBranch)
      BY <1>3 DEF Copy, OnBranch, storeVars
    <3>2. OnBranch /\ pick # NoPick => st.cursor = pick
      BY <1>3, <1>4, <2>3, <2>4 DEF GroundOK, Leftover
    <3>3. OnBranch => pick' = NoPick
      BY <1>3, <1>7, <3>2 DEF OnBranch, AtExpected, OwnPick
    <3> QED BY <3>1, <3>3 DEF Leftover
  <2> QED BY <2>2, <2>5, <2>8, <2>9, <2>10 DEF OneOK, GroundOK
<1>8. \/ Owned(st) /\ Goto(w, "restore") /\ UNCHANGED pick
      \/ Stop(w)
      \/ /\ ~Owned(st) /\ Goto(w, "forget")
         /\ ~AtExpected(st) /\ OwnPick(st) => pick' = NoPick
  BY <1>2 DEF AbortRebase
<1> QED BY <1>5, <1>6, <1>7, <1>8

LEMMA FailedKeepOK ==
  ASSUME NEW w \in Workers, Ready(w), ContinueFailed(w)
  PROVE  OneOK(w)'
<1>1. /\ JobTypeOK /\ JobShape(w) /\ PickOK(w) /\ job[w].st \in Rebases
      /\ job[w].loaded \in Rebases
  BY Known
<1>2. PICK st \in Rebases : st = job[w].st
  BY <1>1
<1>3. PICK l \in Rebases : l = job[w].loaded
  BY <1>1
<1>4. /\ job[w].pc = "failed" /\ job[w].mode = "continue" /\ ~job[w].ok
      /\ AtExpected(st) => Own(st)
      /\ UNCHANGED <<plan, head, at, branch, pick, storeVars>> /\ Step(w)
  BY <1>1, <1>2 DEF ContinueFailed, At, JobShape, PickOK, gitVars, Step
<1>5. Leaves(w)
  BY <1>4, LeavesIs
<1>6. PICK new \in Rebases : new = [st EXCEPT !.stop = StopOf(st)]
  <2>1. StopOf(st) \in {"error", "edit", "conflict"}
    BY DEF StopOf, Rebases
  <2> QED BY <2>1 DEF Rebases
<1>7. /\ new.cursor = st.cursor /\ new.group = st.group /\ new.expected = st.expected
      /\ new.stop = StopOf(st)
  BY <1>6 DEF Rebases
<1>8. /\ job'[w].pc = "keep" /\ job'[w].mode = "continue" /\ job'[w].st = new
      /\ job'[w].loaded = l /\ ~job'[w].ok
  <2>1. GotoWith(w, "keep", new)
    BY <1>2, <1>6 DEF ContinueFailed
  <2> QED BY <1>1, <1>3, <1>4, <2>1, Went DEF Pcs
<1>9. OwnPick(st) => new.stop # "error"
  BY <1>7 DEF StopOf
<1>10. PickOK(w)'
  <2>1. AtExpected(new)' <=> AtExpected(st)
    BY <1>4, <1>7 DEF AtExpected
  <2>2. AtExpected(new)' /\ pick # NoPick => new.stop # "error"
    BY <1>4, <1>9, <2>1 DEF Own, OwnPick
  <2>3. AtExpected(new)' => Own(new)'
    BY <1>4, <1>7, <2>1 DEF Own
  <2> QED BY <1>4, <1>8, <2>2, <2>3 DEF PickOK
<1>11. GainOK(w)'
  BY <1>8 DEF GainOK
<1>12. Carrier(w) => Carrier(w)'
  BY <1>2, <1>3, <1>4, <1>7, <1>8 DEF Carrier, Gained
<1>13. Stranding /\ Mends(w) => Mends(w)' \/ pick' = NoPick
  <2> SUFFICES ASSUME Stranding, Mends(w), pick # NoPick PROVE Mends(w)'
    BY <1>4
  <2>1. at = st.expected /\ (Gained(st, l) \/ l.stop = "error")
    BY <1>2, <1>3, <1>4 DEF Mends
  <2>2. OwnPick(st)
    BY <1>4, <2>1 DEF Stranding, AtExpected, Own, OwnPick
  <2>3. Gained(st, l) => Gained(new, l)
    BY <1>7 DEF Gained
  <2>4. new # l
    <3>1. CASE Gained(st, l)
      BY <2>3, <3>1 DEF Gained
    <3>2. CASE l.stop = "error"
      BY <1>9, <2>2, <3>2
    <3> QED BY <2>1, <3>1, <3>2
  <2> QED BY <1>4, <1>7, <1>8, <2>1, <2>3, <2>4 DEF Mends
<1>14. GroundOK'
  BY <1>4, <1>5, <1>8, <1>12, <1>13, GroundStays DEF Ready
<1> QED BY <1>10, <1>11, <1>14 DEF OneOK

(* What a job has got to is kept, or is left as another one has saved it. *)
LEMMA LeaveOK ==
  ASSUME NEW w \in Workers, Ready(w), Leave(w)
  PROVE  OneOK(w)'
<1>1. GitTypeOK /\ JobTypeOK /\ job[w].st \in Rebases /\ job[w].loaded \in Rebases
  BY Known
<1>2. /\ job[w].pc = "keep" /\ LeavesFile(w) /\ Stop(w)
      /\ UNCHANGED <<plan, head, at, branch, pick, storeVars>> /\ Step(w)
  BY DEF Leave, At, gitVars, Step
<1>3. Leaves(w) /\ job'[w] = NoJob
  BY <1>1, <1>2, LeavesIs, Ended
<1>4. PICK st \in Rebases : st = job[w].st
  BY <1>1
<1>5. PICK l \in Rebases : l = job[w].loaded
  BY <1>1
<1>6. job[w].mode = "continue" /\ (st = l \/ (Stranding => at # st.expected))
  BY <1>1, <1>2, <1>4, <1>5, HeadIs DEF LeavesFile, Stranding
<1>7. Stranding => ~Carrier(w) /\ ~Mends(w)
  BY <1>2, <1>4, <1>5, <1>6 DEF Carrier, Mends, Gained
<1>8. GroundOK'
  BY <1>2, <1>3, <1>7, GroundStays, Given DEF Ready
<1> QED BY <1>3, <1>8, EndedOK DEF OneOK

LEMMA SaveOK ==
  ASSUME NEW w \in Workers, Ready(w), Save(w)
  PROVE  OneOK(w)'
<1>1. /\ GitTypeOK /\ JobTypeOK /\ StoreTypeOK /\ JobRight(w) /\ JobShape(w) /\ PickOK(w)
      /\ job[w].st \in Rebases /\ plan \in Seq(Actions)
  BY Known
<1>2. PICK st \in Rebases : st = job[w].st
  BY <1>1
<1>3. /\ job[w].pc = "keep" /\ ~LeavesFile(w) /\ Stop(w) /\ HeldOf(st)
      /\ UNCHANGED <<plan, head, at, branch, pick>> /\ Step(w)
  BY <1>1, <1>2 DEF Save, At, gitVars, Step, JobRight
<1>4. AtExpected(st) \/ HeadCommit = st.expected
  BY <1>1, <1>2, <1>3 DEF LeavesFile, JobShape, PickOK
<1>5. st.expected # OldTip /\ st.expected # NoCommit
  BY <1>1, <1>3, OfPlan DEF HeldOf, Held, Whole
<1>6. st # NoRebase
  BY <1>5, Given
<1>7. \A v \in Workers : v # w => fallback'[v] = NoRebase
  <2>1. \A v \in Workers : v # w => fallback[v] = NoRebase
    BY <1>3, CopyHere
  <2> QED BY <1>1, <2>1 DEF Save, StoreTypeOK
<1>8. Copy' = st /\ Readable'
  <2>1. Copy' = CopyIn(fallback', file')
    BY DEF Copy
  <2>2. CopyIn(fallback', file') = IF fallback'[w] = NoRebase THEN file' ELSE fallback'[w]
    BY <1>7, CopyIs
  <2>3. \/ fallback'[w] = NoRebase /\ file' = st /\ forgotten'[w] = NoRebase
        \/ fallback'[w] = st
    BY <1>1, <1>2 DEF Save, StoreTypeOK
  <2> QED BY <1>6, <2>1, <2>2, <2>3 DEF Readable
<1>9. Stranding => AtExpected(st)
  BY <1>1, <1>4, HeadIs DEF Stranding, AtExpected
<1>10. Carried'
  <2>1. Stranding' => Stranding
    BY <1>3 DEF Stranding
  <2>2. Stranding => Current(st)'
    BY <1>1, <1>2, <1>3, <1>6, <1>9 DEF PickOK, Own, Current, Owned, OwnPick, AtExpected, Stranding
  <2> QED BY <1>8, <2>1, <2>2 DEF Carried
<1>11. Mended'
  <2>1. ~Stray(st)'
    BY <1>1, <1>2, <1>3 DEF PickOK, Stray, AtExpected
  <2> QED BY <1>8, <2>1 DEF Mended
<1>12. /\ job'[w] = NoJob
       /\ \A v \in Workers : v # w => job'[v] = job[v] /\ job[v].pc \in {"idle", "commit"}
  BY <1>1, <1>3, Ended, OthersStay DEF Ready
<1>13. PickHeld'
  <2>1. \A v \in Workers : job[v].pc \notin {"landed", "clear"}
    BY <1>3, <1>12
  <2> QED BY <1>3, <2>1 DEF PickHeld, Ready, CalmOK, GroundOK
<1>14. \A v \in Workers : job'[v].pc # "forget"
  BY <1>12, Given
<1>15. ~OnBranch'
  BY <1>1, <1>3, <1>4, <1>5, HeadIs DEF OnBranch, AtExpected
<1>16. Forgets' /\ Leftover'
  BY <1>14, <1>15 DEF Forgets, Leftover
<1> QED BY <1>10, <1>11, <1>12, <1>13, <1>16, EndedOK DEF OneOK, GroundOK

LEMMA ForgetOK ==
  ASSUME NEW w \in Workers, Ready(w), Forget(w)
  PROVE  OneOK(w)'
<1>1. JobTypeOK /\ GroundOK
  BY Known DEF Ready, CalmOK
<1>2. /\ job[w].pc = "forget" /\ Stop(w) /\ UNCHANGED <<plan, head, at, branch, pick>> /\ Step(w)
  BY DEF Forget, At, gitVars, Step
<1>3. /\ job'[w] = NoJob
      /\ \A v \in Workers : v # w => job'[v] = job[v] /\ job[v].pc \in {"idle", "commit"}
  BY <1>1, <1>2, Ended, OthersStay DEF Ready
<1>4. PickHeld'
  <2>1. \A v \in Workers : job[v].pc \notin {"landed", "clear"}
    BY <1>2, <1>3
  <2> QED BY <1>1, <1>2, <2>1 DEF PickHeld, GroundOK
<1>5. Stranding => \E v \in Workers : Carrier(v)' /\ Mends(v)'
  <2> SUFFICES ASSUME Stranding PROVE \E v \in Workers : Carrier(v)' /\ Mends(v)'
    OBVIOUS
  <2>1. PICK v \in Workers : v # w /\ Carrier(v)
    BY <1>1, <1>2 DEF GroundOK, Forgets
  <2>2. Mends(v)
    BY <2>1, CarrierWaits
  <2>3. job'[v] = job[v] /\ at' = at
    BY <1>2, <1>3, <2>1
  <2>4. Carrier(v)' /\ Mends(v)'
    BY <2>1, <2>2, <2>3 DEF Carrier, Mends, Gained
  <2> QED BY <2>4
<1>6. Stranding' => Stranding
  BY <1>2 DEF Stranding
<1>7. Carried' /\ Mended'
  BY <1>5, <1>6 DEF Carried, Mended
<1>8. \A v \in Workers : job'[v].pc # "forget"
  BY <1>3, Given
<1>9. OnBranch' => pick' = NoPick
  BY <1>1, <1>2 DEF GroundOK, Leftover, OnBranch
<1>10. Forgets' /\ Leftover'
  BY <1>8, <1>9 DEF Forgets, Leftover
<1> QED BY <1>3, <1>4, <1>7, <1>10, EndedOK DEF OneOK, GroundOK

-----------------------------------------------------------------------------
(* Every step keeps it *)

LEMMA FaultsCount ==
  ASSUME faults \in Nat, Next PROVE faults' \in Nat
<1>1. faults' \in {faults, faults + 1, MaxFaults}
  <2>1. ASSUME NEW w \in Workers, Start(w) \/ Continue(w) \/ Abort(w) \/ Crash(w)
        PROVE  faults' = faults
    BY <2>1 DEF Start, Continue, Abort, Crash
  <2>2. ASSUME NEW w \in Workers, Step(w) PROVE faults' \in {faults, faults + 1, MaxFaults}
    BY <2>2 DEF Step, Detach, Advance, Land, Commit, Adopt, AfterLanded, ClearStep, Finish, Attach,
         Clean, Restore, AbortRebase, ContinueFailed, Leave, Save, Forget, Works, Fails
  <2>3. ASSUME Terminal PROVE faults' = faults
    BY <2>3 DEF Terminal, Resolve, CommitByHand, SkipByHand, Diverge
  <2> QED BY <2>1, <2>2, <2>3 DEF Next
<1>2. faults + 1 \in Nat
  OBVIOUS
<1> QED BY <1>1, <1>2, FaultsAssumption

LEMMA CalmBefore ==
  ASSUME RebaseTypeOK, NEW w \in Workers, Continue(w) \/ Abort(w) \/ Step(w), Calm'
  PROVE  Calm
<1>1. /\ excused \in BOOLEAN /\ uncleared \in BOOLEAN /\ ~excused' /\ ~uncleared'
  BY DEF RebaseTypeOK, Calm
<1>2. ~excused
  <2>1. \/ excused' = excused
        \/ excused' = (excused \/ \E v \in Others(w) : fallback[v] # NoRebase)
        \/ excused' = (excused \/ \E v \in Others(w) : job[v] # NoJob)
        \/ RollBackMayFail(w)
    BY DEF Continue, Abort, PassesOver, Step, Detach, Advance, Land, Commit, Adopt, AfterLanded,
         ClearStep, Finish, Attach, Clean, Restore, AbortRebase, ContinueFailed, Leave, Save,
         Forget, outside
  <2> QED BY <1>1, <2>1 DEF RollBackMayFail
<1>3. ~uncleared
  <2>1. uncleared' = uncleared \/ uncleared' = (uncleared \/ faults' # faults)
    BY DEF Continue, Abort, Step, Detach, Advance, Land, Commit, Adopt, AfterLanded,
         ClearStep, Finish, Attach, Clean, Restore, AbortRebase, ContinueFailed, Leave, Save,
         Forget, outside
  <2> QED BY <1>1, <2>1
<1> QED BY <1>2, <1>3 DEF Calm

(* The copies in memory change only where a job is at its end. *)
LEMMA OneCopyOK ==
  ASSUME NEW w \in Workers, Ready(w), Continue(w) \/ Abort(w) \/ Step(w), ~excused'
  PROVE  OneCopy'
<1>1. JobTypeOK /\ JobShape(w) /\ StoreTypeOK
  BY Known
<1>2. \A v \in Workers : v # w => job'[v] = job[v]
  BY <1>1, OthersStay DEF Ready
<1>3. \A v \in Workers : v # w => fallback[v] = NoRebase
  <2>1. CASE Continue(w) \/ Abort(w)
    BY <2>1 DEF Continue, Abort, PassesOver, Others
  <2>2. CASE Step(w)
    <3>1. job[w].pc # "idle"
      BY <2>2 DEF Step, Detach, Advance, Land, Commit, Adopt, AfterLanded, ClearStep, Finish, Attach,
           Clean, Restore, AbortRebase, ContinueFailed, Leave, Save, Forget, At
    <3> QED BY <3>1, CopyHere
  <2> QED BY <2>1, <2>2
<1>4. /\ \A v \in Workers : v # w => fallback'[v] = NoRebase
      /\ fallback'[w] # NoRebase => \A v \in Workers : v # w => job[v] = NoJob
  <2>1. CASE Save(w)
    <3>1. \A v \in Workers : v # w => fallback'[v] = fallback[v]
      BY <1>1, <2>1 DEF Save, StoreTypeOK
    <3>2. fallback'[w] # NoRebase => excused' = (excused \/ \E v \in Others(w) : job[v] # NoJob)
      BY <1>1, <2>1 DEF Save, StoreTypeOK
    <3> QED BY <1>3, <3>1, <3>2 DEF Others
  <2>2. CASE Forget(w)
    <3>1. fallback' = [fallback EXCEPT ![w] = NoRebase]
      BY <2>2 DEF Forget
    <3> QED BY <1>1, <1>3, <3>1 DEF StoreTypeOK
  <2>3. CASE Continue(w) \/ Abort(w) \/ (Step(w) /\ ~Save(w) /\ ~Forget(w))
    <3>1. fallback' = fallback
      BY <2>3 DEF Continue, Abort, Step, Detach, Advance, Land, Commit, Adopt, AfterLanded, ClearStep,
           Finish, Attach, Clean, Restore, AbortRebase, ContinueFailed, Leave, storeVars
    <3>2. fallback[w] # NoRebase => \A v \in Workers : v # w => job[v] = NoJob
      BY DEF Ready, CalmOK, OneCopy
    <3> QED BY <1>3, <3>1, <3>2
  <2> QED BY <2>1, <2>2, <2>3
<1> QED BY <1>2, <1>4 DEF OneCopy

LEMMA HeadStaysOn ==
  ASSUME NEW w \in Workers, Continue(w) \/ Abort(w) \/ Step(w), head # "other"
  PROVE  head' # "other" /\ plan' = plan
BY DEF Continue, Abort, Step, Detach, Advance, Land, Commit, Adopt, AfterLanded, ClearStep, Finish,
     Attach, Clean, Restore, AbortRebase, ContinueFailed, Leave, Save, Forget, gitVars, MoveHead

LEMMA WorkCalm ==
  ASSUME NEW w \in Workers, Ready(w), Continue(w) \/ Abort(w) \/ Step(w), RebaseInv', Calm'
  PROVE  CalmOK'
<1>1. ~excused' /\ ~uncleared'
  BY DEF Calm
<1>2. OneOK(w)'
  <2>1. CASE Detach(w) \/ Advance(w) \/ Land(w) \/ Commit(w) \/ Adopt(w) \/ AfterLanded(w)
             \/ ClearStep(w) \/ Finish(w)
    BY <1>1, <2>1, DetachOK, AdvanceOK, LandOK, CommitOK, AdoptOK, AfterOK, ClearOK, FinishOK
  <2>2. CASE Attach(w) \/ Clean(w) \/ Restore(w) \/ AbortRebase(w)
    BY <1>1, <2>2, AttachOK, CleanOK, RestoreOK, AbortOK
  <2>3. CASE ContinueFailed(w) \/ Leave(w) \/ Save(w) \/ Forget(w)
    BY <2>3, FailedKeepOK, LeaveOK, SaveOK, ForgetOK
  <2> QED BY <2>1, <2>2, <2>3, CommandOK DEF Step
<1>3. head' # "other" /\ plan' = plan
  BY HeadStaysOn DEF Ready, CalmOK
<1>4. OneCopy'
  BY <1>1, OneCopyOK
<1>5. ASSUME NEW v \in Workers, v # w PROVE PickOK(v)' /\ GainOK(v)'
  <2>1. JobTypeOK
    BY Known
  <2>2. job'[v] = job[v] /\ job[v].pc \in {"idle", "commit"} /\ GainOK(v)
    BY <1>5, <2>1, OthersStay DEF Ready, CalmOK
  <2>3. \A n : StartsGroup(n)' <=> StartsGroup(n)
    BY <1>3 DEF StartsGroup, NextKept, Kept
  <2>4. PickOK(v)'
    BY <2>2 DEF PickOK
  <2>5. GainOK(v)'
    BY <2>2, <2>3 DEF GainOK
  <2> QED BY <2>4, <2>5
<1> QED BY <1>2, <1>3, <1>4, <1>5 DEF CalmOK, OneOK

LEMMA CrashOK ==
  ASSUME RebaseTypeOK, Shaped, Calm => CalmOK, NEW w \in Workers, Crash(w), Calm'
  PROVE  CalmOK'
<1>1. JobTypeOK /\ StoreTypeOK /\ JobShape(w) /\ excused \in BOOLEAN
  BY DEF RebaseTypeOK, Shaped
<1>2. ~excused /\ job[w].pc = "idle" /\ fallback[w] = NoRebase /\ Calm
  BY <1>1 DEF Crash, Calm
<1>3. CalmOK
  BY <1>2
<1>4. job' = job /\ fallback' = fallback /\ UNCHANGED <<plan, head, at, branch, pick, file>>
  <2>1. job[w] = NoJob
    BY <1>1, <1>2 DEF JobShape
  <2> QED BY <1>1, <1>2, <2>1 DEF Crash, JobTypeOK, StoreTypeOK, gitVars
<1>5. /\ forgotten'[w] = NoRebase
      /\ \A v \in Workers : v # w => forgotten'[v] = forgotten[v]
  BY <1>1 DEF Crash, StoreTypeOK
<1>6. Copy' = Copy
  BY <1>4 DEF Copy
<1>7. Current(Copy) /\ Readable => Readable'
  <2> SUFFICES ASSUME Current(Copy), Readable, \A x \in Workers : fallback[x] = NoRebase
               PROVE  \E x \in Workers : forgotten'[x] # file
    BY <1>4 DEF Readable
  <2>1. file # NoRebase
    BY DEF Current, Copy, CopyIn
  <2>2. PICK x \in Workers : forgotten[x] # file
    BY DEF Readable
  <2> QED BY <1>5, <2>1, <2>2
<1>8. ASSUME NEW v \in Workers PROVE PickOK(v)' /\ GainOK(v)'
  <2>1. PickOK(v) /\ GainOK(v)
    BY <1>3 DEF CalmOK
  <2>2. PickOK(v)'
    BY <1>4, <2>1 DEF PickOK, Own, AtExpected
  <2>3. \A n : StartsGroup(n)' <=> StartsGroup(n)
    BY <1>4 DEF StartsGroup, NextKept, Kept
  <2>4. CASE v = w
    <3>1. job'[v] = NoJob
      BY <1>1, <1>2, <1>4, <2>4 DEF JobShape
    <3> QED BY <3>1, EndedOK
  <2>5. CASE v # w
    <3>1. Stored(v)' = Stored(v)
      BY <1>4, <1>5, <2>5 DEF Stored
    <3>2. job'[v] = job[v]
      BY <1>4
    <3> QED BY <2>1, <2>2, <2>3, <3>1, <3>2 DEF GainOK
  <2> QED BY <2>4, <2>5
<1>9. OneCopy' /\ head' # "other"
  BY <1>3, <1>4 DEF CalmOK, OneCopy
<1>10. GroundOK
  BY <1>3 DEF CalmOK
<1>11. PickHeld' /\ Forgets' /\ Leftover'
  BY <1>4, <1>6, <1>10 DEF GroundOK, PickHeld, Forgets, Leftover, Stranding, OnBranch, Carrier, Gained
<1>12. PICK c : c = Copy
  OBVIOUS
<1>13. (Current(c)' <=> Current(c)) /\ (Stray(c)' <=> Stray(c)) /\ (Stranding' <=> Stranding)
  BY <1>4 DEF Current, Stray, Stranding, Owned, OwnPick, AtExpected, ByHand
<1>14. \A v \in Workers : (Carrier(v)' <=> Carrier(v)) /\ (Mends(v)' <=> Mends(v))
  BY <1>4 DEF Carrier, Mends, Gained
<1>15. Carried' /\ Mended'
  BY <1>6, <1>7, <1>10, <1>12, <1>13, <1>14 DEF GroundOK, Carried, Mended
<1> QED BY <1>8, <1>9, <1>11, <1>15 DEF CalmOK, GroundOK

(* What the user does in an editor or a terminal. *)
LEMMA TerminalOK ==
  ASSUME RebaseInv, Shaped, Calm => CalmOK, Terminal, Calm'
  PROVE  CalmOK'
<1>1. RebaseTypeOK /\ GitTypeOK /\ JobTypeOK /\ excused \in BOOLEAN /\ UNCHANGED <<plan, job, storeVars>>
  BY DEF RebaseInv, RebaseTypeOK, Terminal, Resolve, CommitByHand, SkipByHand, Diverge
<1>2. Calm
  BY <1>1 DEF Terminal, Resolve, CommitByHand, SkipByHand, Diverge, Calm, outside
<1>3. CalmOK /\ Right /\ GroundOK
  BY <1>2 DEF Calm, RebaseInv, CalmOK
<1>4. Copy' = Copy /\ OneCopy' /\ Readable' = Readable
  BY <1>1, <1>3 DEF Copy, CalmOK, OneCopy, Readable, storeVars
<1>5. PICK c : c = Copy
  OBVIOUS
<1>6. \A v \in Workers : GainOK(v)'
  <2>1. \A n : StartsGroup(n)' <=> StartsGroup(n)
    BY <1>1 DEF StartsGroup, NextKept, Kept
  <2>2. \A v \in Workers : Stored(v)' = Stored(v) /\ job'[v] = job[v] /\ GainOK(v)
    BY <1>1, <1>3 DEF Stored, storeVars, CalmOK
  <2> QED BY <2>1, <2>2 DEF GainOK
<1>7. \A v \in Workers : job[v].pc \in {"idle", "commit"} /\ job'[v] = job[v]
  BY <1>1 DEF Terminal, Resolve, CommitByHand, SkipByHand, Diverge, Quiet
<1>8. \A v \in Workers : PickOK(v)'
  BY <1>7 DEF PickOK
<1>9. Forgets'
  BY <1>7 DEF Forgets
<1>10. CASE Resolve \/ SkipByHand
  <2>1. UNCHANGED <<head, at, branch>> /\ pick' \in {pick, NoPick}
    BY <1>10 DEF Resolve, SkipByHand
  <2>2. PickHeld'
    BY <1>1, <1>3, <1>7, <2>1 DEF GroundOK, PickHeld
  <2>3. \A v \in Workers : (Carrier(v) => Carrier(v)') /\ (Mends(v) => Mends(v)')
    BY <1>7, <2>1 DEF Carrier, Mends, Gained
  <2>4. (Current(c) => Current(c)') /\ (~Stray(c) => ~Stray(c)')
    <3>1. AtExpected(c)' <=> AtExpected(c)
      BY <2>1 DEF AtExpected
    <3>2. ByHand(c) => ByHand(c)'
      BY <1>1, <2>1 DEF ByHand
    <3>3. Owned(c) => Owned(c)'
      BY <2>1, <3>1, <3>2 DEF Owned, OwnPick
    <3> QED BY <2>1, <3>1, <3>3 DEF Current, Stray
  <2>5. Carried' /\ Mended'
    BY <1>3, <1>4, <1>5, <2>1, <2>3, <2>4 DEF GroundOK, Carried, Mended, Stranding
  <2>6. Leftover'
    BY <1>3, <1>4, <1>7, <2>1 DEF GroundOK, Leftover, OnBranch
  <2>7. head' # "other"
    BY <1>3, <2>1 DEF CalmOK
  <2> QED BY <1>4, <1>6, <1>8, <1>9, <2>2, <2>5, <2>6, <2>7 DEF CalmOK, GroundOK
<1>11. CASE CommitByHand
  <2>1. /\ head = "detached" /\ Idle /\ pick > 0 /\ pick' = NoPick /\ head' = head
        /\ at' = Append(at, {pick}) /\ branch' = branch
    BY <1>1, <1>11, HeadIs DEF CommitByHand, MoveHead, Calm
  <2>2. PickHeld' /\ Leftover' /\ Mended' /\ head' # "other"
    BY <2>1 DEF PickHeld, Leftover, OnBranch, Mended, Stray
  <2>3. \A v \in Workers : ~Carrier(v) /\ ~Mends(v)
    BY <2>1, Given DEF Idle, Shaped, JobShape, Carrier, Mends
  <2>4. Carried'
    <3> SUFFICES ASSUME Stranding' PROVE Current(c)' /\ Readable'
      BY <1>4, <1>5 DEF Carried
    <3>1. Current(c) /\ Readable /\ ~Stray(c)
      BY <1>3, <1>5, <2>1, <2>3 DEF GroundOK, Carried, Mended, Stranding
    <3>2. /\ pick # NoPick /\ pick = c.cursor /\ AtExpected(c) /\ branch = OldTip
          /\ c # NoRebase
      BY <2>1, <3>1 DEF Current, Owned, OwnPick, ByHand, NoPick
    <3>3. c.stop # "error"
      BY <3>1, <3>2 DEF Stray
    <3>4. HeldOf(c)
      <4>1. c = file \/ \E x \in Workers : c = fallback[x]
        BY <1>5 DEF Copy, CopyIn
      <4> QED BY <1>3, <3>2, <4>1 DEF Right, StoresOK
    <3>5. c.cursor \in DOMAIN plan /\ plan[c.cursor] # "drop"
      <4>1. c.cursor <= Len(plan)
        BY <1>1, <3>2 DEF GitTypeOK, Foreign
      <4> QED BY <3>4, <4>1 DEF HeldOf, Held, Kept
    <3>6. ByHand(c)'
      BY <1>1, <2>1, <3>2, <3>3, <3>5 DEF ByHand, AtExpected
    <3> QED BY <1>4, <2>1, <3>1, <3>2, <3>6 DEF Current, Owned
  <2> QED BY <1>4, <1>6, <1>8, <1>9, <2>2, <2>4 DEF CalmOK, GroundOK
<1>12. ~Diverge
  BY DEF Diverge, Calm
<1> QED BY <1>10, <1>11, <1>12 DEF Terminal

LEMMA StrandGoesOn ==
  ASSUME StrandInv, Next PROVE StrandInv'
<1>1. RebaseInv /\ RebaseInv' /\ Shaped /\ RebaseTypeOK /\ faults \in Nat /\ (Calm => CalmOK)
  BY RebaseHolds DEF StrandInv, RebaseInv
<1>2. Shaped' /\ faults' \in Nat
  BY <1>1, ShapeHolds, FaultsCount
<1>3. ASSUME Calm' PROVE CalmOK'
  <2>1. ASSUME NEW w \in Workers, MayWork(w), Start(w) PROVE CalmOK'
    BY <1>1, <1>3, <2>1, StartOK
  <2>2. ASSUME NEW w \in Workers, MayWork(w), Continue(w) \/ Abort(w) \/ Step(w) PROVE CalmOK'
    <3>1. Calm
      BY <1>1, <1>3, <2>2, CalmBefore
    <3>2. Ready(w)
      BY <1>1, <2>2, <3>1 DEF Ready
    <3> QED BY <1>1, <1>3, <2>2, <3>2, WorkCalm
  <2>3. ASSUME NEW w \in Workers, Crash(w) PROVE CalmOK'
    BY <1>1, <1>3, <2>3, CrashOK
  <2>4. ASSUME Terminal PROVE CalmOK'
    BY <1>1, <1>3, <2>4, TerminalOK
  <2> QED BY <2>1, <2>2, <2>3, <2>4 DEF Next
<1> QED BY <1>1, <1>2, <1>3 DEF StrandInv

LEMMA StrandRests ==
  ASSUME StrandInv, UNCHANGED vars PROVE StrandInv'
<1>1. RebaseInv' /\ (Calm => CalmOK)
  BY RebaseHolds DEF StrandInv
<1>2. /\ UNCHANGED <<plan, head, at, branch, pick, file, fallback, forgotten, job, faults>>
      /\ UNCHANGED <<excused, uncleared>>
  BY DEF vars, gitVars, storeVars, outside
<1>3. Shaped' /\ faults' \in Nat
  BY <1>2 DEF StrandInv, Shaped, JobShape
<1>4. ASSUME Calm' PROVE CalmOK'
  <2>1. CalmOK
    BY <1>1, <1>2, <1>4 DEF Calm
  <2>2. \A v \in Workers : PickOK(v)'
    BY <1>2, <2>1 DEF CalmOK, PickOK, Own, AtExpected
  <2>3. \A v \in Workers : GainOK(v)'
    <3>1. \A n : StartsGroup(n)' <=> StartsGroup(n)
      BY <1>2 DEF StartsGroup, NextKept, Kept
    <3>2. \A v \in Workers : Stored(v)' = Stored(v) /\ job'[v] = job[v] /\ GainOK(v)
      BY <1>2, <2>1 DEF Stored, CalmOK
    <3> QED BY <3>1, <3>2 DEF GainOK
  <2>4. Copy' = Copy /\ Readable' = Readable /\ OneCopy' /\ head' # "other"
    BY <1>2, <2>1 DEF Copy, Readable, CalmOK, OneCopy
  <2>5. PICK c : c = Copy
    OBVIOUS
  <2>6. (Current(c)' <=> Current(c)) /\ (Stray(c)' <=> Stray(c)) /\ (Stranding' <=> Stranding)
    BY <1>2 DEF Current, Stray, Stranding, Owned, OwnPick, AtExpected, ByHand
  <2>7. \A v \in Workers : (Carrier(v)' <=> Carrier(v)) /\ (Mends(v)' <=> Mends(v))
    BY <1>2 DEF Carrier, Mends, Gained
  <2>8. PickHeld' /\ Forgets' /\ Leftover'
    BY <1>2, <2>1, <2>4, <2>6, <2>7 DEF CalmOK, GroundOK, PickHeld, Forgets, Leftover, OnBranch
  <2>9. Carried' /\ Mended'
    BY <2>1, <2>4, <2>5, <2>6, <2>7 DEF CalmOK, GroundOK, Carried, Mended
  <2> QED BY <2>2, <2>3, <2>4, <2>8, <2>9 DEF CalmOK, GroundOK
<1> QED BY <1>1, <1>3, <1>4 DEF StrandInv

LEMMA StrandHolds == StrandInv /\ [Next]_vars => StrandInv'
BY StrandGoesOn, StrandRests

LEMMA StrandStarts == Init => StrandInv
<1> SUFFICES ASSUME Init PROVE StrandInv
  OBVIOUS
<1>1. RebaseInv
  BY RebaseStarts
<1>2. \A v \in Workers : job[v] = NoJob /\ fallback[v] = NoRebase
  BY DEF Init
<1>3. head = "branch" /\ pick = NoPick /\ faults = 0
  BY DEF Init
<1>4. Shaped
  BY <1>2, Given DEF Shaped, JobShape
<1>5. OneCopy
  BY <1>2 DEF OneCopy
<1>6. \A v \in Workers : PickOK(v) /\ GainOK(v)
  BY <1>2, Given DEF PickOK, GainOK
<1>7. GroundOK
  BY <1>3 DEF GroundOK, PickHeld, Carried, Mended, Forgets, Leftover, Stranding
<1> QED BY <1>1, <1>3, <1>4, <1>5, <1>6, <1>7 DEF StrandInv, CalmOK

(* What a paused rebase can be asked for, and that some window has the one HEAD is left in. *)
LEMMA StrandedByNone ==
  ASSUME StrandInv PROVE NotStranded
<1>1. RebaseTypeOK /\ GitTypeOK /\ StoreTypeOK /\ Shaped
  BY DEF StrandInv, RebaseInv, RebaseTypeOK
<1>2. ASSUME Idle, head = "detached", branch = OldTip, ~excused, ~uncleared
      PROVE  \E w \in Workers : Stored(w) # NoRebase
  <2>1. CalmOK
    BY <1>2 DEF StrandInv, Calm
  <2>2. \A v \in Workers : ~Carrier(v)
    BY <1>1, <1>2, Given DEF Idle, Shaped, JobShape, Carrier
  <2>3. Current(Copy) /\ Readable
    BY <1>2, <2>1, <2>2 DEF CalmOK, GroundOK, Carried, Stranding
  <2>4. CASE \A x \in Workers : fallback[x] = NoRebase
    <3>1. file # NoRebase
      BY <2>3, <2>4 DEF Current, Copy, CopyIn
    <3>2. PICK x \in Workers : forgotten[x] # file
      BY <2>3, <2>4 DEF Readable
    <3> QED BY <2>4, <3>1, <3>2 DEF Stored
  <2>5. CASE \E x \in Workers : fallback[x] # NoRebase
    BY <2>5 DEF Stored
  <2> QED BY <2>4, <2>5
<1>3. ASSUME NEW w \in Workers, Stored(w) # NoRebase, Health(Stored(w)) = "paused"
      PROVE  Resume(Stored(w)) # "refuse" /\ Owned(Stored(w))
  <2>1. PICK st \in Rebases : st = Stored(w)
    BY <1>1, StoredIs
  <2>2. /\ branch = OldTip /\ (pick = NoPick \/ OwnPick(st)) /\ (AtExpected(st) \/ ByHand(st))
    BY <1>3, <2>1 DEF Health
  <2>3. Owned(st)
    BY <2>2 DEF Owned
  <2>4. pick <= Len(plan) /\ DOMAIN plan = 1..Len(plan) /\ Len(plan) \in Nat /\ st.cursor \in Nat
    <3>1. Len(plan) \in Nat /\ DOMAIN plan = 1..Len(plan)
      BY <1>1, PlanIs
    <3> QED BY <1>1, <3>1 DEF GitTypeOK, Foreign, Rebases
  <2>5. CASE st.cursor > Len(plan)
    <3>1. ~(st.cursor \in DOMAIN plan) /\ ~(st.cursor <= Len(plan))
      BY <2>4, <2>5
    <3>2. AtExpected(st) /\ pick = NoPick
      BY <2>2, <2>4, <3>1 DEF ByHand, OwnPick
    <3> QED BY <2>1, <2>3, <2>5, <3>2 DEF Resume
  <2>6. CASE ~(st.cursor > Len(plan))
    <3>1. pick # NoPick => OwnPick(st) /\ AtExpected(st)
      BY <2>2 DEF ByHand
    <3>2. Resume(st) # "refuse"
      BY <2>2, <2>6, <3>1 DEF Resume
    <3> QED BY <2>1, <2>3, <3>2
  <2> QED BY <2>5, <2>6
<1> QED BY <1>2, <1>3 DEF NotStranded

(* Whose step it is that ends a job that keeps or forgets the rebase. *)
LEMMA EndsItself ==
  ASSUME StrandInv, Next, Calm', NEW w \in Workers, job[w].pc \in {"keep", "forget"},
         job'[w].pc = "idle"
  PROVE  /\ MayWork(w) /\ Step(w) /\ Calm
         /\ job[w].pc = "keep" => Leave(w) \/ Save(w)
         /\ job[w].pc = "forget" => Forget(w)
<1>1. RebaseTypeOK /\ JobTypeOK
  BY DEF StrandInv, RebaseInv, RebaseTypeOK
<1>2. ~Terminal
  <2>1. ASSUME Terminal PROVE job' = job
    BY <2>1 DEF Terminal, Resolve, CommitByHand, SkipByHand, Diverge
  <2> QED BY <2>1
<1>3. ASSUME NEW v \in Workers PROVE ~Crash(v)
  <2> SUFFICES ASSUME Crash(v) PROVE FALSE
    OBVIOUS
  <2>1. v = w
    BY <1>1 DEF Crash, JobTypeOK
  <2> QED BY <2>1 DEF Crash, Calm
<1>4. PICK v \in Workers : MayWork(v) /\ (Start(v) \/ Continue(v) \/ Abort(v) \/ Step(v))
  BY <1>2, <1>3 DEF Next
<1>5. v = w
  BY <1>1, <1>4, OthersStay
<1>6. ~Start(w) /\ ~Continue(w) /\ ~Abort(w)
  BY DEF Start, Continue, Abort, At
<1>7. Step(w)
  BY <1>4, <1>5, <1>6
<1>8. Calm
  BY <1>1, <1>7, CalmBefore
<1>9. Leave(w) \/ Save(w) \/ Forget(w)
  BY <1>7 DEF Step, Detach, Advance, Land, Commit, Adopt, AfterLanded, ClearStep, Finish, Attach,
       Clean, Restore, AbortRebase, ContinueFailed, Goto, GotoWith, At, JobTypeOK
<1> QED BY <1>4, <1>5, <1>7, <1>8, <1>9 DEF Leave, Save, Forget, At

LEMMA KeptIsCurrent ==
  ASSUME StrandInv, Next, Calm', NEW w \in Workers, job[w].pc = "keep", job'[w].pc = "idle",
         file' # file \/ fallback'[w] # fallback[w]
  PROVE  /\ Stored(w)' # NoRebase /\ Stored(w)' = job[w].st
         /\ job[w].st.expected = HeadCommit
<1>1. MayWork(w) /\ Calm /\ Save(w)
  BY EndsItself DEF Leave, storeVars
<1>2. Ready(w)
  BY <1>1 DEF StrandInv, Ready
<1>3. /\ GitTypeOK /\ StoreTypeOK /\ JobRight(w) /\ JobShape(w) /\ PickOK(w)
      /\ job[w].st \in Rebases /\ plan \in Seq(Actions)
  BY <1>2, Known
<1>4. PICK st \in Rebases : st = job[w].st
  BY <1>3
<1>5. ~LeavesFile(w) /\ HeldOf(st)
  BY <1>1, <1>3, <1>4 DEF Save, JobRight
<1>6. st.expected = HeadCommit
  BY <1>3, <1>4, <1>5, HeadIs DEF LeavesFile, JobShape, PickOK, AtExpected
<1>7. st # NoRebase
  <2>1. st.expected # NoCommit
    BY <1>3, <1>5, OfPlan DEF HeldOf, Held, Whole
  <2> QED BY <2>1, Given
<1>8. \/ fallback'[w] = NoRebase /\ file' = st /\ forgotten'[w] = NoRebase
      \/ fallback'[w] = st
  BY <1>1, <1>3, <1>4 DEF Save, StoreTypeOK
<1>9. Stored(w)' = st
  BY <1>7, <1>8 DEF Stored
<1> QED BY <1>4, <1>6, <1>7, <1>9

LEMMA AbortGivesBack ==
  ASSUME StrandInv, Next, Calm', NEW w \in Workers, job[w].pc = "forget", Idle', branch = OldTip
  PROVE  head = "branch" /\ pick = NoPick
<1>1. MayWork(w) /\ Calm /\ Step(w)
  BY EndsItself DEF Idle
<1>2. CalmOK /\ RebaseTypeOK /\ JobTypeOK /\ GitTypeOK /\ Shaped
  BY <1>1 DEF StrandInv, RebaseInv, RebaseTypeOK
<1>3. ASSUME NEW v \in Workers, v # w PROVE ~Carrier(v)
  <2>1. job'[v] = job[v]
    BY <1>1, <1>2, <1>3, OthersStay
  <2>2. job[v] = NoJob
    BY <1>2, <2>1 DEF Idle, Shaped, JobShape
  <2> QED BY <2>2, Given DEF Carrier
<1>4. ~Stranding
  BY <1>2, <1>3 DEF CalmOK, GroundOK, Forgets
<1>5. head = "branch"
  BY <1>2, <1>4 DEF CalmOK, GitTypeOK, Stranding
<1>6. pick = NoPick
  BY <1>2, <1>5 DEF CalmOK, GroundOK, Leftover, OnBranch
<1> QED BY <1>5, <1>6

(* A rebase is never out of reach: for any number of windows, every plan, and whatever fails,  *)
(* a HEAD that is detached between jobs belongs to a rebase some window has, and one reported  *)
(* as paused is refused by neither Continue nor Abort (RebaseSlot::persist, forget,            *)
(* rebase_health, resume_kind, abort_rebase).                                                  *)
THEOREM NoRebaseIsStranded == Spec => []NotStranded
<1>1. StrandInv => NotStranded
  BY StrandedByNone
<1>2. Init /\ [][Next]_vars => []StrandInv
  BY StrandStarts, StrandHolds, PTL
<1> QED BY <1>1, <1>2, PTL DEF Spec

(* A window keeps only a copy of the rebase that agrees with HEAD (continue_rebase, lost_head, *)
(* RebaseSlot::persist).                                                                       *)
THEOREM KeptCopyIsCurrent == Spec => StoredIsCurrent
<1> DEFINE KeepsCurrent ==
      \A w \in Workers :
        /\ job[w].pc = "keep" /\ job'[w].pc = "idle" /\ ~excused' /\ ~uncleared'
        /\ file' # file \/ fallback'[w] # fallback[w]
        => LET st == Stored(w)'
           IN st # NoRebase /\ (st.expected = HeadCommit \/ ByHand(st))
<1>1. StrandInv /\ [Next]_vars => [KeepsCurrent]_vars
  <2> SUFFICES ASSUME StrandInv, Next PROVE KeepsCurrent
    OBVIOUS
  <2> SUFFICES ASSUME NEW w \in Workers,
                      job[w].pc = "keep", job'[w].pc = "idle", ~excused', ~uncleared',
                      file' # file \/ fallback'[w] # fallback[w]
               PROVE  LET st == Stored(w)'
                      IN st # NoRebase /\ (st.expected = HeadCommit \/ ByHand(st))
    OBVIOUS
  <2>1. Calm'
    BY DEF Calm
  <2> QED BY <2>1, KeptIsCurrent
<1>2. Init /\ [][Next]_vars => []StrandInv
  BY StrandStarts, StrandHolds, PTL
<1> HIDE DEF KeepsCurrent
<1>3. Init /\ [][Next]_vars => [][KeepsCurrent]_vars
  BY <1>1, <1>2, PTL
<1> USE DEF KeepsCurrent
<1> QED BY <1>3 DEF Spec, StoredIsCurrent

(* An Abort that succeeds leaves HEAD on the branch and nothing paused (abort_rebase,          *)
(* restore_original_branch, worker abort).                                                     *)
THEOREM AbortComesBack == Spec => AbortReturns
<1> DEFINE ComesBack ==
      \A w \in Workers :
        /\ job[w].pc = "forget" /\ job[w].mode = "abort" /\ Idle'
        /\ ~excused' /\ ~uncleared' /\ branch = OldTip
        => head = "branch" /\ pick = NoPick
<1>1. StrandInv /\ [Next]_vars => [ComesBack]_vars
  <2> SUFFICES ASSUME StrandInv, Next, NEW w \in Workers,
                      job[w].pc = "forget", Idle', ~excused', ~uncleared', branch = OldTip
               PROVE  head = "branch" /\ pick = NoPick
    OBVIOUS
  <2>1. Calm'
    BY DEF Calm
  <2> QED BY <2>1, AbortGivesBack
<1>2. Init /\ [][Next]_vars => []StrandInv
  BY StrandStarts, StrandHolds, PTL
<1> QED BY <1>1, <1>2, PTL DEF Spec, AbortReturns
=============================================================================
