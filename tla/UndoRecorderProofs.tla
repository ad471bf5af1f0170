------------------------- MODULE UndoRecorderProofs -------------------------
(***************************************************************************)
(* What is proved of UndoRecorder, for every set of workers, commands,     *)
(* parts and limits.                                                       *)
(***************************************************************************)
EXTENDS UndoRecorderProps, SequenceTheorems, TLAPS

-----------------------------------------------------------------------------
(* Sequences: what draining, pushing and popping an entry returns.         *)

(* Draining a stack keeps at most UndoLimit entries, the newest among them. *)
LEMMA NewestProperties ==
  ASSUME NEW S, NEW s \in Seq(S)
  PROVE  /\ Newest(s) \in Seq(S)
         /\ Len(Newest(s)) <= UndoLimit
         /\ s # <<>> => Newest(s) # <<>> /\ Last(Newest(s)) = Last(s)
<1>0. UndoLimit \in Nat \ {0}
  BY BoundsAssumption DEF BoundsAssumption
<1>1. Len(s) \in Nat
  OBVIOUS
<1>2. CASE Len(s) <= UndoLimit
  BY <1>0, <1>1, <1>2 DEF Newest
<1>3. CASE Len(s) > UndoLimit
  <2> DEFINE m == Len(s) - UndoLimit + 1
             t == SubSeq(s, m, Len(s))
  <2>1. m \in Int /\ m \in 1..Len(s)
    BY <1>0, <1>1, <1>3
  <2>2. \A i \in m..Len(s) : s[i] \in S
    BY <2>1, ElementOfSeq
  <2>3. /\ t \in Seq(S)
        /\ Len(t) = UndoLimit
        /\ \A i \in 1..UndoLimit : t[i] = s[m + i - 1]
    <3>1. /\ t \in Seq(S)
          /\ Len(t) = IF m <= Len(s) THEN Len(s) - m + 1 ELSE 0
          /\ \A i \in 1..(Len(s) - m + 1) : t[i] = s[m + i - 1]
      BY <1>1, <2>1, <2>2, SubSeqProperties
    <3>2. Len(s) - m + 1 = UndoLimit /\ m <= Len(s)
      BY <1>0, <1>1, <2>1
    <3> QED
      BY <3>1, <3>2
  <2>4. t[UndoLimit] = s[Len(s)]
    <3>1. UndoLimit \in 1..UndoLimit /\ m + UndoLimit - 1 = Len(s)
      BY <1>0, <1>1
    <3>2. t[UndoLimit] = s[m + UndoLimit - 1]
      BY <2>3, <3>1
    <3> QED
      BY <3>1, <3>2
  <2>5. Newest(s) = t
    BY <1>3 DEF Newest
  <2>6. t # <<>>
    <3>1. Len(<<>>) = 0
      BY EmptySeq
    <3> QED
      BY <1>0, <2>3, <3>1
  <2> QED
    BY <1>0, <2>3, <2>4, <2>5, <2>6 DEF Last
<1> QED
  BY <1>0, <1>1, <1>2, <1>3

(* The top of a stack and what is left without it. *)
LEMMA PopProperties ==
  ASSUME NEW S, NEW s \in Seq(S), s # <<>>
  PROVE  /\ Last(s) \in S
         /\ Front(s) \in Seq(S)
         /\ Len(Front(s)) = Len(s) - 1
         /\ Len(s) \in Nat \ {0}
<1>1. Len(s) \in Nat \ {0}
  BY EmptySeq
<1>2. \A i \in 1..(Len(s) - 1) : s[i] \in S
  BY <1>1, ElementOfSeq
<1>3. /\ Front(s) \in Seq(S)
      /\ Len(Front(s)) = IF 1 <= Len(s) - 1 THEN Len(s) - 1 - 1 + 1 ELSE 0
  BY <1>1, <1>2, SubSeqProperties DEF Front
<1>4. Len(s) \in 1..Len(s)
  BY <1>1
<1>5. s[Len(s)] \in S
  BY <1>4, ElementOfSeq
<1> QED
  BY <1>1, <1>3, <1>5 DEF Last

(* Pushing an entry: the stack is drained to its limit, the entry on top. *)
LEMMA PushProperties ==
  ASSUME NEW S, NEW s \in Seq(S), NEW e \in S
  PROVE  /\ Append(s, e) \in Seq(S)
         /\ Newest(Append(s, e)) \in Seq(S)
         /\ Newest(Append(s, e)) # <<>>
         /\ Len(Newest(Append(s, e))) <= UndoLimit
         /\ Last(Newest(Append(s, e))) = e
<1>1. /\ Append(s, e) \in Seq(S)
      /\ Append(s, e) # <<>>
      /\ Len(Append(s, e)) = Len(s) + 1
      /\ Append(s, e)[Len(s) + 1] = e
  BY AppendProperties
<1>2. Last(Append(s, e)) = e
  BY <1>1 DEF Last
<1> QED
  BY <1>1, <1>2, NewestProperties

-----------------------------------------------------------------------------
(* Types: the recorder's own steps.                                        *)

StoreTypeOK ==
  /\ file \in [newer : BOOLEAN, stacks : Stacks]
  /\ cache \in [Workers -> Stacks]
  /\ fresh \in [Workers -> BOOLEAN]
  /\ blocked \in [Workers -> BOOLEAN]

(* Reading undo.json, or not, leaves the recorder well typed. *)
LEMMA ReadTypes ==
  ASSUME StoreTypeOK, NEW w \in Workers, Load(w) \/ Keep, UNCHANGED file
  PROVE  StoreTypeOK'
<1>1. CASE Load(w)
  BY <1>1 DEF StoreTypeOK, Load
<1>2. CASE Keep
  BY <1>2 DEF StoreTypeOK, Keep
<1> QED
  BY <1>1, <1>2

(* So does writing stacks of the right type. *)
LEMMA PersistTypes ==
  ASSUME StoreTypeOK, NEW w \in Workers, NEW s \in Stacks, Persist(w, s)
  PROVE  StoreTypeOK'
<1>1. cache' \in [Workers -> Stacks] /\ blocked' \in [Workers -> BOOLEAN]
  BY DEF StoreTypeOK, Persist
<1>2. CASE /\ file' = [newer |-> FALSE, stacks |-> s]
           /\ \/ fresh' = [v \in Workers |-> v = w]
              \/ fresh' = [fresh EXCEPT ![w] = TRUE]
  <2>1. file' \in [newer : BOOLEAN, stacks : Stacks]
    BY <1>2
  <2>2. fresh' \in [Workers -> BOOLEAN]
    BY <1>2 DEF StoreTypeOK
  <2> QED
    BY <1>1, <2>1, <2>2 DEF StoreTypeOK
<1>3. CASE UNCHANGED <<file, fresh>>
  BY <1>1, <1>3 DEF StoreTypeOK
<1> QED
  BY <1>2, <1>3 DEF Persist

(* The stacks that a legal edit leaves are stacks again. *)
LEMMA StacksProperties ==
  ASSUME NEW s \in Stacks
  PROVE  /\ s.undo \in Seq(Entries) /\ s.redo \in Seq(Entries)
         /\ s.pending \subseteq PendingEntries
         /\ [s EXCEPT !.pending = {}] \in Stacks
         /\ \A p \in PendingEntries : [s EXCEPT !.pending = {p}] \in Stacks
         /\ \A u, r \in Seq(Entries) : [s EXCEPT !.undo = u, !.redo = r] \in Stacks
BY DEF Stacks

(* An entry holds the parts in which the two snapshots differ. *)
LEMMA EntryType ==
  ASSUME NEW c \in 1..MaxCmds, NEW k \in 0..MaxOps, NEW before \in Snapshots,
         repo \in Snapshots
  PROVE  Entry(c, k, before) \in Entries
<1> DEFINE D == Differing(before, repo)
<1>1. D \in SUBSET Parts
  BY DEF Differing
<1>2. [p \in D |-> before[p]] \in [D -> Vals] /\ [p \in D |-> repo[p]] \in [D -> Vals]
  BY <1>1 DEF Snapshots
<1> HIDE DEF D
<1>3. [p \in D |-> before[p]] \in Partial /\ [p \in D |-> repo[p]] \in Partial
  BY <1>1, <1>2 DEF Partial
<1> QED
  BY <1>3 DEF Entry, Entries, D

(* Recording an entry leaves the recorder well typed. *)
LEMMA RecordTypes ==
  ASSUME StoreTypeOK, repo \in Snapshots, NEW w \in Workers,
         NEW c \in 1..MaxCmds, NEW k \in 0..MaxOps, NEW before \in Snapshots,
         NEW ends \in BOOLEAN, Record(w, c, k, before, ends)
  PROVE  StoreTypeOK'
<1> DEFINE kept == [cache[w] EXCEPT !.pending = IF ends THEN {} ELSE @]
           e == Entry(c, k, before)
           recorded == [kept EXCEPT !.undo = Newest(Append(@, e)), !.redo = <<>>]
<1>1. cache[w] \in Stacks
  BY DEF StoreTypeOK
<1>2. kept \in Stacks
  BY <1>1 DEF Stacks
<1>3. e \in Entries
  BY EntryType
<1> HIDE DEF e, kept
<1>4. Newest(Append(kept.undo, e)) \in Seq(Entries)
  BY <1>2, <1>3, StacksProperties, PushProperties
<1>5. recorded \in Stacks
  <2>1. <<>> \in Seq(Entries)
    OBVIOUS
  <2> QED
    BY <1>2, <1>4, <2>1, StacksProperties
<1> HIDE DEF recorded
<1>6. CASE Persist(w, recorded)
  BY <1>5, <1>6, PersistTypes
<1>7. CASE Persist(w, kept)
  BY <1>2, <1>7, PersistTypes
<1>8. CASE Keep /\ UNCHANGED file
  BY <1>8, ReadTypes
<1>9. \/ Persist(w, recorded)
      \/ Persist(w, kept)
      \/ Keep /\ UNCHANGED file
  BY DEF Record, recorded, kept, e
<1> QED
  BY <1>6, <1>7, <1>8, <1>9

-----------------------------------------------------------------------------
(* Types: every step of the specification.                                 *)

(* A command in the loop has a number, and a step to be saved has been     *)
(* taken from a stack with nothing pending.                                *)
JobOK ==
  \A w \in Workers :
    /\ pc[w] \notin {"down", "idle"} => job[w].id # 0
    /\ pc[w] = "stepSave" => Source(w) # <<>> /\ cache[w].pending = {}

TypeInv == TypeOK /\ JobOK

(* The target of a step is a part of a snapshot. *)
LEMMA TargetType ==
  ASSUME cache \in [Workers -> Stacks], NEW w \in Workers, Source(w) # <<>>
  PROVE  /\ Source(w) \in Seq(Entries)
         /\ Target(w) \in Partial
<1>1. Source(w) \in Seq(Entries)
  BY StacksProperties DEF Source
<1>2. Last(Source(w)) \in Entries
  BY <1>1, PopProperties
<1>3. Last(Source(w)).before \in Partial /\ Last(Source(w)).after \in Partial
  BY <1>2 DEF Entries
<1> QED
  BY <1>1, <1>3 DEF Target

(* What restore writes is a snapshot again. *)
LEMMA WrittenType ==
  ASSUME repo \in Snapshots, NEW w \in Workers, Target(w) \in Partial,
         NEW S \in SUBSET DOMAIN Target(w)
  PROVE  Written(w, S) \in Snapshots
<1>1. PICK D \in SUBSET Parts : Target(w) \in [D -> Vals]
  BY DEF Partial
<1>2. \A p \in S : Target(w)[p] \in Vals
  BY <1>1
<1> QED
  BY <1>2 DEF Written, Snapshots

(* The step to be saved moves one entry between the stacks. *)
LEMMA MovedType ==
  ASSUME cache \in [Workers -> Stacks], NEW w \in Workers, Source(w) # <<>>
  PROVE  Moved(w) \in Stacks
<1>1. cache[w].undo \in Seq(Entries) /\ cache[w].redo \in Seq(Entries)
  BY StacksProperties
<1>2. CASE job[w].kind = "undo"
  <2>1. cache[w].undo # <<>>
    BY <1>2 DEF Source
  <2>2. Front(cache[w].undo) \in Seq(Entries) /\ Last(cache[w].undo) \in Entries
    BY <1>1, <2>1, PopProperties
  <2>3. Append(cache[w].redo, Last(cache[w].undo)) \in Seq(Entries)
    BY <1>1, <2>2, AppendProperties
  <2> QED
    BY <1>2, <2>2, <2>3, StacksProperties DEF Moved
<1>3. CASE job[w].kind # "undo"
  <2>1. cache[w].redo # <<>>
    BY <1>3 DEF Source
  <2>2. Front(cache[w].redo) \in Seq(Entries) /\ Last(cache[w].redo) \in Entries
    BY <1>1, <2>1, PopProperties
  <2>3. Append(cache[w].undo, Last(cache[w].redo)) \in Seq(Entries)
    BY <1>1, <2>2, AppendProperties
  <2>4. Moved(w) = [cache[w] EXCEPT !.redo = Front(cache[w].redo),
                                    !.undo = Append(cache[w].undo, Last(cache[w].redo))]
    BY <1>3 DEF Moved
  <2> QED
    BY <2>2, <2>3, <2>4 DEF Stacks
<1> QED
  BY <1>2, <1>3

(* Ending or pausing an operation, or any change of the repository.        *)
LEMMA EffectTypes ==
  ASSUME RepoTypeOK, NEW c \in 0..MaxCmds,
         \/ Change \/ PauseOperation(c) \/ NoEffect
         \/ EndOperation("finished") \/ EndOperation("aborted") \/ EndOperation("outside")
  PROVE  RepoTypeOK'
<1>0. MaxOps \in Nat /\ MaxCmds \in Nat
  BY BoundsAssumption DEF BoundsAssumption
<1>1. CASE Change
  BY <1>1 DEF Change, RepoTypeOK, Snapshots
<1>2. CASE NoEffect
  BY <1>2 DEF NoEffect, repoVars, RepoTypeOK, Snapshots
<1>3. CASE PauseOperation(c)
  <2>1. opCount' \in 0..MaxOps /\ op' \in Ops /\ op' = opCount'
    BY <1>0, <1>3 DEF PauseOperation, RepoTypeOK, Ops
  <2> QED
    BY <1>0, <1>3, <2>1 DEF PauseOperation, RepoTypeOK, Snapshots, Ops
<1>4. ASSUME NEW how \in {"finished", "aborted", "outside"}, EndOperation(how)
      PROVE  RepoTypeOK'
  <2>1. op \in Ops
    BY <1>0, <1>4 DEF EndOperation, RepoTypeOK, Ops
  <2> QED
    BY <1>0, <1>4, <2>1 DEF EndOperation, RepoTypeOK, Snapshots
<1> QED
  BY <1>1, <1>2, <1>3, <1>4

(* A step changes one field of one worker's job. *)
LEMMA JobTypes ==
  ASSUME NEW j \in Jobs
  PROVE  /\ \A b \in BOOLEAN : /\ [j EXCEPT !.unrecorded = b] \in Jobs
                               /\ [j EXCEPT !.track = b] \in Jobs
                               /\ [j EXCEPT !.gated = b] \in Jobs
                               /\ [j EXCEPT !.replied = b] \in Jobs
         /\ \A b \in BOOLEAN, r \in SUBSET [from : Snapshots, to : Snapshots] :
              [j EXCEPT !.replied = b, !.result = r] \in Jobs
         /\ j.id \in 0..MaxCmds
BY DEF Jobs

(* The job of a command that has just been received. *)
LEMMA ReceivedType ==
  ASSUME NEW k \in AllKinds, NEW n \in 1..MaxCmds, NEW o \in SUBSET Ops, MaxCmds \in Nat
  PROVE  NewJob(k, n, o) \in Jobs /\ NewJob(k, n, o).id # 0
<1>1. n \in 0..MaxCmds /\ n # 0
  OBVIOUS
<1> QED
  BY <1>1 DEF NewJob, Jobs

(* Types: what a step of the worker's loop does to its recorder. *)
LEMMA HistoryStep ==
  ASSUME TypeInv, NEW w \in Workers,
         \/ SettleDrop(w) \/ StepSave(w) \/ FinishWrite(w)
  PROVE  StoreTypeOK'
<1> USE DEF TypeInv, TypeOK
<1>1. StoreTypeOK
  BY DEF StoreTypeOK, HistoryTypeOK
<1>2. cache[w] \in Stacks /\ cache[w].pending \subseteq PendingEntries
  BY <1>1, StacksProperties DEF StoreTypeOK
<1>3. CASE SettleDrop(w)
  <2>1. CASE Persist(w, [cache[w] EXCEPT !.pending = {}])
    BY <1>1, <1>2, <2>1, StacksProperties, PersistTypes
  <2>2. CASE Keep /\ UNCHANGED file
    BY <1>1, <2>2, ReadTypes
  <2> QED
    BY <1>3, <2>1, <2>2 DEF SettleDrop
<1>4. CASE StepSave(w)
  <2>1. Persist(w, Moved(w)) /\ Source(w) # <<>>
    BY <1>4 DEF StepSave, JobOK
  <2> QED
    BY <1>1, <2>1, MovedType, PersistTypes DEF StoreTypeOK
<1>5. CASE FinishWrite(w)
  <2>1. repo \in Snapshots /\ op \in 0..MaxOps /\ (op # 0 => op \in Ops)
    BY BoundsAssumption DEF RepoTypeOK, Ops, BoundsAssumption
  <2>2. job[w].id \in 1..MaxCmds
    <3>1. job[w].id \in 0..MaxCmds /\ job[w].id # 0
      BY <1>5, JobTypes DEF FinishWrite, JobOK, LoopTypeOK
    <3> QED
      BY <3>1, BoundsAssumption DEF BoundsAssumption
  <2>3. CASE FinishActive(w)
    <3>1. PICK before \in active[w] :
            IF op # 0
            THEN Persist(w, [cache[w] EXCEPT
                               !.pending = {[cmd |-> job[w].id, op |-> op, before |-> before]}])
            ELSE Record(w, job[w].id, 0, before, FALSE)
      BY <2>3 DEF FinishActive
    <3>2. before \in Snapshots
      BY DEF HistoryTypeOK
    <3>3. CASE op # 0
      <4>1. [cmd |-> job[w].id, op |-> op, before |-> before] \in PendingEntries
        BY <2>1, <2>2, <3>2, <3>3 DEF PendingEntries
      <4> QED
        BY <1>1, <1>2, <3>1, <3>3, <4>1, StacksProperties, PersistTypes
    <3>4. CASE op = 0
      <4>1. 0 \in 0..MaxOps
        BY <2>1, <3>4
      <4> QED
        BY <1>1, <2>1, <2>2, <3>1, <3>2, <3>4, <4>1, RecordTypes
    <3> QED
      BY <3>3, <3>4
  <2>4. CASE FinishPending(w)
    <3>1. CASE Keep /\ UNCHANGED file
      BY <1>1, <3>1, ReadTypes
    <3>2. ASSUME NEW p \in cache[w].pending,
                 \/ Persist(w, [cache[w] EXCEPT !.pending = {}])
                 \/ Record(w, p.cmd, p.op, p.before, TRUE)
          PROVE  StoreTypeOK'
      <4>1. p \in PendingEntries
        BY <1>2
      <4>2. p.cmd \in 1..MaxCmds /\ p.op \in Ops /\ p.before \in Snapshots
        BY <4>1 DEF PendingEntries
      <4>3. p.op \in 0..MaxOps
        BY <4>2, BoundsAssumption DEF Ops, BoundsAssumption
      <4>4. CASE Persist(w, [cache[w] EXCEPT !.pending = {}])
        BY <1>1, <1>2, <4>4, StacksProperties, PersistTypes
      <4>5. CASE Record(w, p.cmd, p.op, p.before, TRUE)
        BY <1>1, <2>1, <4>2, <4>3, <4>5, RecordTypes
      <4> QED
        BY <3>2, <4>4, <4>5
    <3> QED
      BY <2>4, <3>1, <3>2 DEF FinishPending
  <2> QED
    BY <1>5, <2>3, <2>4 DEF FinishWrite
<1> QED
  BY <1>3, <1>4, <1>5

(* Types: what a step of the worker's loop does to the loop.               *)
LEMMA LoopStep ==
  ASSUME LoopTypeOK, RepoTypeOK, RepoTypeOK', HistoryTypeOK, NEW w \in Workers, WorkerStep(w)
  PROVE  LoopTypeOK'
<1> USE DEF LoopTypeOK, Goto
<1>1. job[w] \in Jobs /\ NoJob \in Jobs
  BY BoundsAssumption DEF NewJob, NoJob, Jobs, BoundsAssumption
<1>2. ASSUME UNCHANGED <<issued, job>>,
             guard' \in [Workers -> BOOLEAN],
             lock' \in Workers \cup {NoHolder},
             NEW l \in PCs, pc' = [pc EXCEPT ![w] = l]
      PROVE  LoopTypeOK'
  BY <1>2
<1>3. ASSUME UNCHANGED <<issued, guard>>,
             lock' \in Workers \cup {NoHolder},
             NEW l \in PCs, pc' = [pc EXCEPT ![w] = l],
             NEW j \in Jobs, job' = [job EXCEPT ![w] = j]
      PROVE  LoopTypeOK'
  BY <1>3
<1>4. CASE Spawn(w)
  BY <1>4, <1>2 DEF Spawn, PCs
<1>5. CASE Acquire(w) \/ AcquireUnavailable(w)
  BY <1>5, <1>2 DEF Acquire, AcquireUnavailable, PCs
<1>6. CASE RefuseBusy(w)
  BY <1>1, <1>6, <1>3 DEF RefuseBusy, PCs
<1>7. CASE RunUnrecorded(w)
  <2>1. [job[w] EXCEPT !.unrecorded = TRUE] \in Jobs
    BY <1>1, JobTypes
  <2> QED
    BY <1>7, <2>1, <1>3 DEF RunUnrecorded, PCs
<1>8. CASE Settle(w)
  BY <1>8, <1>2 DEF Settle, PCs
<1>9. CASE SettleExclusive(w)
  BY <1>9, <1>2 DEF SettleExclusive, TakeExclusive, PCs
<1>10. CASE SettleBusy(w)
  BY <1>10, <1>2 DEF SettleBusy, PCs
<1>11. CASE SettleDrop(w)
  BY <1>11, <1>2 DEF SettleDrop, DropExclusive, PCs
<1>12. CASE Begin(w)
  <2>1. [job[w] EXCEPT !.track = (Planned(w) \/ cache[w].pending # {})] \in Jobs
    BY <1>1, JobTypes
  <2> QED
    BY <1>12, <2>1, <1>3 DEF Begin, PCs
<1>13. CASE Gate(w)
  <2>1. [job[w] EXCEPT !.gated = (job[w].kind \in Gated /\ op \in StoredOps)] \in Jobs
    BY <1>1, JobTypes
  <2> QED
    BY <1>13, <2>1, <1>3 DEF Gate, PCs
<1>14. CASE Run(w)
  <2> DEFINE r == {[from |-> repo, to |-> repo']}
             b == ~(job[w].track /\ job[w].kind \in HeldReply)
  <2>1. r \in SUBSET [from : Snapshots, to : Snapshots]
    BY DEF RepoTypeOK
  <2>2. [job[w] EXCEPT !.replied = b, !.result = r] \in Jobs
    BY <1>1, <2>1, JobTypes
  <2>3. job' = [job EXCEPT ![w] = [job[w] EXCEPT !.replied = b, !.result = r]]
    BY <1>14 DEF Run
  <2> QED
    BY <1>14, <2>2, <2>3, <1>3 DEF Run, AfterRun, PCs
<1>15. CASE StepExclusive(w)
  BY <1>15, <1>2 DEF StepExclusive, TakeExclusive, PCs
<1>16. CASE StepRestore(w)
  BY <1>16, <1>2 DEF StepRestore, PCs
<1>17. CASE StepRefused(w) \/ StepError(w) \/ StepSave(w)
  <2>1. [job[w] EXCEPT !.replied = TRUE] \in Jobs
    BY <1>1, JobTypes
  <2> QED
    BY <1>17, <2>1, <1>3 DEF StepRefused, StepError, StepSave, DropExclusive, AfterRun, PCs
<1>18. CASE FinishPaused(w) \/ FinishEnded(w) \/ FinishBusy(w)
  BY <1>18, <1>2 DEF FinishPaused, FinishEnded, FinishBusy, PCs
<1>19. CASE FinishExclusive(w)
  BY <1>19, <1>2 DEF FinishExclusive, TakeExclusive, PCs
<1>20. CASE FinishWrite(w)
  BY <1>20, <1>2 DEF FinishWrite, DropExclusive, PCs
<1>21. CASE Release(w)
  BY <1>1, <1>21 DEF Release, PCs
<1> QED
  BY <1>4, <1>5, <1>6, <1>7, <1>8, <1>9, <1>10, <1>11, <1>12, <1>13, <1>14, <1>15, <1>16,
     <1>17, <1>18, <1>19, <1>20, <1>21 DEF WorkerStep

(* Types: what a step of the worker's loop does to the repository. *)
LEMMA RepoStep ==
  ASSUME TypeInv, NEW w \in Workers, WorkerStep(w)
  PROVE  RepoTypeOK'
<1> USE DEF TypeInv, TypeOK
<1>1. CASE Run(w)
  <2>1. job[w].id \in 0..MaxCmds
    BY JobTypes DEF LoopTypeOK
  <2>2. \/ Change \/ PauseOperation(job[w].id) \/ NoEffect
        \/ EndOperation("finished") \/ EndOperation("aborted") \/ EndOperation("outside")
    BY <1>1 DEF Run, Effect
  <2> QED
    BY <2>1, <2>2, EffectTypes
<1>2. ASSUME NEW S \in SUBSET DOMAIN Target(w), Source(w) # <<>>, repo' = Written(w, S),
             UNCHANGED <<op, opCount, outcome, starter>>
      PROVE  RepoTypeOK'
  <2>1. Target(w) \in Partial
    BY <1>2, TargetType DEF HistoryTypeOK
  <2>2. repo' \in Snapshots
    BY <1>2, <2>1, WrittenType DEF RepoTypeOK
  <2> QED
    BY <1>2, <2>2 DEF RepoTypeOK
<1>3. CASE StepRestore(w)
  BY <1>2, <1>3 DEF StepRestore, CanStep
<1>4. CASE StepError(w)
  BY <1>2, <1>4 DEF StepError, CanStep
<1>5. CASE UNCHANGED repoVars
  BY <1>5 DEF repoVars, RepoTypeOK
<1> QED
  BY <1>1, <1>3, <1>4, <1>5
     DEF WorkerStep, Spawn, Acquire, RefuseBusy, RunUnrecorded, AcquireUnavailable, Settle,
         SettleExclusive, SettleBusy, SettleDrop, Begin, Gate, StepExclusive, StepRefused,
         StepSave, FinishPaused, FinishEnded, FinishExclusive, FinishBusy, FinishWrite, Release

(* Types: what a step of the worker's loop does to the recorders. *)
LEMMA RecorderStep ==
  ASSUME TypeInv, NEW w \in Workers, WorkerStep(w)
  PROVE  HistoryTypeOK'
<1> USE DEF TypeInv, TypeOK
<1>1. StoreTypeOK
  BY DEF HistoryTypeOK, StoreTypeOK
<1>2. StoreTypeOK'
  <2>1. CASE SettleDrop(w) \/ StepSave(w) \/ FinishWrite(w)
    BY <2>1, HistoryStep
  <2>2. CASE UNCHANGED file /\ (Load(w) \/ Keep)
    BY <1>1, <2>2, ReadTypes
  <2> QED
    BY <2>1, <2>2
       DEF WorkerStep, Spawn, Acquire, RefuseBusy, RunUnrecorded, AcquireUnavailable, Settle,
           SettleExclusive, SettleBusy, Begin, Gate, Run, StepExclusive, StepRestore,
           StepRefused, StepError, FinishPaused, FinishEnded, FinishExclusive, FinishBusy,
           Release, TakeExclusive, Reload, ReloadIfChanged, Keep, recorderVars
<1>3. active' \in [Workers -> SUBSET Snapshots] /\ staleOp' \in [Workers -> SUBSET Markers]
  <2>1. CASE SettleBusy(w)
    <3>1. \A p \in cache[w].pending : MarkerOf[p.op] \in Markers
      <4>1. \A p \in cache[w].pending : p.op \in Ops
        <5>1. cache[w] \in Stacks
          BY <1>1 DEF StoreTypeOK
        <5>2. cache[w].pending \subseteq PendingEntries
          BY <5>1, StacksProperties
        <5> QED
          BY <5>2 DEF PendingEntries
      <4> QED
        BY <4>1, OpsAssumption DEF OpsAssumption
    <3>2. {MarkerOf[p.op] : p \in cache[w].pending} \in SUBSET Markers
      BY <3>1
    <3> QED
      BY <2>1, <3>2 DEF SettleBusy, HistoryTypeOK
  <2>2. CASE Settle(w)
    BY <2>2 DEF Settle, HistoryTypeOK
  <2>3. CASE Begin(w)
    BY <2>3 DEF Begin, HistoryTypeOK, RepoTypeOK
  <2>4. CASE FinishBusy(w) \/ FinishWrite(w)
    BY <2>4 DEF FinishBusy, FinishWrite, HistoryTypeOK
  <2>5. CASE UNCHANGED <<active, staleOp>>
    BY <2>5 DEF HistoryTypeOK
  <2> QED
    BY <2>1, <2>2, <2>3, <2>4, <2>5
       DEF WorkerStep, Spawn, Acquire, RefuseBusy, RunUnrecorded, AcquireUnavailable,
           SettleExclusive, SettleDrop, Gate, Run, StepExclusive, StepRestore, StepRefused,
           StepError, StepSave, FinishPaused, FinishEnded, FinishExclusive, Release,
           recorderVars
<1> QED
  BY <1>2, <1>3 DEF HistoryTypeOK, StoreTypeOK

(* A command keeps its number until its worker is idle or dead, and what   *)
(* restore has restored is still what is saved.                            *)
LEMMA JobStep ==
  ASSUME TypeInv, NEW w \in Workers, WorkerStep(w)
  PROVE  JobOK'
<1> USE DEF TypeInv, TypeOK, LoopTypeOK, HistoryTypeOK
<1>1. SUFFICES ASSUME NEW v \in Workers
               PROVE  /\ pc'[v] \notin {"down", "idle"} => job'[v].id # 0
                      /\ pc'[v] = "stepSave" => Source(v)' # <<>> /\ cache'[v].pending = {}
  BY DEF JobOK
<1>2. CASE v # w
  <2>1. pc'[v] = pc[v] /\ job'[v] = job[v]
    BY <1>2 DEF WorkerStep, Spawn, Acquire, RefuseBusy, RunUnrecorded, AcquireUnavailable,
         Settle, SettleExclusive, SettleBusy, SettleDrop, Begin, Gate, Run, StepExclusive,
         StepRestore, StepRefused, StepError, StepSave, FinishPaused, FinishEnded,
         FinishExclusive, FinishBusy, FinishWrite, Release, Goto
  <2>2. cache'[v] = cache[v]
    <3>1. \A s : Persist(w, s) => cache'[v] = cache[v]
      BY <1>2 DEF Persist
    <3>2. Load(w) \/ Keep => cache'[v] = cache[v]
      BY <1>2 DEF Load, Keep
    <3> QED
      BY <3>1, <3>2
         DEF WorkerStep, Spawn, Acquire, RefuseBusy, RunUnrecorded, AcquireUnavailable,
           Settle, SettleExclusive, SettleBusy, SettleDrop, Begin, Gate, Run, StepExclusive,
           StepRestore, StepRefused, StepError, StepSave, FinishPaused, FinishEnded,
           FinishExclusive, FinishBusy, FinishWrite, Release, TakeExclusive, Reload,
           ReloadIfChanged, FinishActive, FinishPending, Record, Keep, recorderVars
  <2> QED
    BY <2>1, <2>2 DEF JobOK, Source
<1>3. CASE v = w
  <2>1. pc'[w] = "stepSave" => StepRestore(w)
    BY DEF WorkerStep, Spawn, Acquire, RefuseBusy, RunUnrecorded, AcquireUnavailable,
         Settle, SettleExclusive, SettleBusy, SettleDrop, Begin, Gate, Run, StepExclusive,
         StepRestore, StepRefused, StepError, StepSave, FinishPaused, FinishEnded,
         FinishExclusive, FinishBusy, FinishWrite, Release, Goto, AfterRun
  <2>2. StepRestore(w) => Source(w)' # <<>> /\ cache'[w].pending = {}
    BY DEF StepRestore, CanStep, Source, recorderVars
  <2>3. pc'[w] \notin {"down", "idle"} => job'[w].id # 0
    <3>1. pc'[w] \notin {"down", "idle"} => pc[w] \notin {"down", "idle"}
      BY DEF WorkerStep, Spawn, Acquire, RefuseBusy, RunUnrecorded, AcquireUnavailable,
         Settle, SettleExclusive, SettleBusy, SettleDrop, Begin, Gate, Run, StepExclusive,
         StepRestore, StepRefused, StepError, StepSave, FinishPaused, FinishEnded,
         FinishExclusive, FinishBusy, FinishWrite, Release, Goto, Unfinished
    <3>2. pc'[w] \notin {"down", "idle"} => job'[w].id = job[w].id
      <4>1. CASE RunUnrecorded(w)
        BY <4>1 DEF RunUnrecorded, Jobs
      <4>2. CASE Begin(w) \/ Gate(w)
        BY <4>2 DEF Begin, Gate, Jobs
      <4>3. CASE Run(w)
        BY <4>3 DEF Run, Jobs
      <4>4. CASE StepRefused(w) \/ StepError(w) \/ StepSave(w)
        BY <4>4 DEF StepRefused, StepError, StepSave, Jobs
      <4>5. CASE Spawn(w) \/ RefuseBusy(w) \/ Release(w)
        BY <4>5 DEF Spawn, RefuseBusy, Release, Goto
      <4>6. CASE UNCHANGED job
        BY <4>6
      <4> QED
        BY <4>1, <4>2, <4>3, <4>4, <4>5, <4>6
           DEF WorkerStep, Acquire, AcquireUnavailable, Settle, SettleExclusive, SettleBusy,
               SettleDrop, StepExclusive, StepRestore, FinishPaused, FinishEnded,
               FinishExclusive, FinishBusy, FinishWrite
    <3> QED
      BY <3>1, <3>2 DEF JobOK
  <2> QED
    BY <1>3, <2>1, <2>2, <2>3
<1> QED
  BY <1>2, <1>3

(* Every reachable state is well typed. *)
LEMMA TypeInit == Init => TypeInv
<1> SUFFICES ASSUME Init PROVE TypeInv
  OBVIOUS
<1> USE BoundsAssumption DEF Init, BoundsAssumption
<1>1. NoEntries \in Stacks
  BY DEF NoEntries, Stacks
<1>2. NoJob \in Jobs
  BY DEF NewJob, NoJob, Jobs
<1>3. RepoTypeOK /\ LoopTypeOK
  BY <1>2 DEF RepoTypeOK, LoopTypeOK, PCs
<1>4. HistoryTypeOK
  BY <1>1 DEF HistoryTypeOK
<1>5. JobOK
  BY DEF JobOK
<1> QED
  BY <1>3, <1>4, <1>5 DEF TypeInv, TypeOK

LEMMA TypeNext == TypeInv /\ [Next]_vars => TypeInv'
<1> SUFFICES ASSUME TypeInv, [Next]_vars PROVE TypeInv'
  OBVIOUS
<1> USE DEF TypeInv, TypeOK
<1>0. MaxCmds \in Nat /\ MaxOps \in Nat
  BY BoundsAssumption DEF BoundsAssumption
<1>1. ASSUME NEW w \in Workers, WorkerStep(w) PROVE TypeInv'
  BY <1>1, RepoStep, LoopStep, RecorderStep, JobStep
<1>2. ASSUME NEW w \in Workers, Crash(w) PROVE TypeInv'
  <2>1. RepoTypeOK'
    BY <1>2 DEF Crash, repoVars, RepoTypeOK
  <2>2. LoopTypeOK'
    BY <1>0, <1>2 DEF Crash, LoopTypeOK, Goto, PCs, NewJob, NoJob, Jobs
  <2>3. HistoryTypeOK'
    BY <1>2 DEF Crash, HistoryTypeOK
  <2>4. JobOK'
    BY <1>2 DEF Crash, JobOK, LoopTypeOK, Goto, Source
  <2> QED
    BY <2>1, <2>2, <2>3, <2>4
<1>3. ASSUME NEW w \in Workers, NEW k \in Kinds, Receive(w, k) PROVE TypeInv'
  <2> DEFINE j == NewJob(k, issued + 1, {o \in Ops : outcome[o] = "outside"})
  <2>1. issued' \in 1..MaxCmds /\ issued' = issued + 1
    BY <1>0, <1>3 DEF Receive, LoopTypeOK
  <2>2. j \in Jobs /\ j.id # 0
    <3>1. k \in AllKinds /\ issued + 1 \in 1..MaxCmds
      BY <2>1, KindsAssumption DEF KindsAssumption
    <3>2. {o \in Ops : outcome[o] = "outside"} \in SUBSET Ops
      OBVIOUS
    <3> QED
      BY <1>0, <3>1, <3>2, ReceivedType
  <2>3. job' = [job EXCEPT ![w] = j]
    BY <1>3 DEF Receive
  <2> HIDE DEF j
  <2>4. RepoTypeOK'
    BY <1>3 DEF Receive, repoVars, RepoTypeOK
  <2>5. LoopTypeOK'
    BY <1>0, <1>3, <2>1, <2>2, <2>3 DEF Receive, LoopTypeOK, Goto, PCs
  <2>6. HistoryTypeOK'
    BY <1>3 DEF Receive, recorderVars, HistoryTypeOK
  <2>7. JobOK'
    BY <1>3, <2>2, <2>3 DEF Receive, JobOK, LoopTypeOK, Goto, Source, recorderVars
  <2> QED
    BY <2>4, <2>5, <2>6, <2>7
<1>4. CASE Environment
  <2>1. CASE NewerBuild
    <3>1. RepoTypeOK' /\ LoopTypeOK'
      BY <2>1 DEF NewerBuild, RepoTypeOK, LoopTypeOK, repoVars
    <3>2. HistoryTypeOK'
      BY <2>1 DEF NewerBuild, HistoryTypeOK, NoEntries, Stacks
    <3>3. JobOK'
      BY <2>1 DEF NewerBuild, JobOK, Source
    <3> QED
      BY <3>1, <3>2, <3>3
  <2>2. CASE Edit \/ TerminalStart \/ TerminalEnd
    <3>1. RepoTypeOK'
      <4>1. 0 \in 0..MaxCmds
        BY <1>0
      <4> QED
        BY <2>2, <4>1, EffectTypes DEF Edit, TerminalStart, TerminalEnd
    <3>2. UNCHANGED <<issued, lock, file, pc, job, guard, recorderVars>>
      BY <2>2 DEF Edit, TerminalStart, TerminalEnd
    <3>3. LoopTypeOK' /\ HistoryTypeOK' /\ JobOK'
      BY <3>2 DEF LoopTypeOK, HistoryTypeOK, JobOK, Source, recorderVars
    <3> QED
      BY <3>1, <3>3
  <2> QED
    BY <1>4, <2>1, <2>2 DEF Environment
<1>5. CASE UNCHANGED vars
  <2>1. RepoTypeOK' /\ LoopTypeOK' /\ HistoryTypeOK'
    BY <1>5 DEF vars, RepoTypeOK, LoopTypeOK, HistoryTypeOK
  <2>2. JobOK'
    BY <1>5 DEF vars, JobOK, Source
  <2> QED
    BY <2>1, <2>2
<1> QED
  BY <1>1, <1>2, <1>3, <1>4, <1>5 DEF Next

LEMMA TypeInvariant == Spec => []TypeInv
BY TypeInit, TypeNext, PTL DEF Spec

(* The worker's loop and its recorder never leave their types: every entry *)
(* recorded has a command, every pending entry an operation.               *)
THEOREM TypeCorrect == Spec => []TypeOK
<1>1. TypeInv => TypeOK
  BY DEF TypeInv
<1> QED
  BY <1>1, TypeInvariant, PTL

-----------------------------------------------------------------------------
(* The lock: its holder, and nobody else, changes undo.json, and knows     *)
(* what is in it.                                                          *)

LockOK == \A w \in Workers : guard[w] => lock = w

WriterOK ==
  LocksWork =>
    \A w \in Workers : pc[w] \in Writing =>
      /\ lock = w
      /\ ~blocked[w] => cache[w] = file.stacks /\ ~file.newer

LockInv == LockOK /\ WriterOK

(* What the step of one worker leaves to another. *)
LEMMA OtherWorker ==
  ASSUME TypeInv, LockInv, NEW w \in Workers, NEW v \in Workers, v # w,
         WorkerStep(w) \/ Crash(w)
  PROVE  /\ pc'[v] = pc[v] /\ guard'[v] = guard[v]
         /\ cache'[v] = cache[v] /\ blocked'[v] = blocked[v]
         /\ lock = v => lock' = v
         /\ LocksWork /\ lock = v => file' = file
<1> USE DEF TypeInv, TypeOK, LoopTypeOK, HistoryTypeOK
<1>1. pc'[v] = pc[v] /\ guard'[v] = guard[v]
  BY DEF WorkerStep, Spawn, Acquire, RefuseBusy, RunUnrecorded, AcquireUnavailable, Settle,
         SettleExclusive, SettleBusy, SettleDrop, Begin, Gate, Run, StepExclusive,
         StepRestore, StepRefused, StepError, StepSave, FinishPaused, FinishEnded,
         FinishExclusive, FinishBusy, FinishWrite, Release, Crash, Goto
<1>2. cache'[v] = cache[v] /\ blocked'[v] = blocked[v]
  <2>1. ASSUME NEW s, Persist(w, s) PROVE cache'[v] = cache[v] /\ blocked'[v] = blocked[v]
    BY <2>1 DEF Persist
  <2>2. ASSUME Load(w) \/ Keep PROVE cache'[v] = cache[v] /\ blocked'[v] = blocked[v]
    BY <2>2 DEF Load, Keep
  <2> QED
    BY <2>1, <2>2
       DEF WorkerStep, Spawn, Acquire, RefuseBusy, RunUnrecorded, AcquireUnavailable, Settle,
           SettleExclusive, SettleBusy, SettleDrop, Begin, Gate, Run, StepExclusive,
           StepRestore, StepRefused, StepError, StepSave, FinishPaused, FinishEnded,
           FinishExclusive, FinishBusy, FinishWrite, Release, Crash, TakeExclusive, Reload,
           ReloadIfChanged, FinishActive, FinishPending, Record, Keep, recorderVars
<1>3. ASSUME lock = v PROVE lock' = v
  <2>1. v # NoHolder /\ ~guard[w]
    BY <1>3, WorkersAssumption DEF LockInv, LockOK, WorkersAssumption
  <2> QED
    BY <1>3, <2>1
       DEF WorkerStep, Spawn, Acquire, RefuseBusy, RunUnrecorded, AcquireUnavailable, Settle,
           SettleExclusive, SettleBusy, SettleDrop, Begin, Gate, Run, StepExclusive,
           StepRestore, StepRefused, StepError, StepSave, FinishPaused, FinishEnded,
           FinishExclusive, FinishBusy, FinishWrite, Release, Crash, TakeExclusive,
           DropExclusive
<1>4. ASSUME LocksWork, lock = v PROVE file' = file
  <2>1. pc[w] \notin Writing
    BY <1>4 DEF LockInv, WriterOK
  <2> QED
    BY <2>1
       DEF WorkerStep, Spawn, Acquire, RefuseBusy, RunUnrecorded, AcquireUnavailable, Settle,
           SettleExclusive, SettleBusy, SettleDrop, Begin, Gate, Run, StepExclusive,
           StepRestore, StepRefused, StepError, StepSave, FinishPaused, FinishEnded,
           FinishExclusive, FinishBusy, FinishWrite, Release, Crash, Writing
<1> QED
  BY <1>1, <1>2, <1>3, <1>4

(* Taking the lock for a write: the holder has just read undo.json again. *)
LEMMA TakenIsCurrent ==
  ASSUME TypeInv, LockInv, NEW w \in Workers, TakeExclusive(w), UNCHANGED <<file, guard>>,
         LocksWork
  PROVE  /\ lock' = w
         /\ ~blocked'[w] => cache'[w] = file'.stacks /\ ~file'.newer
<1> USE DEF TypeInv, TypeOK, HistoryTypeOK
<1>1. lock' = w
  BY DEF TakeExclusive, LockInv, LockOK
<1>2. CASE blocked[w]
  BY <1>1, <1>2 DEF TakeExclusive, Reload, Keep
<1>3. CASE ~blocked[w]
  BY <1>1, <1>3 DEF TakeExclusive, Reload, Load
<1> QED
  BY <1>2, <1>3

(* What the step of a worker leaves to itself. *)
LEMMA SameWorker ==
  ASSUME TypeInv, LockInv, NEW w \in Workers, WorkerStep(w)
  PROVE  /\ guard'[w] => lock' = w
         /\ LocksWork /\ pc'[w] \in Writing =>
              /\ lock' = w
              /\ ~blocked'[w] => cache'[w] = file'.stacks /\ ~file'.newer
<1> USE DEF TypeInv, TypeOK, LoopTypeOK, HistoryTypeOK
<1>1. ASSUME guard'[w] PROVE lock' = w
  <2>1. CASE Acquire(w)
    BY <2>1 DEF Acquire
  <2>2. CASE UNCHANGED guard
    BY <1>1, <2>2
       DEF LockInv, LockOK,
           WorkerStep, Spawn, Acquire, RefuseBusy, RunUnrecorded, AcquireUnavailable, Settle,
           SettleExclusive, SettleBusy, SettleDrop, Begin, Gate, Run, StepExclusive,
           StepRestore, StepRefused, StepError, StepSave, FinishPaused, FinishEnded,
           FinishExclusive, FinishBusy, FinishWrite, Release, TakeExclusive, DropExclusive
  <2>3. CASE Release(w)
    BY <1>1, <2>3 DEF Release
  <2> QED
    BY <2>1, <2>2, <2>3
       DEF WorkerStep, Spawn, RefuseBusy, RunUnrecorded, AcquireUnavailable, Settle,
           SettleExclusive, SettleBusy, SettleDrop, Begin, Gate, Run, StepExclusive,
           StepRestore, StepRefused, StepError, StepSave, FinishPaused, FinishEnded,
           FinishExclusive, FinishBusy, FinishWrite
<1>2. ASSUME LocksWork, pc'[w] \in Writing
      PROVE  /\ lock' = w
             /\ ~blocked'[w] => cache'[w] = file'.stacks /\ ~file'.newer
  <2>1. \/ SettleExclusive(w) \/ StepExclusive(w) \/ FinishExclusive(w)
        \/ StepRestore(w)
    BY <1>2
       DEF WorkerStep, Spawn, Acquire, RefuseBusy, RunUnrecorded, AcquireUnavailable, Settle,
           SettleBusy, SettleDrop, Begin, Gate, Run, StepRefused, StepError, StepSave,
           FinishPaused, FinishEnded, FinishBusy, FinishWrite, Release, Goto, AfterRun,
           Writing
  <2>2. CASE SettleExclusive(w) \/ StepExclusive(w) \/ FinishExclusive(w)
    BY <1>2, <2>2, TakenIsCurrent DEF SettleExclusive, StepExclusive, FinishExclusive
  <2>3. CASE StepRestore(w)
    BY <1>2, <2>3 DEF StepRestore, recorderVars, LockInv, WriterOK, Writing
  <2> QED
    BY <2>1, <2>2, <2>3
<1> QED
  BY <1>1, <1>2

LEMMA LockInit == Init => LockInv
BY DEF Init, LockInv, LockOK, WriterOK, Writing

LEMMA LockNext == TypeInv /\ LockInv /\ [Next]_vars => LockInv'
<1> SUFFICES ASSUME TypeInv, LockInv, [Next]_vars PROVE LockInv'
  OBVIOUS
<1> DEFINE WriterOf(v) ==
             LocksWork /\ pc[v] \in Writing =>
               /\ lock = v
               /\ ~blocked[v] => cache[v] = file.stacks /\ ~file.newer
<1>0. LockInv <=> \A v \in Workers : (guard[v] => lock = v) /\ WriterOf(v)
  BY DEF LockInv, LockOK, WriterOK
<1>1. ASSUME NEW w \in Workers, WorkerStep(w) \/ Crash(w) PROVE LockInv'
  <2>1. SUFFICES ASSUME NEW v \in Workers PROVE (guard'[v] => lock' = v) /\ WriterOf(v)'
    BY DEF LockInv, LockOK, WriterOK
  <2>2. CASE v # w
    BY <1>0, <1>1, <2>2, OtherWorker
  <2>3. CASE v = w /\ WorkerStep(w)
    BY <2>3, SameWorker
  <2>4. CASE v = w /\ Crash(w)
    BY <2>4 DEF Crash, Goto, TypeInv, TypeOK, LoopTypeOK, Writing
  <2> QED
    BY <1>1, <2>2, <2>3, <2>4
<1>2. ASSUME NEW w \in Workers, NEW k \in Kinds, Receive(w, k) PROVE LockInv'
  BY <1>2 DEF Receive, recorderVars, Goto, LockInv, LockOK, WriterOK, Writing, TypeInv,
              TypeOK, LoopTypeOK
<1>3. CASE NewerBuild
  <2>1. \A v \in Workers : ~guard[v] /\ (LocksWork => pc[v] \notin Writing)
    BY <1>3, WorkersAssumption DEF NewerBuild, LockInv, LockOK, WriterOK, WorkersAssumption
  <2> QED
    BY <1>3, <2>1 DEF NewerBuild, LockInv, LockOK, WriterOK
<1>4. CASE Edit \/ TerminalStart \/ TerminalEnd
  BY <1>4 DEF Edit, TerminalStart, TerminalEnd, recorderVars, LockInv, LockOK, WriterOK
<1>5. CASE UNCHANGED vars
  BY <1>5 DEF vars, LockInv, LockOK, WriterOK
<1> QED
  BY <1>1, <1>2, <1>3, <1>4, <1>5 DEF Next, Environment

LEMMA LockInvariant == Spec => []LockInv
BY TypeInvariant, LockInit, LockNext, PTL DEF Spec

(* Whoever is about to write undo.json holds the lock and has its present  *)
(* contents in memory: no other window's entry is overwritten.             *)
THEOREM WritersCurrent == Spec => []WritersAreCurrent
<1>1. LockInv => WritersAreCurrent
  BY DEF LockInv, WriterOK, WritersAreCurrent
<1> QED
  BY <1>1, LockInvariant, PTL

-----------------------------------------------------------------------------
(* The limit: with or without locks, whatever a worker remembers or writes *)
(* holds at most UndoLimit entries, undone ones included.                  *)

Within(s) == Len(s.undo) + Len(s.redo) <= UndoLimit

BoundInv == Within(file.stacks) /\ \A w \in Workers : Within(cache[w])

(* Writing stacks within the limit. *)
LEMMA PersistWithin ==
  ASSUME TypeOK, BoundInv, NEW w \in Workers, NEW s, Within(s), Persist(w, s)
  PROVE  BoundInv'
<1>1. cache' = [cache EXCEPT ![w] = s]
  BY DEF Persist
<1>2. \A v \in Workers : Within(cache'[v])
  BY <1>1 DEF TypeOK, HistoryTypeOK, BoundInv
<1>3. Within(file'.stacks)
  <2>1. file'.stacks = s \/ file' = file
    BY DEF Persist
  <2> QED
    BY <2>1 DEF BoundInv
<1> QED
  BY <1>2, <1>3 DEF BoundInv

(* Reading them. *)
LEMMA ReadWithin ==
  ASSUME TypeOK, BoundInv, NEW w \in Workers, Load(w) \/ Keep, UNCHANGED file
  PROVE  BoundInv'
BY DEF TypeOK, HistoryTypeOK, BoundInv, Load, Keep

(* Recording an entry: the redo stack is gone, the undo stack drained. *)
LEMMA RecordWithin ==
  ASSUME TypeInv, BoundInv, NEW w \in Workers,
         NEW c \in 1..MaxCmds, NEW k \in 0..MaxOps, NEW before \in Snapshots,
         NEW ends \in BOOLEAN, Record(w, c, k, before, ends)
  PROVE  BoundInv'
<1> DEFINE kept == [cache[w] EXCEPT !.pending = IF ends THEN {} ELSE @]
           e == Entry(c, k, before)
           top == Newest(Append(kept.undo, e))
           recorded == [kept EXCEPT !.undo = Newest(Append(@, e)), !.redo = <<>>]
<1> USE DEF TypeInv, TypeOK
<1>1. cache[w] \in Stacks /\ Within(cache[w])
  BY DEF HistoryTypeOK, BoundInv
<1>2. kept.undo = cache[w].undo /\ kept.redo = cache[w].redo
  BY <1>1 DEF Stacks
<1>3. Within(kept)
  BY <1>1, <1>2 DEF Within
<1>4. e \in Entries
  BY EntryType DEF RepoTypeOK
<1>5. recorded.undo = top /\ recorded.redo = <<>>
  BY <1>1 DEF Stacks
<1> HIDE DEF e
<1>6. top \in Seq(Entries) /\ Len(top) <= UndoLimit
  BY <1>1, <1>2, <1>4, StacksProperties, PushProperties
<1>7. Within(recorded)
  <2>1. Len(top) \in Nat /\ Len(<<>>) = 0 /\ UndoLimit \in Nat
    BY <1>6, EmptySeq, LenProperties, BoundsAssumption DEF BoundsAssumption
  <2> HIDE DEF top, recorded
  <2> QED
    BY <1>5, <1>6, <2>1 DEF Within
<1> HIDE DEF kept, recorded
<1>8. \/ Persist(w, recorded)
      \/ Persist(w, kept)
      \/ Keep /\ UNCHANGED file
  BY DEF Record, recorded, kept, e
<1> QED
  BY <1>3, <1>7, <1>8, PersistWithin, ReadWithin

(* Stepping moves an entry from one stack to the other. *)
LEMMA MovedWithin ==
  ASSUME cache \in [Workers -> Stacks], NEW w \in Workers, Source(w) # <<>>, Within(cache[w])
  PROVE  Within(Moved(w))
<1> DEFINE u == cache[w].undo
           r == cache[w].redo
<1>1. cache[w] \in Stacks /\ u \in Seq(Entries) /\ r \in Seq(Entries)
  BY StacksProperties
<1>2. Len(u) \in Nat /\ Len(r) \in Nat /\ UndoLimit \in Nat /\ Len(u) + Len(r) <= UndoLimit
  BY <1>1, LenProperties, BoundsAssumption DEF BoundsAssumption, Within
<1> HIDE DEF u, r
<1>3. CASE job[w].kind = "undo"
  <2>1. u # <<>>
    BY <1>3 DEF Source, u
  <2>2. Moved(w).undo = Front(u) /\ Moved(w).redo = Append(r, Last(u))
    BY <1>1, <1>3 DEF Moved, Stacks, u, r
  <2>3. Len(Front(u)) = Len(u) - 1 /\ Last(u) \in Entries
    BY <1>1, <2>1, PopProperties
  <2>4. Len(Append(r, Last(u))) = Len(r) + 1
    BY <1>1, <2>3, AppendProperties
  <2> QED
    BY <1>2, <2>2, <2>3, <2>4 DEF Within
<1>4. CASE job[w].kind # "undo"
  <2>1. r # <<>>
    BY <1>4 DEF Source, r
  <2>2. Moved(w).redo = Front(r) /\ Moved(w).undo = Append(u, Last(r))
    BY <1>1, <1>4 DEF Moved, Stacks, u, r
  <2>3. Len(Front(r)) = Len(r) - 1 /\ Last(r) \in Entries
    BY <1>1, <2>1, PopProperties
  <2>4. Len(Append(u, Last(r))) = Len(u) + 1
    BY <1>1, <2>3, AppendProperties
  <2> QED
    BY <1>2, <2>2, <2>3, <2>4 DEF Within
<1> QED
  BY <1>3, <1>4

(* Any write of a command's finish. *)
LEMMA FinishWithin ==
  ASSUME TypeInv, BoundInv, NEW w \in Workers, FinishWrite(w)
  PROVE  BoundInv'
<1> USE DEF TypeInv, TypeOK
<1>0. MaxCmds \in Nat /\ MaxOps \in Nat
  BY BoundsAssumption DEF BoundsAssumption
<1>1. cache[w] \in Stacks /\ Within(cache[w]) /\ cache[w].pending \subseteq PendingEntries
  BY StacksProperties DEF HistoryTypeOK, BoundInv
<1>2. \A P : [cache[w] EXCEPT !.pending = P].undo = cache[w].undo
             /\ [cache[w] EXCEPT !.pending = P].redo = cache[w].redo
  BY <1>1 DEF Stacks
<1>3. \A P : Within([cache[w] EXCEPT !.pending = P])
  BY <1>1, <1>2 DEF Within
<1>4. job[w].id \in 1..MaxCmds
  <2>1. job[w].id \in 0..MaxCmds /\ job[w].id # 0
    BY JobTypes DEF FinishWrite, JobOK, LoopTypeOK
  <2> QED
    BY <1>0, <2>1
<1>5. CASE FinishActive(w)
  <2>1. PICK before \in active[w] :
          IF op # 0
          THEN Persist(w, [cache[w] EXCEPT
                             !.pending = {[cmd |-> job[w].id, op |-> op, before |-> before]}])
          ELSE Record(w, job[w].id, 0, before, FALSE)
    BY <1>5 DEF FinishActive
  <2>2. before \in Snapshots /\ 0 \in 0..MaxOps
    BY <1>0 DEF HistoryTypeOK
  <2> QED
    BY <1>3, <1>4, <2>1, <2>2, PersistWithin, RecordWithin
<1>6. CASE FinishPending(w)
  <2>1. CASE Keep /\ UNCHANGED file
    BY <2>1, ReadWithin
  <2>2. ASSUME NEW p \in cache[w].pending,
               \/ Persist(w, [cache[w] EXCEPT !.pending = {}])
               \/ Record(w, p.cmd, p.op, p.before, TRUE)
        PROVE  BoundInv'
    <3>1. p.cmd \in 1..MaxCmds /\ p.op \in Ops /\ p.before \in Snapshots
      BY <1>1 DEF PendingEntries
    <3>2. p.op \in 0..MaxOps
      BY <1>0, <3>1 DEF Ops
    <3> QED
      BY <1>3, <2>2, <3>1, <3>2, PersistWithin, RecordWithin
  <2> QED
    BY <1>6, <2>1, <2>2 DEF FinishPending
<1> QED
  BY <1>5, <1>6 DEF FinishWrite

LEMMA BoundInit == Init => BoundInv
<1>1. Len(<<>>) = 0
  BY EmptySeq
<1> QED
  BY <1>1, BoundsAssumption DEF Init, NoEntries, BoundInv, Within, BoundsAssumption

LEMMA BoundNext == TypeInv /\ BoundInv /\ [Next]_vars => BoundInv'
<1> SUFFICES ASSUME TypeInv, BoundInv, [Next]_vars PROVE BoundInv'
  OBVIOUS
<1> USE DEF TypeInv
<1>1. ASSUME NEW w \in Workers, WorkerStep(w) PROVE BoundInv'
  <2>1. CASE FinishWrite(w)
    BY <2>1, FinishWithin
  <2>2. CASE StepSave(w)
    <3>1. Source(w) # <<>> /\ Persist(w, Moved(w))
      BY <2>2 DEF StepSave, JobOK
    <3> QED
      BY <3>1, MovedWithin, PersistWithin DEF TypeOK, HistoryTypeOK, BoundInv
  <2>3. CASE SettleDrop(w)
    <3>1. cache[w] \in Stacks /\ Within(cache[w])
      BY DEF TypeOK, HistoryTypeOK, BoundInv
    <3>2. Within([cache[w] EXCEPT !.pending = {}])
      BY <3>1 DEF Within, Stacks
    <3> QED
      BY <2>3, <3>2, PersistWithin, ReadWithin DEF SettleDrop
  <2>4. CASE UNCHANGED file /\ (Load(w) \/ Keep)
    BY <2>4, ReadWithin
  <2> QED
    BY <1>1, <2>1, <2>2, <2>3, <2>4
       DEF WorkerStep, Spawn, Acquire, RefuseBusy, RunUnrecorded, AcquireUnavailable, Settle,
           SettleExclusive, SettleBusy, Begin, Gate, Run, StepExclusive, StepRestore,
           StepRefused, StepError, FinishPaused, FinishEnded, FinishExclusive, FinishBusy,
           Release, TakeExclusive, Reload, ReloadIfChanged, Keep, recorderVars
<1>2. CASE NewerBuild
  <2>1. Within(NoEntries)
    <3>1. Len(<<>>) = 0
      BY EmptySeq
    <3> QED
      BY <3>1, BoundsAssumption DEF NoEntries, Within, BoundsAssumption
  <2> QED
    BY <1>2, <2>1 DEF NewerBuild, BoundInv
<1>3. CASE UNCHANGED <<file, cache>>
  BY <1>3 DEF BoundInv, Within
<1> QED
  BY <1>1, <1>2, <1>3
     DEF Next, Crash, Receive, Environment, Edit, TerminalStart, TerminalEnd, recorderVars, vars

(* UNDO_LIMIT bounds both stacks together, for any number of windows, with *)
(* or without working locks, though only finish ever counts.               *)
THEOREM HistoryStaysBounded == Spec => []HistoryBounded
<1>1. BoundInv => HistoryBounded
  BY DEF BoundInv, Within, HistoryBounded
<1> QED
  BY <1>1, TypeInvariant, BoundInit, BoundNext, PTL DEF Spec

-----------------------------------------------------------------------------
(* Where locks work, undo.json is an UndoLog: the workers implement the    *)
(* abstract history.                                                       *)

(* What a writer holds while it writes. *)
Current(w) == ~blocked[w] => cache[w] = file.stacks /\ ~file.newer

LegalStep == [Log!Next]_(Log!logVars)

(* A step that leaves undo.json alone. *)
LEMMA QuietStep == file' = file => LegalStep
BY DEF LegalStep, Log!logVars

(* Writing a stack with a new entry on top. *)
LEMMA RecordStep ==
  ASSUME TypeInv, NEW w \in Workers, Current(w),
         NEW c \in 1..MaxCmds, NEW k \in 0..MaxOps, NEW before \in Snapshots,
         NEW ends \in BOOLEAN, ends => cache[w].pending # {},
         Record(w, c, k, before, ends)
  PROVE  LegalStep
<1> DEFINE s == cache[w]
           kept == [s EXCEPT !.pending = IF ends THEN {} ELSE @]
           e == Entry(c, k, before)
           recorded == [kept EXCEPT !.undo = Newest(Append(@, e)), !.redo = <<>>]
<1> USE DEF TypeInv, TypeOK
<1>1. s \in Stacks /\ s.undo \in Seq(Entries) /\ e \in Entries
  BY StacksProperties, EntryType DEF HistoryTypeOK, RepoTypeOK
<1>2. /\ kept.undo = s.undo /\ kept.redo = s.redo
      /\ kept.pending = IF ends THEN {} ELSE s.pending
  BY <1>1 DEF Stacks
<1>3. /\ recorded.undo = Newest(Append(s.undo, e))
      /\ recorded.redo = <<>>
      /\ recorded.pending = IF ends THEN {} ELSE s.pending
  BY <1>1 DEF Stacks
<1>4. CASE file' = file
  BY <1>4, QuietStep
<1> HIDE DEF kept, recorded, e
<1>5. CASE /\ ~blocked[w] /\ file' = [newer |-> FALSE, stacks |-> recorded]
  <2>1. Newest(Append(s.undo, e)) # <<>> /\ Last(Newest(Append(s.undo, e))) = e
    BY <1>1, PushProperties
  <2>2. file.stacks = s /\ file.newer = FALSE
    BY <1>5 DEF Current, HistoryTypeOK
  <2>3. file'.stacks = recorded /\ file'.newer = FALSE
    BY <1>5
  <2>4. Log!Record
    BY <1>3, <2>1, <2>2, <2>3 DEF Log!Record, Log!Newest, Log!Top, Newest, Last
  <2> QED
    BY <2>4 DEF LegalStep, Log!Next
<1>6. CASE /\ ~blocked[w] /\ file' = [newer |-> FALSE, stacks |-> kept] /\ ends
  <2>1. file.stacks = s /\ file.newer = FALSE
    BY <1>6 DEF Current, HistoryTypeOK
  <2>2. file'.stacks = kept /\ file'.newer = FALSE
    BY <1>6
  <2>3. Log!Drop
    BY <1>2, <1>6, <2>1, <2>2 DEF Log!Drop
  <2> QED
    BY <2>3 DEF LegalStep, Log!Next
<1>7. \/ Persist(w, recorded)
      \/ Persist(w, kept) /\ ends
      \/ UNCHANGED file
  BY DEF Record, recorded, kept, e
<1> QED
  BY <1>4, <1>5, <1>6, <1>7 DEF Persist

(* Dropping the pending entry. *)
LEMMA DropStep ==
  ASSUME TypeInv, NEW w \in Workers, Current(w), cache[w].pending # {},
         Persist(w, [cache[w] EXCEPT !.pending = {}])
  PROVE  LegalStep
<1> USE DEF TypeInv, TypeOK
<1> DEFINE s == cache[w]
           kept == [s EXCEPT !.pending = {}]
<1>1. s \in Stacks
  BY DEF HistoryTypeOK
<1>2. kept.undo = s.undo /\ kept.redo = s.redo /\ kept.pending = {}
  BY <1>1 DEF Stacks
<1> HIDE DEF kept
<1>3. CASE ~blocked[w] /\ file' = [newer |-> FALSE, stacks |-> kept]
  <2>1. file.stacks = s /\ file.newer = FALSE /\ file'.stacks = kept /\ file'.newer = FALSE
    BY <1>3 DEF Current, HistoryTypeOK
  <2>2. Log!Drop
    BY <1>2, <2>1 DEF Log!Drop
  <2> QED
    BY <2>2 DEF LegalStep, Log!Next
<1> QED
  BY <1>3, QuietStep DEF Persist, kept

(* Leaving an operation paused. *)
LEMMA PauseStep ==
  ASSUME TypeInv, NEW w \in Workers, Current(w), NEW p \in PendingEntries,
         Persist(w, [cache[w] EXCEPT !.pending = {p}])
  PROVE  LegalStep
<1> USE DEF TypeInv, TypeOK
<1> DEFINE s == cache[w]
           paused == [s EXCEPT !.pending = {p}]
<1>1. s \in Stacks
  BY DEF HistoryTypeOK
<1>2. paused.undo = s.undo /\ paused.redo = s.redo /\ paused.pending = {p}
  BY <1>1 DEF Stacks
<1> HIDE DEF paused
<1>3. CASE ~blocked[w] /\ file' = [newer |-> FALSE, stacks |-> paused]
  <2>1. file.stacks = s /\ file.newer = FALSE /\ file'.stacks = paused /\ file'.newer = FALSE
    BY <1>3 DEF Current, HistoryTypeOK
  <2>2. Log!Pause
    BY <1>2, <2>1 DEF Log!Pause
  <2> QED
    BY <2>2 DEF LegalStep, Log!Next
<1> QED
  BY <1>3, QuietStep DEF Persist, paused

(* A step back or forward. *)
LEMMA MoveStep ==
  ASSUME TypeInv, NEW w \in Workers, Current(w), StepSave(w)
  PROVE  LegalStep
<1> USE DEF TypeInv, TypeOK
<1> DEFINE s == cache[w]
           moved == Moved(w)
<1>1. s \in Stacks /\ Source(w) # <<>> /\ s.pending = {}
  BY DEF HistoryTypeOK, JobOK, StepSave
<1>2. /\ moved.pending = s.pending
      /\ job[w].kind = "undo" => /\ moved.undo = Front(s.undo)
                                 /\ moved.redo = Append(s.redo, Last(s.undo))
      /\ job[w].kind # "undo" => /\ moved.redo = Front(s.redo)
                                 /\ moved.undo = Append(s.undo, Last(s.redo))
  BY <1>1 DEF Moved, Stacks
<1> HIDE DEF moved
<1>3. CASE ~blocked[w] /\ file' = [newer |-> FALSE, stacks |-> moved]
  <2>1. file.stacks = s /\ file.newer = FALSE /\ file'.stacks = moved /\ file'.newer = FALSE
    BY <1>3 DEF Current, HistoryTypeOK
  <2>2. CASE job[w].kind = "undo"
    <3>1. Log!Undo
      BY <1>1, <1>2, <2>1, <2>2
         DEF Log!Undo, Log!ButLast, Log!Top, Front, Last, Source
    <3> QED
      BY <3>1 DEF LegalStep, Log!Next
  <2>3. CASE job[w].kind # "undo"
    <3>1. Log!Redo
      BY <1>1, <1>2, <2>1, <2>3
         DEF Log!Redo, Log!ButLast, Log!Top, Front, Last, Source
    <3> QED
      BY <3>1 DEF LegalStep, Log!Next
  <2> QED
    BY <2>2, <2>3
<1> QED
  BY <1>3, QuietStep DEF StepSave, Persist, moved

(* What a finish writes. *)
LEMMA FinishStep ==
  ASSUME TypeInv, NEW w \in Workers, Current(w), FinishWrite(w)
  PROVE  LegalStep
<1> USE DEF TypeInv, TypeOK
<1>0. MaxCmds \in Nat /\ MaxOps \in Nat
  BY BoundsAssumption DEF BoundsAssumption
<1>1. job[w].id \in 1..MaxCmds
  <2>1. job[w].id \in 0..MaxCmds /\ job[w].id # 0
    BY JobTypes DEF FinishWrite, JobOK, LoopTypeOK
  <2> QED
    BY <1>0, <2>1
<1>2. CASE FinishActive(w)
  <2>1. PICK before \in active[w] :
          IF op # 0
          THEN Persist(w, [cache[w] EXCEPT
                             !.pending = {[cmd |-> job[w].id, op |-> op, before |-> before]}])
          ELSE Record(w, job[w].id, 0, before, FALSE)
    BY <1>2 DEF FinishActive
  <2>2. before \in Snapshots /\ 0 \in 0..MaxOps
    BY <1>0 DEF HistoryTypeOK
  <2>3. CASE op # 0
    <3>1. op \in Ops
      BY <1>0, <2>3 DEF RepoTypeOK, Ops
    <3>2. [cmd |-> job[w].id, op |-> op, before |-> before] \in PendingEntries
      BY <1>1, <2>2, <3>1 DEF PendingEntries
    <3> QED
      BY <2>1, <2>3, <3>2, PauseStep
  <2>4. CASE op = 0
    BY <1>1, <2>1, <2>2, <2>4, RecordStep
  <2> QED
    BY <2>3, <2>4
<1>3. CASE FinishPending(w)
  <2>1. CASE UNCHANGED file
    BY <2>1, QuietStep
  <2>2. ASSUME NEW p \in cache[w].pending,
               \/ Persist(w, [cache[w] EXCEPT !.pending = {}])
               \/ Record(w, p.cmd, p.op, p.before, TRUE)
        PROVE  LegalStep
    <3>1. p \in PendingEntries /\ cache[w].pending # {}
      BY StacksProperties DEF HistoryTypeOK
    <3>2. p.cmd \in 1..MaxCmds /\ p.op \in 0..MaxOps /\ p.before \in Snapshots
      BY <1>0, <3>1 DEF PendingEntries, Ops
    <3> QED
      BY <2>2, <3>1, <3>2, DropStep, RecordStep
  <2> QED
    BY <1>3, <2>1, <2>2 DEF FinishPending
<1> QED
  BY <1>2, <1>3 DEF FinishWrite

(* Every window's commands, whatever they race with, change undo.json only *)
(* by legal edits: the workers implement the abstract history.             *)
THEOREM HistoryIsLegal ==
  ASSUME LocksWork
  PROVE  Spec => LegalHistory
<1>1. Init => Log!Init
  BY DEF Init, NoEntries, Log!Init
<1>2. TypeInv /\ LockInv /\ [Next]_vars => [Log!Next]_(Log!logVars)
  <2> SUFFICES ASSUME TypeInv, LockInv, [Next]_vars PROVE LegalStep
    BY DEF LegalStep
  <2>1. \A w \in Workers : pc[w] \in Writing => Current(w)
    BY DEF LockInv, WriterOK, Current
  <2>2. ASSUME NEW w \in Workers, WorkerStep(w) PROVE LegalStep
    <3>1. CASE FinishWrite(w)
      BY <2>1, <3>1, FinishStep DEF FinishWrite, Writing
    <3>2. CASE StepSave(w)
      BY <2>1, <3>2, MoveStep DEF StepSave, Writing
    <3>3. CASE SettleDrop(w)
      <4>1. CASE UNCHANGED file
        BY <4>1, QuietStep
      <4>2. CASE Stale(cache[w].pending) /\ Persist(w, [cache[w] EXCEPT !.pending = {}])
        <5>1. cache[w].pending # {}
          BY <4>2 DEF Stale
        <5> QED
          BY <2>1, <3>3, <4>2, <5>1, DropStep DEF SettleDrop, Writing
      <4> QED
        BY <3>3, <4>1, <4>2 DEF SettleDrop
    <3>4. CASE UNCHANGED file
      BY <3>4, QuietStep
    <3> QED
      BY <2>2, <3>1, <3>2, <3>3, <3>4
         DEF WorkerStep, Spawn, Acquire, RefuseBusy, RunUnrecorded, AcquireUnavailable,
             Settle, SettleExclusive, SettleBusy, Begin, Gate, Run, StepExclusive,
             StepRestore, StepRefused, StepError, FinishPaused, FinishEnded,
             FinishExclusive, FinishBusy, Release
  <2>3. CASE NewerBuild
    <3>1. Log!TakeOver
      BY <2>3 DEF NewerBuild, NoEntries, Log!TakeOver
    <3> QED
      BY <3>1 DEF LegalStep, Log!Next
  <2>4. CASE UNCHANGED file
    BY <2>4, QuietStep
  <2> QED
    BY <2>2, <2>3, <2>4
       DEF Next, Crash, Receive, Environment, Edit, TerminalStart, TerminalEnd, vars
<1>3. Spec => [](TypeInv /\ LockInv)
  BY TypeInvariant, LockInvariant, PTL
<1> QED
  BY <1>1, <1>2, <1>3, PTL DEF Spec, LegalHistory, Log!Spec

-----------------------------------------------------------------------------
(* The gate: while no wait for the lock is in vain, what the gate has      *)
(* checked still holds when the command runs.                              *)

KindOK == \A w \in Workers : job[w].kind \in Kinds \cup {"none"}

GuardOK ==
  \A w \in Workers :
    pc[w] \notin {"down", "idle", "acquire"} /\ job[w].kind \in Locking => guard[w]

GateOK ==
  \A w \in Workers :
    pc[w] = "run" /\ job[w].kind \in Gated /\ ~job[w].gated => op \notin StoredOps

GateInv == KindOK /\ GuardOK /\ GateOK

(* A worker's step leaves the kind of its command alone, unless it is over. *)
LEMMA KindStep ==
  ASSUME TypeInv, NEW w \in Workers, WorkerStep(w) \/ Crash(w)
  PROVE  /\ job'[w].kind \in {job[w].kind, "none"}
         /\ \A v \in Workers \ {w} : job'[v] = job[v] /\ pc'[v] = pc[v] /\ guard'[v] = guard[v]
<1> USE DEF TypeInv, TypeOK, LoopTypeOK
<1>1. CASE RefuseBusy(w) \/ Release(w) \/ Crash(w)
  BY <1>1 DEF RefuseBusy, Release, Crash, NoJob, NewJob, Goto
<1>2. CASE RunUnrecorded(w)
  BY <1>2 DEF RunUnrecorded, Jobs, Goto
<1>3. CASE Begin(w) \/ Gate(w)
  BY <1>3 DEF Begin, Gate, Jobs, Goto
<1>4. CASE Run(w)
  BY <1>4 DEF Run, Jobs, Goto
<1>5. CASE StepRefused(w) \/ StepError(w) \/ StepSave(w)
  BY <1>5 DEF StepRefused, StepError, StepSave, Jobs, Goto
<1>6. CASE UNCHANGED job /\ (\E l \in PCs : Goto(w, l)) /\ (UNCHANGED guard \/ Acquire(w))
  BY <1>6 DEF Goto, Acquire
<1> QED
  BY <1>1, <1>2, <1>3, <1>4, <1>5, <1>6
     DEF WorkerStep, Spawn, Acquire, AcquireUnavailable, Settle, SettleExclusive, SettleBusy,
         SettleDrop, StepExclusive, StepRestore, FinishPaused, FinishEnded, FinishExclusive,
         FinishBusy, FinishWrite, PCs

(* A command that locks has its guard, from the lock to its end. *)
LEMMA GuardStep ==
  ASSUME LocksWork, "timeout" \notin Env, TypeInv, GuardOK, NEW w \in Workers, WorkerStep(w),
         pc'[w] \notin {"down", "idle", "acquire"}, job'[w].kind \in Locking
  PROVE  guard'[w]
<1> USE DEF TypeInv, TypeOK, LoopTypeOK
<1>1. ~RunUnrecorded(w) /\ ~AcquireUnavailable(w)
  BY DEF RunUnrecorded, AcquireUnavailable
<1>2. CASE Acquire(w)
  BY <1>2 DEF Acquire
<1>3. job'[w].kind = job[w].kind
  BY KindStep DEF Locking, Recorded
<1>4. CASE UNCHANGED guard /\ pc[w] \notin {"down", "idle", "acquire"}
  BY <1>3, <1>4 DEF GuardOK
<1> QED
  BY <1>1, <1>2, <1>4
     DEF WorkerStep, Spawn, RefuseBusy, Settle, SettleExclusive, SettleBusy, SettleDrop,
         Begin, Gate, Run, StepExclusive, StepRestore, StepRefused, StepError, StepSave,
         FinishPaused, FinishEnded, FinishExclusive, FinishBusy, FinishWrite, Release, Goto,
         Unfinished

(* Only a command that starts an operation makes one that is stored. *)
LEMMA StoredStep ==
  ASSUME TypeInv, NEW w \in Workers, WorkerStep(w), op \notin StoredOps, op' \in StoredOps
  PROVE  pc[w] = "run" /\ job[w].kind = "start"
<1>1. 0 \notin StoredOps
  BY OpsAssumption, BoundsAssumption DEF OpsAssumption, Ops, BoundsAssumption
<1>2. op' # op /\ op' # 0
  BY <1>1
<1>3. CASE Run(w)
  BY <1>2, <1>3 DEF Run, Effect, NoEffect, Change, EndOperation, repoVars
<1> QED
  BY <1>2, <1>3
     DEF WorkerStep, Spawn, Acquire, RefuseBusy, RunUnrecorded, AcquireUnavailable, Settle,
         SettleExclusive, SettleBusy, SettleDrop, Begin, Gate, StepExclusive, StepRestore,
         StepRefused, StepError, StepSave, FinishPaused, FinishEnded, FinishExclusive,
         FinishBusy, FinishWrite, Release, repoVars

LEMMA GateInit == Init => GateInv
BY DEF Init, GateInv, KindOK, GuardOK, GateOK, NoJob, NewJob

LEMMA KindNext ==
  ASSUME TypeInv, KindOK, [Next]_vars
  PROVE  KindOK'
<1>1. ASSUME NEW w \in Workers, WorkerStep(w) \/ Crash(w) PROVE KindOK'
  BY <1>1, KindStep DEF KindOK
<1>2. ASSUME NEW w \in Workers, NEW k \in Kinds, Receive(w, k) PROVE KindOK'
  BY <1>2 DEF Receive, NewJob, KindOK, TypeInv, TypeOK, LoopTypeOK
<1>3. CASE Environment \/ UNCHANGED vars
  BY <1>3 DEF Environment, NewerBuild, Edit, TerminalStart, TerminalEnd, vars, KindOK
<1> QED
  BY <1>1, <1>2, <1>3 DEF Next

LEMMA GuardNext ==
  ASSUME LocksWork, "timeout" \notin Env, TypeInv, GuardOK, [Next]_vars
  PROVE  GuardOK'
<1> USE DEF TypeInv, TypeOK, LoopTypeOK
<1>1. ASSUME NEW w \in Workers, WorkerStep(w) PROVE GuardOK'
  <2>1. ASSUME NEW v \in Workers, v # w,
               pc'[v] \notin {"down", "idle", "acquire"}, job'[v].kind \in Locking
        PROVE  guard'[v]
    BY <1>1, <2>1, KindStep DEF GuardOK
  <2>2. pc'[w] \notin {"down", "idle", "acquire"} /\ job'[w].kind \in Locking => guard'[w]
    BY <1>1, GuardStep
  <2> QED
    BY <2>1, <2>2 DEF GuardOK
<1>2. ASSUME NEW w \in Workers, Crash(w) PROVE GuardOK'
  <2>1. pc'[w] = "down"
    BY <1>2 DEF Crash, Goto
  <2> QED
    BY <1>2, <2>1, KindStep DEF GuardOK
<1>3. ASSUME NEW w \in Workers, NEW k \in Kinds, Receive(w, k) PROVE GuardOK'
  <2>1. /\ pc'[w] \in {"acquire", "settle"} /\ (k \in Locking => pc'[w] = "acquire")
        /\ job'[w].kind = k /\ guard' = guard
    BY <1>3 DEF Receive, Goto, NewJob
  <2>2. \A v \in Workers \ {w} : job'[v] = job[v] /\ pc'[v] = pc[v]
    BY <1>3 DEF Receive, Goto
  <2> QED
    BY <2>1, <2>2 DEF GuardOK
<1>4. CASE Environment \/ UNCHANGED vars
  BY <1>4 DEF Environment, NewerBuild, Edit, TerminalStart, TerminalEnd, vars, GuardOK
<1> QED
  BY <1>1, <1>2, <1>3, <1>4 DEF Next

LEMMA GateNext ==
  ASSUME LocksWork, "timeout" \notin Env, "pop" \notin Kinds,
         TypeInv, LockInv, GateInv, [Next]_vars
  PROVE  GateInv'
<1> USE DEF TypeInv, TypeOK, LoopTypeOK
<1>0. 0 \notin StoredOps
  BY OpsAssumption, BoundsAssumption DEF OpsAssumption, Ops, BoundsAssumption
<1>1. ASSUME NEW w \in Workers, WorkerStep(w) PROVE GateInv'
  <2>1. KindOK' /\ GuardOK'
    BY KindNext, GuardNext DEF GateInv
  <2>3. GateOK'
    <3>1. SUFFICES ASSUME NEW v \in Workers, pc'[v] = "run", job'[v].kind \in Gated,
                          ~job'[v].gated
                   PROVE  op' \notin StoredOps
      BY DEF GateOK
    <3>2. CASE v = w
      <4>1. Gate(w)
        BY <1>1, <3>1, <3>2
           DEF WorkerStep, Spawn, Acquire, RefuseBusy, RunUnrecorded, AcquireUnavailable,
               Settle, SettleExclusive, SettleBusy, SettleDrop, Begin, Run, StepExclusive,
               StepRestore, StepRefused, StepError, StepSave, FinishPaused, FinishEnded,
               FinishExclusive, FinishBusy, FinishWrite, Release, Goto, AfterRun
      <4>2. job'[w].kind = job[w].kind
            /\ job'[w].gated = (job[w].kind \in Gated /\ op \in StoredOps)
        BY <4>1 DEF Gate, Jobs
      <4> QED
        BY <3>1, <3>2, <4>1, <4>2 DEF Gate, repoVars
    <3>3. CASE v # w
      <4>1. pc[v] = "run" /\ job[v] = job'[v] /\ op \notin StoredOps
        BY <1>1, <3>1, <3>3, KindStep DEF GateInv, GateOK
      <4>2. guard[v]
        <5>1. job[v].kind \in Locking
          BY <3>1, <4>1 DEF GateInv, KindOK, Gated, Locking, Recorded
        <5> QED
          BY <4>1, <5>1 DEF GateInv, GuardOK
      <4>3. ~guard[w]
        BY <3>3, <4>2 DEF LockInv, LockOK
      <4>4. ~(pc[w] = "run" /\ job[w].kind = "start")
        BY <4>3 DEF GateInv, GuardOK, Locking, Recorded
      <4> QED
        BY <1>1, <4>1, <4>4, StoredStep DEF TypeInv
    <3> QED
      BY <3>2, <3>3
  <2> QED
    BY <2>1, <2>3 DEF GateInv
<1>2. ASSUME NEW w \in Workers, Crash(w) PROVE GateInv'
  <2>1. pc'[w] = "down" /\ op' = op
    BY <1>2 DEF Crash, Goto, repoVars
  <2> QED
    BY <1>2, <2>1, KindStep DEF GateInv, KindOK, GuardOK, GateOK
<1>3. ASSUME NEW w \in Workers, NEW k \in Kinds, Receive(w, k) PROVE GateInv'
  <2>1. pc'[w] \in {"acquire", "settle"} /\ (k \in Locking => pc'[w] = "acquire")
    BY <1>3 DEF Receive, Goto
  <2>2. job'[w].kind = k /\ op' = op /\ guard' = guard
    BY <1>3 DEF Receive, NewJob, repoVars
  <2>3. \A v \in Workers \ {w} : job'[v] = job[v] /\ pc'[v] = pc[v]
    BY <1>3 DEF Receive, Goto
  <2> QED
    BY <2>1, <2>2, <2>3 DEF GateInv, KindOK, GuardOK, GateOK
<1>4. CASE Edit \/ NewerBuild \/ UNCHANGED vars
  BY <1>4 DEF Edit, NewerBuild, vars, Change, repoVars, GateInv, KindOK, GuardOK, GateOK
<1>5. CASE TerminalStart \/ TerminalEnd
  <2>1. op' \notin StoredOps
    BY <1>0, <1>5 DEF TerminalStart, TerminalEnd, PauseOperation, EndOperation
  <2> QED
    BY <1>5, <2>1 DEF TerminalStart, TerminalEnd, GateInv, KindOK, GuardOK, GateOK
<1> QED
  BY <1>1, <1>2, <1>3, <1>4, <1>5 DEF Next, Environment

(* While every window's command gets the lock, and no stash is popped, no  *)
(* command runs into an operation stored after its gate was passed, however *)
(* many windows, crashes and terminal commands there are.                  *)
THEOREM GateHolds ==
  ASSUME LocksWork, "timeout" \notin Env, "pop" \notin Kinds
  PROVE  Spec => GateIsAtomic
<1>1. TypeInv /\ LockInv /\ GateInv /\ [Next]_vars => GateInv'
  BY GateNext
<1>2. TypeInv /\ GateInv /\ [Next]_vars =>
        [\A w \in Workers :
           (pc[w] = "run" /\ pc'[w] # "run" /\ job[w].kind \in Gated
              /\ <<repo, op>>' # <<repo, op>>)
             => op \notin StoredOps]_vars
  <2> SUFFICES ASSUME TypeInv, GateInv, [Next]_vars, NEW w \in Workers,
                      pc[w] = "run", pc'[w] # "run", job[w].kind \in Gated,
                      <<repo, op>>' # <<repo, op>>
               PROVE  op \notin StoredOps
    OBVIOUS
  <2> USE DEF TypeInv, TypeOK, LoopTypeOK
  <2>1. WorkerStep(w)
    <3>1. \A v \in Workers \ {w} : ~WorkerStep(v) /\ ~Crash(v)
      BY KindStep
    <3>2. ~Crash(w)
      BY DEF Crash, repoVars
    <3>3. ASSUME NEW v \in Workers, NEW k \in Kinds, Receive(v, k) PROVE FALSE
      BY <3>3 DEF Receive, repoVars
    <3>4. ~Environment /\ ~UNCHANGED vars
      BY DEF Environment, NewerBuild, Edit, TerminalStart, TerminalEnd, vars
    <3> QED
      BY <3>1, <3>2, <3>3, <3>4 DEF Next
  <2>2. Run(w)
    BY <2>1 DEF WorkerStep, Spawn, Acquire, RefuseBusy, RunUnrecorded, AcquireUnavailable,
       Settle, SettleExclusive, SettleBusy, SettleDrop, Begin, Gate, StepExclusive,
       StepRestore, StepRefused, StepError, StepSave, FinishPaused, FinishEnded,
       FinishExclusive, FinishBusy, FinishWrite, Release, Unfinished, repoVars, Gated
  <2>3. ~job[w].gated
    BY <2>2 DEF Run, Effect, NoEffect, repoVars
  <2> QED
    BY <2>3 DEF GateInv, GateOK
<1>3. Spec => [](TypeInv /\ LockInv)
  BY TypeInvariant, LockInvariant, PTL
<1> QED
  BY <1>1, <1>2, <1>3, GateInit, PTL DEF Spec, GateIsAtomic


-----------------------------------------------------------------------------
(* The plan of a command, and what another worker's step leaves of it.     *)

(* What runs has a kind, a command that found an entry pending is tracked, *)
(* and only a recorded one has a snapshot, until its finish.               *)
PlanOf(w) ==
  /\ pc[w] \notin {"down", "idle"} => job[w].kind \in Kinds
  /\ pc[w] \in {"gate", "run"} /\ cache[w].pending # {} => job[w].track
  /\ active[w] # {} =>
       /\ pc[w] \in {"gate", "run", "finish", "finishWrite"}
       /\ job[w].kind \in Recorded /\ job[w].track

PlanOK == \A w \in Workers : PlanOf(w)

(* A worker's step is its own: the others' commands and recorders stay.    *)
LEMMA OthersKeep ==
  ASSUME TypeInv, LockInv, NEW w \in Workers, NEW v \in Workers, v # w,
         WorkerStep(w) \/ Crash(w)
  PROVE  /\ pc'[v] = pc[v] /\ job'[v] = job[v] /\ guard'[v] = guard[v]
         /\ cache'[v] = cache[v] /\ blocked'[v] = blocked[v]
         /\ active'[v] = active[v] /\ staleOp'[v] = staleOp[v]
<1>1. active'[v] = active[v] /\ staleOp'[v] = staleOp[v]
  BY DEF TypeInv, TypeOK, HistoryTypeOK,
         WorkerStep, Spawn, Acquire, RefuseBusy, RunUnrecorded, AcquireUnavailable, Settle,
         SettleExclusive, SettleBusy, SettleDrop, Begin, Gate, Run, StepExclusive,
         StepRestore, StepRefused, StepError, StepSave, FinishPaused, FinishEnded,
         FinishExclusive, FinishBusy, FinishWrite, Release, Crash, recorderVars
<1> QED
  BY <1>1, KindStep, OtherWorker

(* While a command goes on its kind and what is planned for it stay.       *)
LEMMA JobKeeps ==
  ASSUME TypeInv, NEW w \in Workers, WorkerStep(w)
  PROVE  /\ pc'[w] \notin {"down", "idle"} => job'[w].kind = job[w].kind
         /\ ~Begin(w) /\ pc'[w] \notin {"down", "idle"} => job'[w].track = job[w].track
<1> USE DEF TypeInv, TypeOK, LoopTypeOK
<1>1. CASE RefuseBusy(w) \/ Release(w)
  BY <1>1 DEF RefuseBusy, Release, Goto
<1>2. CASE RunUnrecorded(w) \/ Gate(w)
  BY <1>2 DEF RunUnrecorded, Gate, Jobs
<1>3. CASE Begin(w)
  BY <1>3 DEF Begin, Jobs
<1>4. CASE Run(w)
  BY <1>4 DEF Run, Jobs
<1>5. CASE StepRefused(w) \/ StepError(w) \/ StepSave(w)
  BY <1>5 DEF StepRefused, StepError, StepSave, Jobs
<1>6. CASE UNCHANGED job
  BY <1>6
<1> QED
  BY <1>1, <1>2, <1>3, <1>4, <1>5, <1>6
     DEF WorkerStep, Spawn, Acquire, AcquireUnavailable, Settle, SettleExclusive, SettleBusy,
         SettleDrop, StepExclusive, StepRestore, FinishPaused, FinishEnded, FinishExclusive,
         FinishBusy, FinishWrite

LEMMA PlanStep ==
  ASSUME TypeInv, PlanOK, NEW w \in Workers, WorkerStep(w)
  PROVE  PlanOf(w)'
<1> USE DEF TypeInv, TypeOK, LoopTypeOK, HistoryTypeOK
<1>0. PlanOf(w)
  BY DEF PlanOK
<1>1. CASE Begin(w)
  <2>1. /\ pc[w] = "begin" /\ pc'[w] = "gate" /\ active[w] = {} /\ cache' = cache
        /\ job'[w].kind = job[w].kind
        /\ job'[w].track = (Planned(w) \/ cache[w].pending # {})
        /\ active'[w] # {} => Planned(w)
    BY <1>0, <1>1 DEF Begin, Goto, PlanOf, Jobs
  <2> QED
    BY <1>0, <2>1 DEF PlanOf, Planned
<1>2. CASE Gate(w)
  BY <1>0, <1>2, JobKeeps DEF Gate, Begin, Goto, PlanOf, recorderVars
<1>3. CASE Run(w) \/ StepExclusive(w) \/ StepRestore(w) \/ StepRefused(w) \/ StepError(w)
           \/ StepSave(w)
  <2>1. /\ pc'[w] \in {"step", "stepSave", "finish", "release"} /\ active' = active
        /\ pc[w] \in {"run", "step", "stepSave"} /\ ~Begin(w)
        /\ active[w] # {} => pc'[w] = "finish"
    BY <1>0, <1>3 DEF Run, StepExclusive, StepRestore, StepRefused, StepError, StepSave, Begin,
                      Goto, AfterRun, PlanOf, recorderVars, Recorded
  <2> QED
    BY <1>0, <2>1, JobKeeps DEF PlanOf
<1>4. CASE FinishPaused(w) \/ FinishEnded(w) \/ FinishExclusive(w) \/ FinishBusy(w)
           \/ FinishWrite(w) \/ Release(w)
  <2>1. /\ pc'[w] \in {"finishLock", "finishWrite", "release", "idle"} /\ ~Begin(w)
        /\ pc[w] \in {"finish", "finishLock", "finishWrite", "release"}
        /\ active'[w] \in {active[w], {}}
        /\ active'[w] # {} => pc'[w] = "finishWrite"
    BY <1>0, <1>4 DEF FinishPaused, FinishEnded, FinishExclusive, FinishBusy, FinishWrite,
                      Release, Begin, Unfinished, Goto, PlanOf, recorderVars
  <2> QED
    BY <1>0, <2>1, JobKeeps DEF PlanOf
<1>5. CASE Spawn(w) \/ Acquire(w) \/ RefuseBusy(w) \/ RunUnrecorded(w) \/ AcquireUnavailable(w)
           \/ Settle(w) \/ SettleExclusive(w) \/ SettleBusy(w) \/ SettleDrop(w)
  <2>1. /\ pc'[w] \in {"idle", "settle", "settleLock", "settleDrop", "begin"} /\ ~Begin(w)
        /\ pc[w] \in {"down", "acquire", "settle", "settleLock", "settleDrop"}
        /\ active' = active /\ (pc[w] = "down" => pc'[w] = "idle")
    BY <1>5 DEF Spawn, Acquire, RefuseBusy, RunUnrecorded, AcquireUnavailable, Settle,
                SettleExclusive, SettleBusy, SettleDrop, Begin, Goto, recorderVars
  <2> QED
    BY <1>0, <2>1, JobKeeps DEF PlanOf
<1> QED
  BY <1>1, <1>2, <1>3, <1>4, <1>5 DEF WorkerStep

LEMMA PlanNext ==
  ASSUME TypeInv, LockInv, PlanOK, [Next]_vars
  PROVE  PlanOK'
<1> USE DEF TypeInv, TypeOK, LoopTypeOK, HistoryTypeOK
<1>1. ASSUME NEW w \in Workers, WorkerStep(w) \/ Crash(w) PROVE PlanOK'
  <2>1. PlanOf(w)'
    <3>1. CASE Crash(w)
      BY <3>1 DEF Crash, Goto, PlanOf
    <3> QED
      BY <1>1, <3>1, PlanStep
  <2>2. ASSUME NEW v \in Workers, v # w PROVE PlanOf(v)'
    BY <1>1, <2>2, OthersKeep DEF PlanOK, PlanOf
  <2> QED
    BY <2>1, <2>2 DEF PlanOK
<1>2. ASSUME NEW w \in Workers, NEW k \in Kinds, Receive(w, k) PROVE PlanOK'
  <2>1. /\ pc'[w] \in {"acquire", "settle"} /\ job'[w].kind = k /\ pc[w] = "idle"
        /\ UNCHANGED <<cache, active>>
        /\ \A v \in Workers \ {w} : job'[v] = job[v] /\ pc'[v] = pc[v]
    BY <1>2 DEF Receive, Goto, NewJob, recorderVars
  <2> QED
    BY <2>1 DEF PlanOK, PlanOf
<1>3. CASE Environment \/ UNCHANGED vars
  BY <1>3 DEF Environment, NewerBuild, Edit, TerminalStart, TerminalEnd, vars, recorderVars,
              PlanOK, PlanOf
<1> QED
  BY <1>1, <1>2, <1>3 DEF Next


-----------------------------------------------------------------------------
(* What a step writes into undo.json: the edits of a current writer.       *)

(* What the worker saves reaches the file. *)
Lands(w) == file' # file \/ (~blocked[w] /\ "saveFails" \notin Env)

Drops ==
  /\ file'.stacks.undo = file.stacks.undo /\ file'.stacks.redo = file.stacks.redo
  /\ file'.stacks.pending = {}

Pushes(e) ==
  /\ e \in Entries
  /\ file'.stacks.undo = Newest(Append(file.stacks.undo, e)) /\ file'.stacks.redo = <<>>

(* The operation that was pending is aborted, or had ended before, or has  *)
(* changed nothing.                                                        *)
Forgets(w) ==
  /\ Drops
  /\ \/ SettleDrop(w)
     \/ job[w].kind = "abort" \/ staleOp[w] # {}
     \/ "captureFails" \in Env \/ \E p \in file.stacks.pending : repo = p.before

Pauses(w) ==
  /\ FinishWrite(w) /\ op # 0
  /\ file'.stacks.undo = file.stacks.undo /\ file'.stacks.redo = file.stacks.redo
  /\ \E b \in active[w] :
       file'.stacks.pending = {[cmd |-> job[w].id, op |-> op, before |-> b]}

RecordsOwn(w) ==
  /\ FinishWrite(w) /\ op = 0
  /\ \E b \in active[w] : Pushes(Entry(job[w].id, 0, b))
  /\ file'.stacks.pending = file.stacks.pending

RecordsPending(w) ==
  /\ FinishWrite(w) /\ op = 0 /\ active[w] = {} /\ job[w].kind # "abort"
  /\ \E p \in file.stacks.pending :
       /\ MarkerOf[p.op] \notin staleOp[w]
       /\ Pushes(Entry(p.cmd, p.op, p.before))
  /\ file'.stacks.pending = {}

(* Nothing to write: the command has changed nothing, or an operation is   *)
(* still paused, or none was.                                              *)
LeavesAlone(w) ==
  /\ FinishWrite(w) /\ file' = file
  /\ IF active[w] # {}
     THEN op = 0 /\ ("captureFails" \in Env \/ \E b \in active[w] : repo = b)
     ELSE op # 0 \/ file.stacks.pending = {}

Edits(w) ==
  \/ Forgets(w)
  \/ Pauses(w)
  \/ StepSave(w) /\ file'.stacks = Moved(w)
  \/ RecordsOwn(w)
  \/ RecordsPending(w)

(* A write that takes place. *)
LEMMA PersistEdit ==
  ASSUME NEW w \in Workers, NEW s, Persist(w, s), Lands(w), cache \in [Workers -> Stacks]
  PROVE  /\ ~blocked[w] /\ cache'[w] = s
         /\ file' = [newer |-> FALSE, stacks |-> s]
BY DEF Persist, Lands

(* What recording an entry writes. *)
LEMMA RecordEdit ==
  ASSUME TypeInv, NEW w \in Workers, Current(w), Lands(w),
         NEW c \in 1..MaxCmds, NEW k \in 0..MaxOps, NEW b \in Snapshots,
         NEW ends \in BOOLEAN, Record(w, c, k, b, ends)
  PROVE  /\ ~blocked[w] /\ cache'[w] = file'.stacks /\ ~file'.newer
         /\ file'.stacks.pending = IF ends THEN {} ELSE file.stacks.pending
         /\ \/ Pushes(Entry(c, k, b))
            \/ /\ repo = b \/ "captureFails" \in Env
               /\ IF ends THEN Drops ELSE file' = file
<1> DEFINE s == cache[w]
           kept == [s EXCEPT !.pending = IF ends THEN {} ELSE @]
           e == Entry(c, k, b)
           recorded == [kept EXCEPT !.undo = Newest(Append(@, e)), !.redo = <<>>]
<1> USE DEF TypeInv, TypeOK, HistoryTypeOK
<1>1. s \in Stacks /\ s.undo \in Seq(Entries) /\ e \in Entries
  BY StacksProperties, EntryType DEF RepoTypeOK
<1>2. /\ kept.undo = s.undo /\ kept.redo = s.redo
      /\ kept.pending = IF ends THEN {} ELSE s.pending
  BY <1>1 DEF Stacks
<1>3. /\ recorded.undo = Newest(Append(s.undo, e))
      /\ recorded.redo = <<>>
      /\ recorded.pending = IF ends THEN {} ELSE s.pending
  BY <1>1 DEF Stacks
<1>4. \/ Persist(w, recorded)
      \/ /\ repo = b \/ "captureFails" \in Env
         /\ IF ends THEN Persist(w, kept) ELSE Keep /\ UNCHANGED file
  BY DEF Record, recorded, kept, e
<1> HIDE DEF kept, recorded, e
<1>5. CASE Persist(w, recorded)
  <2>1. /\ ~blocked[w] /\ cache'[w] = recorded
        /\ file'.stacks = recorded /\ file'.newer = FALSE
    BY <1>5, PersistEdit
  <2>2. s = file.stacks
    BY <2>1 DEF Current
  <2>3. Pushes(e)
    BY <1>1, <1>3, <2>1, <2>2 DEF Pushes
  <2> QED
    BY <1>3, <2>1, <2>2, <2>3 DEF e
<1>6. CASE /\ repo = b \/ "captureFails" \in Env
           /\ Persist(w, kept) /\ ends
  <2>1. /\ ~blocked[w] /\ cache'[w] = kept
        /\ file'.stacks = kept /\ file'.newer = FALSE
    BY <1>6, PersistEdit
  <2>2. s = file.stacks
    BY <2>1 DEF Current
  <2> QED
    BY <1>2, <1>6, <2>1, <2>2 DEF Drops
<1>7. CASE /\ repo = b \/ "captureFails" \in Env
           /\ Keep /\ UNCHANGED file /\ ~ends
  BY <1>7 DEF Lands, Keep, Current
<1> QED
  BY <1>4, <1>5, <1>6, <1>7

(* What a finish writes. *)
LEMMA FinishEdit ==
  ASSUME TypeInv, NEW w \in Workers, Current(w), Lands(w), FinishWrite(w)
  PROVE  /\ ~blocked[w] /\ cache'[w] = file'.stacks /\ ~file'.newer
         /\ \/ Forgets(w) /\ op = 0 /\ active[w] = {}
            \/ Pauses(w) \/ RecordsOwn(w) \/ RecordsPending(w) \/ LeavesAlone(w)
<1> USE DEF TypeInv, TypeOK, HistoryTypeOK
<1>0. MaxCmds \in Nat /\ MaxOps \in Nat /\ 0 \in 0..MaxOps
  BY BoundsAssumption DEF BoundsAssumption
<1>1. job[w].id \in 1..MaxCmds
  <2>1. job[w].id \in 0..MaxCmds /\ job[w].id # 0
    BY JobTypes DEF FinishWrite, JobOK, LoopTypeOK
  <2> QED
    BY <1>0, <2>1
<1>2. CASE active[w] # {}
  <2>1. PICK b \in active[w] :
          IF op # 0
          THEN Persist(w, [cache[w] EXCEPT
                             !.pending = {[cmd |-> job[w].id, op |-> op, before |-> b]}])
          ELSE Record(w, job[w].id, 0, b, FALSE)
    BY <1>2 DEF FinishActive, FinishWrite
  <2>2. b \in Snapshots
    OBVIOUS
  <2>3. CASE op # 0
    <3> DEFINE q == [cmd |-> job[w].id, op |-> op, before |-> b]
               t == [cache[w] EXCEPT !.pending = {q}]
    <3>1. t.undo = cache[w].undo /\ t.redo = cache[w].redo /\ t.pending = {q}
      BY DEF Stacks
    <3>2. Persist(w, t)
      BY <2>1, <2>3
    <3> HIDE DEF q, t
    <3>3. /\ ~blocked[w] /\ cache'[w] = t /\ file'.stacks = t /\ file'.newer = FALSE
          /\ cache[w] = file.stacks
      BY <3>2, PersistEdit DEF Current
    <3>4. Pauses(w)
      BY <2>3, <3>1, <3>3 DEF Pauses, q
    <3> QED
      BY <3>3, <3>4
  <2>4. CASE op = 0
    <3>1. Record(w, job[w].id, 0, b, FALSE)
      BY <2>1, <2>4
    <3>2. /\ ~blocked[w] /\ ~file'.newer /\ cache'[w] = file'.stacks
          /\ file'.stacks.pending = file.stacks.pending
          /\ \/ Pushes(Entry(job[w].id, 0, b))
             \/ (repo = b \/ "captureFails" \in Env) /\ file' = file
      BY <1>0, <1>1, <2>2, <3>1, RecordEdit
    <3>3. RecordsOwn(w) \/ LeavesAlone(w)
      BY <1>2, <2>4, <3>2 DEF RecordsOwn, LeavesAlone
    <3> QED
      BY <3>2, <3>3
  <2> QED
    BY <2>3, <2>4
<1>3. CASE active[w] = {} /\ (op # 0 \/ cache[w].pending = {})
  <2>1. Keep /\ UNCHANGED file
    BY <1>3 DEF FinishWrite, FinishPending
  <2> QED
    BY <1>3, <2>1 DEF Keep, Lands, Current, LeavesAlone
<1>4. CASE active[w] = {} /\ op = 0 /\ cache[w].pending # {}
  <2>1. PICK p \in cache[w].pending :
          IF job[w].kind = "abort" \/ MarkerOf[p.op] \in staleOp[w]
          THEN Persist(w, [cache[w] EXCEPT !.pending = {}])
          ELSE Record(w, p.cmd, p.op, p.before, TRUE)
    BY <1>4 DEF FinishWrite, FinishPending
  <2>2. CASE /\ job[w].kind = "abort" \/ MarkerOf[p.op] \in staleOp[w]
             /\ Persist(w, [cache[w] EXCEPT !.pending = {}])
    <3> DEFINE t == [cache[w] EXCEPT !.pending = {}]
    <3>1. t.undo = cache[w].undo /\ t.redo = cache[w].redo /\ t.pending = {}
      BY DEF Stacks
    <3> HIDE DEF t
    <3>2. /\ ~blocked[w] /\ cache'[w] = t /\ file'.stacks = t /\ file'.newer = FALSE
          /\ cache[w] = file.stacks
      BY <2>2, PersistEdit DEF Current, t
    <3> QED
      BY <1>4, <2>2, <3>1, <3>2 DEF Drops, Forgets
  <2>3. CASE /\ ~(job[w].kind = "abort" \/ MarkerOf[p.op] \in staleOp[w])
             /\ Record(w, p.cmd, p.op, p.before, TRUE)
    <3>1. p \in PendingEntries
      BY StacksProperties
    <3>2. p.cmd \in 1..MaxCmds /\ p.op \in 0..MaxOps /\ p.before \in Snapshots
      BY <1>0, <3>1 DEF PendingEntries, Ops
    <3>3. /\ ~blocked[w] /\ ~file'.newer /\ cache'[w] = file'.stacks
          /\ file'.stacks.pending = {}
          /\ \/ Pushes(Entry(p.cmd, p.op, p.before))
             \/ (repo = p.before \/ "captureFails" \in Env) /\ Drops
      <4>1. /\ ~blocked[w] /\ cache'[w] = file'.stacks /\ ~file'.newer
            /\ file'.stacks.pending = IF TRUE THEN {} ELSE file.stacks.pending
            /\ \/ Pushes(Entry(p.cmd, p.op, p.before))
               \/ /\ repo = p.before \/ "captureFails" \in Env
                  /\ IF TRUE THEN Drops ELSE file' = file
        BY <2>3, <3>2, RecordEdit, ZenonT(60)
      <4> QED
        BY <4>1
    <3>4. p \in file.stacks.pending
      BY <3>3 DEF Current
    <3>5. RecordsPending(w) \/ Forgets(w)
      BY <1>4, <2>3, <3>3, <3>4 DEF RecordsPending, Forgets
    <3> QED
      BY <1>4, <3>3, <3>5
  <2> QED
    BY <2>1, <2>2, <2>3
<1> QED
  BY <1>2, <1>3, <1>4

(* What any step of a worker writes. *)
LEMMA FileStep ==
  ASSUME TypeInv, NEW w \in Workers, pc[w] \in Writing => Current(w),
         WorkerStep(w), file' # file
  PROVE  /\ pc[w] \in Writing /\ ~blocked[w] /\ ~file'.newer /\ cache'[w] = file'.stacks
         /\ cache[w] = file.stacks /\ ~file.newer /\ blocked' = blocked
         /\ Edits(w)
<1> USE DEF TypeInv, TypeOK, HistoryTypeOK
<1>0. Lands(w)
  BY DEF Lands
<1>1. SettleDrop(w) \/ StepSave(w) \/ FinishWrite(w)
  BY DEF WorkerStep, Spawn, Acquire, RefuseBusy, RunUnrecorded, AcquireUnavailable,
         Settle, SettleExclusive, SettleBusy, Begin, Gate, Run, StepExclusive,
         StepRestore, StepRefused, StepError, FinishPaused, FinishEnded, FinishExclusive,
         FinishBusy, Release
<1>2. pc[w] \in Writing /\ Current(w)
  BY <1>1 DEF SettleDrop, StepSave, FinishWrite, Writing
<1>3. blocked' = blocked
  BY <1>1 DEF SettleDrop, StepSave, FinishWrite, FinishActive, FinishPending, Record, Persist,
              Keep
<1>4. CASE SettleDrop(w)
  <2> DEFINE t == [cache[w] EXCEPT !.pending = {}]
  <2>1. t.undo = cache[w].undo /\ t.redo = cache[w].redo /\ t.pending = {}
    BY DEF Stacks
  <2>2. Persist(w, t)
    BY <1>4 DEF SettleDrop
  <2> HIDE DEF t
  <2>3. /\ ~blocked[w] /\ cache'[w] = t /\ file'.stacks = t /\ file'.newer = FALSE
        /\ cache[w] = file.stacks /\ ~file.newer
    BY <1>0, <1>2, <2>2, PersistEdit DEF Current
  <2> QED
    BY <1>2, <1>3, <1>4, <2>1, <2>3 DEF Drops, Forgets, Edits
<1>5. CASE StepSave(w)
  <2>1. Persist(w, Moved(w))
    BY <1>5 DEF StepSave
  <2>2. /\ ~blocked[w] /\ cache'[w] = Moved(w) /\ file'.stacks = Moved(w)
        /\ file'.newer = FALSE /\ cache[w] = file.stacks /\ ~file.newer
    BY <1>0, <1>2, <2>1, PersistEdit DEF Current
  <2> QED
    BY <1>2, <1>3, <1>5, <2>2 DEF Edits
<1>6. CASE FinishWrite(w)
  <2>1. ~LeavesAlone(w)
    BY DEF LeavesAlone
  <2> QED
    BY <1>0, <1>2, <1>3, <1>6, <2>1, FinishEdit DEF Edits, Current
<1> QED
  BY <1>1, <1>4, <1>5, <1>6

-----------------------------------------------------------------------------
(* An entry and its command: while every command of every window gets the  *)
(* lock, the holder of a snapshot is alone with the repository.            *)

(* Before its command has run no window has a reply; nothing but the       *)
(* command itself comes between the snapshot and the entry.                *)
ReplyOf(w) ==
  pc[w] \in {"acquire", "settle", "settleLock", "settleDrop", "begin", "gate", "run", "step",
             "stepSave"} => ~job[w].replied

TakenOf(w) ==
  \A b \in active[w] :
    /\ pc[w] \in {"gate", "run"} => repo = b
    /\ pc[w] \in {"finish", "finishWrite"} =>
         \A r \in job[w].result : r.from = b /\ r.to = repo
    /\ ~job[w].replied

SpanOf(w) == ReplyOf(w) /\ TakenOf(w)

SpanOK == \A w \in Workers : SpanOf(w)

(* A reply is given by the command, or after it. *)
LEMMA ReplyStep ==
  ASSUME TypeInv, SpanOK, NEW w \in Workers, WorkerStep(w)
  PROVE  ReplyOf(w)'
<1> USE DEF TypeInv, TypeOK, LoopTypeOK
<1>0. ReplyOf(w)
  BY DEF SpanOK, SpanOf
<1>1. CASE RunUnrecorded(w) \/ Begin(w) \/ Gate(w)
  BY <1>0, <1>1 DEF RunUnrecorded, Begin, Gate, Jobs, ReplyOf
<1>2. CASE /\ UNCHANGED job
           /\ pc[w] \in {"acquire", "settle", "settleLock", "settleDrop", "begin", "gate", "run",
                        "step", "stepSave"}
  BY <1>0, <1>2 DEF ReplyOf
<1>3. CASE pc'[w] \in {"idle", "finish", "finishLock", "finishWrite", "release"}
  BY <1>3 DEF ReplyOf
<1> QED
  BY <1>1, <1>2, <1>3
     DEF WorkerStep, Spawn, Acquire, RefuseBusy, AcquireUnavailable, Settle, SettleExclusive,
         SettleBusy, SettleDrop, Run, StepExclusive, StepRestore, StepRefused, StepError,
         StepSave, FinishPaused, FinishEnded, FinishExclusive, FinishBusy, FinishWrite,
         Release, Goto, AfterRun

(* A snapshot is taken before the command, and what it changes comes after. *)
LEMMA TakenStep ==
  ASSUME TypeInv, PlanOK, SpanOK, NEW w \in Workers, WorkerStep(w)
  PROVE  TakenOf(w)'
<1> USE DEF TypeInv, TypeOK, LoopTypeOK, HistoryTypeOK
<1>0. PlanOf(w) /\ ReplyOf(w) /\ TakenOf(w)
  BY DEF PlanOK, SpanOK, SpanOf
<1>1. CASE Begin(w)
  <2>1. /\ pc'[w] = "gate" /\ repo' = repo /\ active[w] = {}
        /\ active'[w] \in {{repo}, {}}
        /\ job'[w].replied = job[w].replied
    BY <1>0, <1>1 DEF Begin, Goto, PlanOf, Jobs, repoVars
  <2>2. ~job'[w].replied
    BY <1>0, <1>1, <2>1 DEF Begin, ReplyOf
  <2> QED
    BY <2>1, <2>2 DEF TakenOf
<1>2. CASE active[w] = {} /\ ~Begin(w)
  <2>1. active'[w] = {}
    BY <1>2 DEF WorkerStep, Spawn, Acquire, RefuseBusy, RunUnrecorded, AcquireUnavailable,
         Settle, SettleExclusive, SettleBusy, SettleDrop, Gate, Run, StepExclusive,
         StepRestore, StepRefused, StepError, StepSave, FinishPaused, FinishEnded,
         FinishExclusive, FinishBusy, FinishWrite, Release, recorderVars
  <2> QED
    BY <2>1 DEF TakenOf
<1>3. CASE active[w] # {} /\ Gate(w)
  <2>1. /\ pc[w] = "gate" /\ pc'[w] = "run" /\ repo' = repo /\ active' = active
        /\ job'[w].replied = job[w].replied
    BY <1>3 DEF Gate, Goto, Jobs, repoVars, recorderVars
  <2> QED
    BY <1>0, <2>1 DEF TakenOf
<1>4. CASE active[w] # {} /\ Run(w)
  <2>1. job[w].track /\ job[w].kind \in HeldReply
    BY <1>0, <1>4 DEF PlanOf, HeldReply
  <2>2. /\ pc[w] = "run" /\ pc'[w] = "finish" /\ active' = active
        /\ ~job'[w].replied
        /\ job'[w].result = {[from |-> repo, to |-> repo']}
    BY <1>4, <2>1 DEF Run, Goto, AfterRun, Jobs, recorderVars
  <2> QED
    BY <1>0, <2>2 DEF TakenOf
<1>5. CASE active[w] # {} /\ FinishExclusive(w)
  <2>1. /\ pc[w] = "finish" /\ pc'[w] = "finishWrite" /\ repo' = repo
        /\ active' = active /\ job' = job
    BY <1>0, <1>5 DEF FinishExclusive, Goto, PlanOf, Unfinished, repoVars
  <2> QED
    BY <1>0, <2>1 DEF TakenOf
<1>6. CASE FinishBusy(w) \/ FinishWrite(w)
  <2>1. active'[w] = {}
    BY <1>6 DEF FinishBusy, FinishWrite
  <2> QED
    BY <2>1 DEF TakenOf
<1> QED
  BY <1>0, <1>1, <1>2, <1>3, <1>4, <1>5, <1>6
     DEF PlanOf, Recorded, WorkerStep, Spawn, Acquire, RefuseBusy, RunUnrecorded,
         AcquireUnavailable, Settle, SettleExclusive, SettleBusy, SettleDrop,
         StepExclusive, StepRestore, StepRefused, StepError, StepSave, FinishPaused,
         FinishEnded, Release

LEMMA SpanNext ==
  ASSUME LocksWork, "terminal" \notin Env, Kinds \subseteq Locking,
         TypeInv, LockInv, GuardOK, PlanOK, SpanOK, [Next]_vars
  PROVE  SpanOK'
<1> USE DEF TypeInv, TypeOK, LoopTypeOK, HistoryTypeOK
<1>0. \A v \in Workers : PlanOf(v) /\ ReplyOf(v) /\ TakenOf(v)
  BY DEF PlanOK, SpanOK, SpanOf
<1>1. ASSUME NEW w \in Workers, WorkerStep(w) \/ Crash(w) PROVE SpanOK'
  <2>1. SpanOf(w)'
    <3>1. CASE Crash(w)
      BY <3>1 DEF Crash, Goto, SpanOf, ReplyOf, TakenOf
    <3> QED
      BY <1>1, <3>1, ReplyStep, TakenStep DEF SpanOf
  <2>2. ASSUME NEW v \in Workers, v # w PROVE SpanOf(v)'
    <3>1. /\ pc'[v] = pc[v] /\ job'[v] = job[v] /\ active'[v] = active[v]
      BY <1>1, <2>2, OthersKeep
    <3>2. ReplyOf(v)'
      BY <1>0, <3>1 DEF ReplyOf
    <3>3. CASE active[v] = {}
      BY <3>1, <3>3, <3>2 DEF SpanOf, TakenOf
    <3>4. CASE active[v] # {}
      <4>1. guard[v] /\ ~guard[w]
        BY <1>0, <2>2, <3>4 DEF PlanOf, GuardOK, LockInv, LockOK, Locking
      <4>2. pc[w] \in {"down", "idle", "acquire"}
        BY <1>0, <4>1 DEF PlanOf, GuardOK
      <4>3. repo' = repo
        BY <1>1, <4>2
           DEF WorkerStep, Spawn, Acquire, RefuseBusy, RunUnrecorded, AcquireUnavailable,
               Settle, SettleExclusive, SettleBusy, SettleDrop, Begin, Gate, Run,
               StepExclusive, StepRestore, StepRefused, StepError, StepSave, FinishPaused,
               FinishEnded, FinishExclusive, FinishBusy, FinishWrite, Release, Crash,
               Unfinished, repoVars
      <4> QED
        BY <1>0, <3>1, <3>2, <4>3 DEF SpanOf, TakenOf
    <3> QED
      BY <3>3, <3>4
  <2> QED
    BY <2>1, <2>2 DEF SpanOK
<1>2. ASSUME NEW w \in Workers, NEW k \in Kinds, Receive(w, k) PROVE SpanOK'
  <2>1. /\ pc[w] = "idle" /\ active[w] = {} /\ ~job'[w].replied
        /\ UNCHANGED <<repo, active>>
        /\ \A v \in Workers \ {w} : job'[v] = job[v] /\ pc'[v] = pc[v]
    BY <1>0, <1>2 DEF Receive, Goto, NewJob, recorderVars, repoVars, PlanOf
  <2> QED
    BY <1>0, <2>1 DEF SpanOK, SpanOf, ReplyOf, TakenOf
<1>3. CASE Edit
  <2>1. \A v \in Workers : active[v] = {}
    BY <1>0, <1>3 DEF Edit, PlanOf, TakenOf
  <2> QED
    BY <1>0, <1>3, <2>1 DEF Edit, recorderVars, SpanOK, SpanOf, ReplyOf, TakenOf
<1>4. CASE NewerBuild \/ UNCHANGED vars
  BY <1>0, <1>4 DEF NewerBuild, vars, repoVars, SpanOK, SpanOf, ReplyOf, TakenOf
<1> QED
  BY <1>1, <1>2, <1>3, <1>4 DEF Next, Environment, TerminalStart, TerminalEnd

(* The entry that a finish puts on top spans the snapshot and the present. *)
LEMMA EntryStep ==
  ASSUME LocksWork, TypeInv, LockInv, PlanOK, SpanOK,
         NEW w \in Workers, FinishWrite(w), active[w] # {},
         file'.stacks.undo # file.stacks.undo
  PROVE  \A r \in job[w].result, p \in DOMAIN Last(file'.stacks.undo).after :
           /\ Last(file'.stacks.undo).before[p] = r.from[p]
           /\ Last(file'.stacks.undo).after[p] = r.to[p]
<1> USE DEF TypeInv, TypeOK, LoopTypeOK, HistoryTypeOK
<1>1. RecordsOwn(w)
  <2>1. pc[w] = "finishWrite" /\ Current(w) /\ WorkerStep(w) /\ file' # file
    BY DEF FinishWrite, WorkerStep, LockInv, WriterOK, Writing, Current
  <2> QED
    BY <2>1, FileStep DEF Edits, Forgets, Drops, Pauses, StepSave, RecordsPending
<1>2. PICK b \in active[w] : Pushes(Entry(job[w].id, 0, b))
  BY <1>1 DEF RecordsOwn
<1> DEFINE e == Entry(job[w].id, 0, b)
<1>3. file.stacks.undo \in Seq(Entries)
  BY StacksProperties
<1>4. Last(file'.stacks.undo) = e
  BY <1>2, <1>3, PushProperties DEF Pushes
<1>5. \A r \in job[w].result : r.from = b /\ r.to = repo
  BY DEF SpanOK, SpanOf, TakenOf, FinishWrite
<1>6. \A p \in DOMAIN e.after : e.before[p] = b[p] /\ e.after[p] = repo[p]
  BY DEF Entry
<1> QED
  BY <1>4, <1>5, <1>6

(* While every command gets the lock for itself, and no terminal works     *)
(* beside it, an undo entry spans its own command: what another window's   *)
(* command or the user's next edit changed is never part of it.            *)
THEOREM EntriesSpanTheirCommands ==
  ASSUME LocksWork, "timeout" \notin Env, "terminal" \notin Env, Kinds \subseteq Locking
  PROVE  Spec => EntryIsItsCommands
<1> DEFINE SpanInv == KindOK /\ GuardOK /\ PlanOK /\ SpanOK
           EntryOf(w) ==
             (pc[w] = "finishWrite" /\ active[w] # {} /\ file'.stacks.undo # file.stacks.undo) =>
               LET e == Last(file'.stacks.undo)
               IN  \A r \in job[w].result, p \in DOMAIN e.after :
                     e.before[p] = r.from[p] /\ e.after[p] = r.to[p]
<1>1. Init => SpanInv
  BY DEF Init, KindOK, GuardOK, PlanOK, PlanOf, SpanOK, SpanOf, ReplyOf, TakenOf, NoJob, NewJob
<1>2. TypeInv /\ LockInv /\ SpanInv /\ [Next]_vars => SpanInv'
  BY KindNext, GuardNext, PlanNext, SpanNext
<1>3. TypeInv /\ LockInv /\ SpanInv /\ [Next]_vars => [\A w \in Workers : EntryOf(w)]_vars
  <2> SUFFICES ASSUME TypeInv, LockInv, SpanInv, [Next]_vars, NEW w \in Workers,
                      pc[w] = "finishWrite", active[w] # {},
                      file'.stacks.undo # file.stacks.undo
               PROVE  EntryOf(w)
    OBVIOUS
  <2>1. lock = w /\ lock # NoHolder
    BY WorkersAssumption DEF LockInv, WriterOK, Writing, WorkersAssumption
  <2>2. \A v \in Workers \ {w} : ~WorkerStep(v) /\ ~Crash(v)
    BY <2>1, OtherWorker
  <2>3. ~Crash(w) /\ ~Environment /\ ~UNCHANGED vars
    BY <2>1 DEF Crash, Environment, NewerBuild, Edit, TerminalStart, TerminalEnd, vars
  <2>4. \A v \in Workers, k \in Kinds : ~Receive(v, k)
    BY DEF Receive
  <2>5. WorkerStep(w)
    BY <2>2, <2>3, <2>4 DEF Next
  <2>6. FinishWrite(w)
    BY <2>5 DEF WorkerStep, Spawn, Acquire, RefuseBusy, RunUnrecorded, AcquireUnavailable,
       Settle, SettleExclusive, SettleBusy, SettleDrop, Begin, Gate, Run, StepExclusive,
       StepRestore, StepRefused, StepError, StepSave, FinishPaused, FinishEnded,
       FinishExclusive, FinishBusy, Release, Unfinished
  <2> QED
    BY <2>6, EntryStep
<1>4. Spec => [](TypeInv /\ LockInv)
  BY TypeInvariant, LockInvariant, PTL
<1> QED
  BY <1>1, <1>2, <1>3, <1>4, PTL DEF Spec, EntryIsItsCommands

-----------------------------------------------------------------------------
(* How operations end, whatever the step.                                  *)

SameOps == UNCHANGED <<op, opCount, outcome>>

StartsOp ==
  /\ op = 0 /\ opCount < MaxOps
  /\ opCount' = opCount + 1 /\ op' = opCount'
  /\ outcome' = [outcome EXCEPT ![op'] = "paused"]

EndsOp(how) ==
  /\ op # 0 /\ op' = 0 /\ opCount' = opCount
  /\ outcome' = [outcome EXCEPT ![op] = how]

(* Only a command that runs starts or ends an operation, and only of its   *)
(* own kind.                                                               *)
LEMMA WorkerOps ==
  ASSUME TypeInv, NEW w \in Workers, WorkerStep(w)
  PROVE  \/ SameOps
         \/ /\ Run(w)
            /\ \/ job[w].kind = "start" /\ StartsOp
               \/ job[w].kind \in {"commit", "continue"} /\ EndsOp("finished")
               \/ job[w].kind = "abort" /\ EndsOp("aborted")
<1>1. CASE Run(w)
  BY <1>1 DEF Run, Effect, NoEffect, Change, PauseOperation, EndOperation, repoVars, SameOps,
              StartsOp, EndsOp, NeedsNoOperation
<1> QED
  BY <1>1 DEF SameOps, repoVars,
     WorkerStep, Spawn, Acquire, RefuseBusy, RunUnrecorded, AcquireUnavailable, Settle,
     SettleExclusive, SettleBusy, SettleDrop, Begin, Gate, StepExclusive, StepRestore,
     StepRefused, StepError, StepSave, FinishPaused, FinishEnded, FinishExclusive,
     FinishBusy, FinishWrite, Release

(* And a terminal, of its own. *)
LEMMA NextOps ==
  ASSUME TypeInv, [Next]_vars
  PROVE  \/ SameOps
         \/ StartsOp
         \/ \E how \in {"finished", "aborted", "outside"} : EndsOp(how)
<1>1. ASSUME NEW w \in Workers, WorkerStep(w)
      PROVE  SameOps \/ StartsOp \/ EndsOp("finished") \/ EndsOp("aborted")
  BY <1>1, WorkerOps
<1>2. ASSUME NEW w \in Workers, Crash(w) PROVE SameOps
  BY <1>2 DEF Crash, repoVars, SameOps
<1>3. ASSUME NEW w \in Workers, NEW k \in Kinds, Receive(w, k) PROVE SameOps
  BY <1>3 DEF Receive, repoVars, SameOps
<1>4. CASE Environment \/ UNCHANGED vars
  BY <1>4 DEF Environment, NewerBuild, Edit, TerminalStart, TerminalEnd, PauseOperation,
              EndOperation, Change, vars, repoVars, SameOps, StartsOp, EndsOp
<1> QED
  BY <1>1, <1>2, <1>3, <1>4 DEF Next

(* Exactly the operation in progress is paused, those to come are unused,  *)
(* and the pending entry is of one that has been started.                  *)
OutcomeOK ==
  /\ \A k \in Ops : outcome[k] = "unused" <=> k > opCount
  /\ \A k \in Ops : outcome[k] = "paused" <=> k = op
  /\ \A p \in file.stacks.pending : p.op <= opCount

(* A step to be saved leaves nothing pending. *)
LEMMA MovedKeeps ==
  ASSUME TypeInv, NEW w \in Workers, pc[w] = "stepSave"
  PROVE  Moved(w) \in Stacks /\ Moved(w).pending = {}
<1>1. Source(w) # <<>> /\ cache[w].pending = {} /\ cache[w] \in Stacks
  BY DEF TypeInv, TypeOK, HistoryTypeOK, JobOK
<1>2. Moved(w) \in Stacks
  BY <1>1, MovedType DEF TypeInv, TypeOK, HistoryTypeOK
<1>3. Moved(w).pending = cache[w].pending
  BY <1>1 DEF Moved, Stacks
<1> QED
  BY <1>1, <1>2, <1>3

(* Only the operation in progress becomes the pending one. *)
LEMMA PendingFrom ==
  ASSUME TypeInv, [Next]_vars, \A w \in Workers : pc[w] \in Writing => Current(w)
  PROVE  \A p \in file'.stacks.pending : p \in file.stacks.pending \/ p.op = op
<1>1. ASSUME NEW w \in Workers, WorkerStep(w), file' # file
      PROVE  \A p \in file'.stacks.pending : p \in file.stacks.pending \/ p.op = op
  <2>1. Edits(w)
    BY <1>1, FileStep
  <2>2. CASE StepSave(w) /\ file'.stacks = Moved(w)
    BY <2>2, MovedKeeps DEF StepSave
  <2> QED
    BY <2>1, <2>2 DEF Edits, Forgets, Drops, Pauses, RecordsOwn, RecordsPending
<1>2. CASE NewerBuild
  BY <1>2 DEF NewerBuild, NoEntries
<1>3. CASE file' = file
  BY <1>3
<1> QED
  BY <1>1, <1>2, <1>3 DEF Next, Crash, Receive, Environment, Edit, TerminalStart, TerminalEnd,
                          vars

LEMMA OutcomeNext ==
  ASSUME TypeInv, OutcomeOK, [Next]_vars,
         \A w \in Workers : pc[w] \in Writing => Current(w)
  PROVE  OutcomeOK'
<1> USE DEF TypeInv, TypeOK, RepoTypeOK, HistoryTypeOK
<1>0. MaxOps \in Nat
  BY BoundsAssumption DEF BoundsAssumption
<1>1. /\ \A k \in Ops : outcome'[k] = "unused" <=> k > opCount'
      /\ \A k \in Ops : outcome'[k] = "paused" <=> k = op'
      /\ opCount <= opCount'
  <2>1. CASE SameOps
    BY <1>0, <2>1 DEF SameOps, OutcomeOK
  <2>2. CASE StartsOp
    <3>1. PICK n \in Ops : n = opCount + 1
      BY <1>0, <2>2 DEF StartsOp, Ops
    <3>2. /\ op = 0 /\ op' = n /\ opCount' = n /\ outcome' = [outcome EXCEPT ![n] = "paused"]
          /\ \A k \in Ops : k > opCount <=> k > n \/ k = n
          /\ \A k \in Ops : k # 0 /\ (k > n => k # n)
      BY <1>0, <2>2, <3>1 DEF StartsOp, Ops
    <3>3. opCount <= opCount'
      BY <1>0, <3>1, <3>2
    <3> QED
      BY <3>2, <3>3 DEF OutcomeOK
  <2>3. ASSUME NEW how \in {"finished", "aborted", "outside"}, EndsOp(how)
        PROVE  /\ \A k \in Ops : outcome'[k] = "unused" <=> k > opCount'
               /\ \A k \in Ops : outcome'[k] = "paused" <=> k = op'
               /\ opCount <= opCount'
    BY <1>0, <2>3 DEF EndsOp, OutcomeOK, Ops
  <2> QED
    BY <2>1, <2>2, <2>3, NextOps
<1>2. \A p \in file'.stacks.pending : p \in file.stacks.pending \/ p.op = op
  BY PendingFrom
<1>3. \A p \in file.stacks.pending : p.op \in Nat
  <2>1. file.stacks.pending \subseteq PendingEntries
    BY StacksProperties
  <2>2. \A p \in PendingEntries : p.op \in Nat
    BY <1>0 DEF PendingEntries, Ops
  <2> QED
    BY <2>1, <2>2
<1>4. op \in Nat /\ opCount \in Nat /\ opCount' \in Nat /\ op <= opCount
  <2>1. opCount' \in {opCount, opCount + 1}
    BY NextOps DEF SameOps, StartsOp, EndsOp
  <2> QED
    BY <1>0, <2>1
<1>5. \A p \in file'.stacks.pending : p.op <= opCount'
  BY <1>1, <1>2, <1>3, <1>4 DEF OutcomeOK
<1> QED
  BY <1>1, <1>5 DEF OutcomeOK

-----------------------------------------------------------------------------
(* Nobody records what was aborted.                                        *)

(* Every wait and every write succeeds.  A worker that dies may leave the  *)
(* entry of an aborted operation behind, and so may a terminal that starts *)
(* another one before the abort's finish: then every command has to settle *)
(* it under the lock, and to tell the two operations apart.                *)
AllLock == Kinds \subseteq Locking
OwnMarkers == \A k, l \in Ops : MarkerOf[k] = MarkerOf[l] => k = l

Orderly ==
  /\ LocksWork /\ "timeout" \notin Env /\ "saveFails" \notin Env
  /\ "crash" \in Env => AllLock
  /\ "terminal" \in Env => AllLock /\ OwnMarkers

(* A newer build's file holds nothing that this build writes back. *)
NewerOK ==
  /\ file.newer => file.stacks = NoEntries
  /\ \A w \in Workers : blocked[w] => file.newer

LEMMA NewerNext ==
  ASSUME TypeInv, NewerOK, [Next]_vars, \A w \in Workers : pc[w] \in Writing => Current(w)
  PROVE  NewerOK'
<1> USE DEF TypeInv, TypeOK, HistoryTypeOK
<1>1. ASSUME NEW w \in Workers, WorkerStep(w) PROVE NewerOK'
  <2>1. CASE file' # file
    <3>1. ~file'.newer /\ ~file.newer /\ blocked' = blocked
      BY <1>1, <2>1, FileStep
    <3> QED
      BY <3>1 DEF NewerOK
  <2>2. CASE file' = file
    <3>1. \A v \in Workers : blocked'[v] \in {blocked[v], file.newer}
      <4>1. ASSUME NEW s, Persist(w, s) PROVE blocked' = blocked
        BY <4>1 DEF Persist
      <4>2. ASSUME Load(w) \/ Keep
            PROVE  \A v \in Workers : blocked'[v] \in {blocked[v], file.newer}
        BY <4>2 DEF Load, Keep
      <4> QED
        BY <1>1, <4>1, <4>2
           DEF WorkerStep, Spawn, Acquire, RefuseBusy, RunUnrecorded, AcquireUnavailable,
               Settle, SettleExclusive, SettleBusy, SettleDrop, Begin, Gate, Run,
               StepExclusive, StepRestore, StepRefused, StepError, StepSave, FinishPaused,
               FinishEnded, FinishExclusive, FinishBusy, FinishWrite, Release, TakeExclusive,
               Reload, ReloadIfChanged, FinishActive, FinishPending, Record, Keep,
               recorderVars
    <3> QED
      BY <2>2, <3>1 DEF NewerOK
  <2> QED
    BY <2>1, <2>2
<1>2. CASE NewerBuild
  BY <1>2 DEF NewerBuild, NewerOK
<1>3. CASE UNCHANGED <<file, blocked>>
  BY <1>3 DEF NewerOK
<1> QED
  BY <1>1, <1>2, <1>3 DEF Next, Crash, Receive, recorderVars, Environment, Edit, TerminalStart,
                          TerminalEnd, vars

(* A worker with the guard knows undo.json from settle to its end. *)
Early == {"down", "idle", "acquire", "settle"}

HeldOf(w) == guard[w] /\ pc[w] \notin Early /\ ~blocked[w] => cache[w] = file.stacks

HeldOK == \A w \in Workers : HeldOf(w)

LEMMA HeldStep ==
  ASSUME "saveFails" \notin Env, TypeInv, HeldOK, NEW w \in Workers, WorkerStep(w),
         pc[w] \in Writing => Current(w)
  PROVE  HeldOf(w)'
<1> USE DEF TypeInv, TypeOK, HistoryTypeOK, LoopTypeOK
<1>0. HeldOf(w)
  BY DEF HeldOK
<1>1. CASE file' # file
  BY <1>1, FileStep DEF HeldOf
<1>2. CASE file' = file /\ (SettleDrop(w) \/ StepSave(w) \/ FinishWrite(w))
  <2>1. pc[w] \in Writing /\ pc[w] \notin Early /\ guard' = guard
    BY <1>2 DEF SettleDrop, StepSave, FinishWrite, Writing, Early
  <2>2. ASSUME NEW s, Persist(w, s) PROVE HeldOf(w)'
    <3>1. blocked' = blocked
      BY <2>2 DEF Persist
    <3> QED
      BY <1>2, <2>2, <3>1, PersistEdit DEF HeldOf, Lands
  <2>3. ASSUME Keep PROVE HeldOf(w)'
    BY <1>0, <1>2, <2>1, <2>3 DEF HeldOf, Keep
  <2> QED
    BY <1>2, <2>2, <2>3
       DEF SettleDrop, StepSave, FinishWrite, FinishActive, FinishPending, Record
<1>3. CASE UNCHANGED file /\ (Load(w) \/ (Keep /\ blocked[w]))
  BY <1>3 DEF HeldOf, Load, Keep
<1>4. CASE Settle(w) \/ SettleExclusive(w) \/ StepExclusive(w) \/ FinishExclusive(w)
  <2>1. Load(w) \/ (Keep /\ blocked[w]) \/ (Keep /\ ~guard[w])
    BY <1>4 DEF Settle, SettleExclusive, StepExclusive, FinishExclusive, TakeExclusive, Reload,
                ReloadIfChanged
  <2>2. UNCHANGED file /\ guard' = guard
    BY <1>4 DEF Settle, SettleExclusive, StepExclusive, FinishExclusive
  <2> QED
    BY <1>3, <2>1, <2>2 DEF HeldOf
<1>5. CASE FinishEnded(w)
  <2>1. UNCHANGED <<file, guard>> /\ pc[w] = "finish" /\ (Load(w) \/ Keep)
    BY <1>5 DEF FinishEnded, ReloadIfChanged
  <2> QED
    BY <1>0, <1>3, <2>1 DEF HeldOf, Keep, Early
<1>6. CASE pc'[w] \in Early
  BY <1>6 DEF HeldOf
<1>7. CASE UNCHANGED <<file, guard, cache, blocked>> /\ pc[w] \notin Early
  BY <1>0, <1>7 DEF HeldOf
<1> QED
  BY <1>1, <1>2, <1>4, <1>5, <1>6, <1>7
     DEF WorkerStep, Spawn, Acquire, RefuseBusy, RunUnrecorded, AcquireUnavailable,
         SettleBusy, Begin, Gate, Run, StepRestore, StepRefused, StepError, FinishPaused,
         FinishBusy, Release, Goto, Early, Unfinished, recorderVars

LEMMA HeldNext ==
  ASSUME LocksWork, "saveFails" \notin Env, TypeInv, LockInv, HeldOK, [Next]_vars
  PROVE  HeldOK'
<1> USE DEF TypeInv, TypeOK, HistoryTypeOK, LoopTypeOK
<1>0. \A v \in Workers : HeldOf(v) /\ (guard[v] => lock = v)
  BY DEF HeldOK, LockInv, LockOK
<1>1. ASSUME NEW w \in Workers, WorkerStep(w) \/ Crash(w) PROVE HeldOK'
  <2>1. HeldOf(w)'
    <3>1. CASE Crash(w)
      BY <3>1 DEF Crash, Goto, HeldOf
    <3>2. pc[w] \in Writing => Current(w)
      BY DEF LockInv, WriterOK, Current
    <3> QED
      BY <1>1, <3>1, <3>2, HeldStep
  <2>2. ASSUME NEW v \in Workers, v # w PROVE HeldOf(v)'
    BY <1>0, <1>1, <2>2, OtherWorker DEF HeldOf
  <2> QED
    BY <2>1, <2>2 DEF HeldOK
<1>2. ASSUME NEW w \in Workers, NEW k \in Kinds, Receive(w, k) PROVE HeldOK'
  <2>1. /\ pc'[w] \in Early /\ UNCHANGED <<guard, cache, blocked, file>>
        /\ \A v \in Workers \ {w} : pc'[v] = pc[v]
    BY <1>2 DEF Receive, Goto, recorderVars, Early
  <2> QED
    BY <1>0, <2>1 DEF HeldOK, HeldOf
<1>3. CASE NewerBuild
  <2>1. \A v \in Workers : ~guard[v]
    BY <1>0, <1>3, WorkersAssumption DEF NewerBuild, WorkersAssumption
  <2> QED
    BY <1>3, <2>1 DEF NewerBuild, HeldOK, HeldOf
<1>4. CASE Edit \/ TerminalStart \/ TerminalEnd \/ UNCHANGED vars
  BY <1>0, <1>4 DEF Edit, TerminalStart, TerminalEnd, recorderVars, vars, HeldOK, HeldOf
<1> QED
  BY <1>1, <1>2, <1>3, <1>4 DEF Next, Environment

(* No entry on the stacks is of an operation that was aborted, or that is  *)
(* still paused.                                                           *)
EndedEntries == {e \in Entries : e.op # 0 => outcome[e.op] \in {"finished", "outside"}}

KeptOK == file.stacks.undo \in Seq(EndedEntries) /\ file.stacks.redo \in Seq(EndedEntries)

(* The entry of an aborted operation is with the worker that aborted it;   *)
(* or whoever could record it has yet to settle it.                        *)
Gone(p) == op = 0 \/ MarkerOf[p.op] # MarkerOf[op]

Ending(w) ==
  guard[w] /\ job[w].kind = "abort" /\ pc[w] \in {"finish", "finishLock", "finishWrite"}

Harmless(w) ==
  \/ pc[w] \in Early \cup {"settleLock", "settleDrop"}
  \/ Ending(w)
  \/ job[w].kind = "abort" /\ pc[w] = "release"

AbortedOK ==
  \A p \in file.stacks.pending :
    outcome[p.op] = "aborted" =>
      IF AllLock
      THEN Gone(p) /\ \A w \in Workers : Harmless(w)
      ELSE op = 0 /\ \E w \in Workers : Ending(w)

(* Nobody but the worker that aborted an operation writes while its entry  *)
(* is pending.                                                             *)
LEMMA AbortedUnwritten ==
  ASSUME LockInv, LocksWork, AbortedOK, NEW w \in Workers, pc[w] = "finishWrite",
         job[w].kind # "abort", NEW p \in file.stacks.pending
  PROVE  outcome[p.op] # "aborted"
<1> SUFFICES ASSUME outcome[p.op] = "aborted" PROVE FALSE
  OBVIOUS
<1>1. CASE AllLock
  <2>1. Harmless(w)
    BY <1>1 DEF AbortedOK
  <2> QED
    BY <2>1 DEF Harmless, Ending, Early
<1>2. CASE ~AllLock
  <2>1. PICK v \in Workers : Ending(v)
    BY <1>2 DEF AbortedOK
  <2>2. lock = v /\ lock = w
    BY <2>1 DEF LockInv, LockOK, WriterOK, Writing, Ending
  <2> QED
    BY <2>1, <2>2 DEF Ending
<1> QED
  BY <1>1, <1>2

(* What has ended stays as it ended. *)
LEMMA EndedStay ==
  ASSUME TypeInv, OutcomeOK, [Next]_vars
  PROVE  \A k \in Ops : outcome[k] \in {"finished", "outside"} => outcome'[k] = outcome[k]
<1> USE DEF TypeInv, TypeOK, RepoTypeOK
<1>0. MaxOps \in Nat
  BY BoundsAssumption DEF BoundsAssumption
<1> SUFFICES ASSUME NEW k \in Ops, outcome[k] \in {"finished", "outside"}
             PROVE  outcome'[k] = outcome[k]
  OBVIOUS
<1>1. CASE SameOps
  BY <1>1 DEF SameOps
<1>2. CASE StartsOp
  <2>1. op' \in Ops /\ op' > opCount
    BY <1>0, <1>2 DEF StartsOp, Ops
  <2>2. outcome[op'] = "unused"
    BY <2>1 DEF OutcomeOK
  <2> QED
    BY <1>2, <2>1, <2>2 DEF StartsOp
<1>3. ASSUME NEW how \in {"finished", "aborted", "outside"}, EndsOp(how)
      PROVE  outcome'[k] = outcome[k]
  BY <1>3 DEF EndsOp, OutcomeOK
<1> QED
  BY <1>1, <1>2, <1>3, NextOps

LEMMA EndedGrow ==
  ASSUME TypeInv, OutcomeOK, [Next]_vars
  PROVE  EndedEntries \subseteq EndedEntries'
<1>1. \A e \in Entries : e.op # 0 => e.op \in Ops
  BY BoundsAssumption DEF BoundsAssumption, Entries, Ops
<1> QED
  BY <1>1, EndedStay DEF EndedEntries

LEMMA KeptNext ==
  ASSUME LocksWork, TypeInv, LockInv, OutcomeOK, KeptOK, AbortedOK, [Next]_vars
  PROVE  KeptOK'
<1> USE DEF TypeInv, TypeOK, RepoTypeOK, HistoryTypeOK
<1>0. MaxOps \in Nat
  BY BoundsAssumption DEF BoundsAssumption
<1> DEFINE S == EndedEntries'
<1>1. file.stacks.undo \in Seq(S) /\ file.stacks.redo \in Seq(S)
  <2>1. ASSUME NEW s \in Seq(EndedEntries) PROVE s \in Seq(S)
    BY EndedGrow
  <2> QED
    BY <2>1 DEF KeptOK
<1> HIDE DEF S
<1>2. <<>> \in Seq(S)
  OBVIOUS
<1>3. ASSUME NEW w \in Workers, WorkerStep(w), file' # file
      PROVE  file'.stacks.undo \in Seq(S) /\ file'.stacks.redo \in Seq(S)
  <2>1. pc[w] \in Writing => Current(w)
    BY DEF LockInv, WriterOK, Current
  <2>2. Edits(w) /\ cache[w] = file.stacks
    BY <1>3, <2>1, FileStep
  <2>3. CASE Forgets(w) \/ Pauses(w)
    BY <1>1, <2>3 DEF Forgets, Drops, Pauses
  <2>4. CASE StepSave(w) /\ file'.stacks = Moved(w)
    <3>1. Source(w) # <<>> /\ file.stacks \in Stacks
      BY <2>4 DEF JobOK, StepSave
    <3>2. CASE job[w].kind = "undo"
      <4>1. /\ file'.stacks.undo = Front(file.stacks.undo)
            /\ file'.stacks.redo = Append(file.stacks.redo, Last(file.stacks.undo))
            /\ file.stacks.undo # <<>>
        BY <2>2, <2>4, <3>1, <3>2 DEF Moved, Source, Stacks
      <4>2. Front(file.stacks.undo) \in Seq(S) /\ Last(file.stacks.undo) \in S
        BY <1>1, <4>1, PopProperties
      <4> QED
        BY <1>1, <4>1, <4>2, AppendProperties
    <3>3. CASE job[w].kind # "undo"
      <4>1. /\ file'.stacks.redo = Front(file.stacks.redo)
            /\ file'.stacks.undo = Append(file.stacks.undo, Last(file.stacks.redo))
            /\ file.stacks.redo # <<>>
        BY <2>2, <2>4, <3>1, <3>3 DEF Moved, Source, Stacks
      <4>2. Front(file.stacks.redo) \in Seq(S) /\ Last(file.stacks.redo) \in S
        BY <1>1, <4>1, PopProperties
      <4> QED
        BY <1>1, <4>1, <4>2, AppendProperties
    <3> QED
      BY <3>2, <3>3
  <2>5. ASSUME NEW e \in S, Pushes(e)
        PROVE  file'.stacks.undo \in Seq(S) /\ file'.stacks.redo \in Seq(S)
    BY <1>1, <1>2, <2>5, PushProperties DEF Pushes
  <2>6. CASE RecordsOwn(w)
    <3>1. PICK b \in active[w] : Pushes(Entry(job[w].id, 0, b))
      BY <2>6 DEF RecordsOwn
    <3>2. Entry(job[w].id, 0, b) \in S
      BY <3>1 DEF Pushes, Entry, EndedEntries, S
    <3> QED
      BY <2>5, <3>1, <3>2
  <2>7. CASE RecordsPending(w)
    <3>1. PICK p \in file.stacks.pending : Pushes(Entry(p.cmd, p.op, p.before))
      BY <2>7 DEF RecordsPending
    <3>2. outcome[p.op] # "aborted"
      BY <2>7, AbortedUnwritten DEF RecordsPending, FinishWrite
    <3>3. p.op \in Ops
      <4>1. p \in PendingEntries
        BY StacksProperties
      <4> QED
        BY <4>1 DEF PendingEntries
    <3>4. outcome[p.op] \in {"finished", "outside"}
      <4>1. p.op <= opCount /\ op = 0 /\ p.op # 0
        BY <1>0, <2>7, <3>3 DEF OutcomeOK, RecordsPending, Ops
      <4>2. ~(p.op > opCount) /\ p.op # op
        BY <1>0, <3>3, <4>1 DEF Ops
      <4> QED
        BY <3>2, <3>3, <4>2 DEF OutcomeOK
    <3>5. outcome' = outcome
      BY <2>7 DEF RecordsPending, FinishWrite, repoVars
    <3>6. Entry(p.cmd, p.op, p.before) \in S
      BY <3>1, <3>4, <3>5 DEF Pushes, Entry, EndedEntries, S
    <3> QED
      BY <2>5, <3>1, <3>6
  <2> QED
    BY <2>2, <2>3, <2>4, <2>6, <2>7 DEF Edits
<1>4. CASE NewerBuild
  <2>1. file'.stacks.undo = <<>> /\ file'.stacks.redo = <<>>
    BY <1>4 DEF NewerBuild, NoEntries
  <2> QED
    BY <1>2, <2>1 DEF KeptOK, S
<1>5. CASE file' = file
  BY <1>1, <1>5 DEF KeptOK, S
<1> QED
  BY <1>3, <1>4, <1>5 DEF KeptOK, S, Next, Crash, Receive, Environment, Edit, TerminalStart,
                          TerminalEnd, vars

(* What the steps of a worker find while the entry of an operation that    *)
(* has ended is pending.                                                   *)
LEMMA FoundPending ==
  ASSUME NewerOK, HeldOK, NEW w \in Workers, NEW p \in file.stacks.pending
  PROVE  /\ ~blocked[w]
         /\ guard[w] /\ pc[w] \notin Early => cache[w] = file.stacks
<1>1. ~file.newer
  BY DEF NewerOK, NoEntries
<1> QED
  BY <1>1 DEF NewerOK, HeldOK, HeldOf

(* Where every command locks, the entry is dropped at the next settle. *)
LEMMA HarmlessStep ==
  ASSUME Orderly, AllLock, TypeInv, LockInv, GuardOK, PlanOK, NewerOK, HeldOK,
         NEW w \in Workers, WorkerStep(w), Harmless(w),
         NEW p \in file.stacks.pending, Gone(p), p \in file'.stacks.pending
  PROVE  Harmless(w)'
<1> USE DEF TypeInv, TypeOK, LoopTypeOK, HistoryTypeOK
<1>0. /\ ~blocked[w]
      /\ pc[w] \notin {"down", "idle", "acquire"} => guard[w]
      /\ guard[w] /\ pc[w] \notin Early => cache[w] = file.stacks
  <2>1. pc[w] \notin {"down", "idle", "acquire"} => job[w].kind \in Locking
    BY DEF PlanOK, PlanOf, AllLock
  <2> QED
    BY <2>1, FoundPending DEF GuardOK
<1>1. CASE Settle(w)
  <2>1. pc[w] = "settle" /\ cache'[w] = file.stacks
    BY <1>0, <1>1 DEF Settle, Reload, Load
  <2>2. Stale(cache'[w].pending)
    BY <2>1 DEF Stale, Gone
  <2> QED
    BY <1>1, <2>2 DEF Settle, Goto, Harmless
<1>2. CASE SettleExclusive(w)
  BY <1>2 DEF SettleExclusive, Goto, Harmless
<1>3. ~SettleBusy(w)
  BY <1>0 DEF SettleBusy, ExclusiveBusy
<1>4. CASE SettleDrop(w)
  <2> DEFINE t == [cache[w] EXCEPT !.pending = {}]
  <2>1. pc[w] = "settleDrop" /\ cache[w] = file.stacks
    BY <1>0, <1>4 DEF SettleDrop, Early
  <2>2. Stale(cache[w].pending)
    BY <2>1 DEF Stale, Gone
  <2>3. Persist(w, t)
    BY <1>4, <2>2 DEF SettleDrop
  <2>4. t.pending = {}
    BY DEF Stacks
  <2> HIDE DEF t
  <2>5. file'.stacks = t
    BY <1>0, <2>3, PersistEdit DEF Orderly, Lands
  <2> QED
    BY <2>4, <2>5
<1>5. CASE FinishPaused(w) \/ FinishEnded(w) \/ FinishExclusive(w) \/ FinishBusy(w)
           \/ FinishWrite(w)
  <2>1. /\ pc[w] \in {"finish", "finishLock", "finishWrite"} /\ guard' = guard /\ job' = job
        /\ pc'[w] \in {"finishLock", "finishWrite", "release"}
    BY <1>5 DEF FinishPaused, FinishEnded, FinishExclusive, FinishBusy, FinishWrite, Goto,
                Unfinished
  <2>2. Ending(w)
    BY <2>1 DEF Harmless, Early
  <2> QED
    BY <2>1, <2>2 DEF Harmless, Ending
<1>6. CASE pc'[w] \in Early
  BY <1>6 DEF Harmless
<1>7. ~Begin(w) /\ ~Gate(w) /\ ~Run(w) /\ ~StepExclusive(w) /\ ~StepRestore(w)
      /\ ~StepRefused(w) /\ ~StepError(w) /\ ~StepSave(w)
  BY DEF Begin, Gate, Run, StepExclusive, StepRestore, StepRefused, StepError, StepSave,
         Harmless, Ending, Early
<1> QED
  BY <1>1, <1>2, <1>3, <1>4, <1>5, <1>6, <1>7
     DEF WorkerStep, Spawn, Acquire, RefuseBusy, RunUnrecorded, AcquireUnavailable, Release,
         Goto, Early

(* The abort itself goes on to drop the entry. *)
LEMMA EndingStep ==
  ASSUME Orderly, TypeInv, LockInv, PlanOK, NewerOK, HeldOK,
         NEW w \in Workers, WorkerStep(w), Ending(w), op = 0,
         NEW p \in file.stacks.pending, p \in file'.stacks.pending
  PROVE  Ending(w)'
<1> USE DEF TypeInv, TypeOK, LoopTypeOK, HistoryTypeOK
<1>0. ~blocked[w] /\ guard[w] /\ cache[w] = file.stacks /\ active[w] = {}
  <2>1. active[w] = {}
    BY DEF PlanOK, PlanOf, Ending, Recorded
  <2> QED
    BY <2>1, FoundPending DEF Ending, Early
<1>1. ~FinishPaused(w) /\ ~FinishBusy(w)
  BY <1>0 DEF FinishPaused, FinishBusy, ExclusiveBusy
<1>2. CASE FinishEnded(w)
  <2>1. cache'[w] = file.stacks
    BY <1>0, <1>2 DEF FinishEnded, ReloadIfChanged, Load, Keep
  <2> QED
    BY <1>2, <2>1 DEF FinishEnded, Goto, Ending
<1>3. CASE FinishExclusive(w)
  BY <1>3 DEF FinishExclusive, Goto, Ending
<1>4. CASE FinishWrite(w)
  <2> DEFINE t == [cache[w] EXCEPT !.pending = {}]
  <2>1. Persist(w, t)
    BY <1>0, <1>4 DEF FinishWrite, FinishPending, Ending
  <2>2. t.pending = {}
    BY DEF Stacks
  <2> HIDE DEF t
  <2>3. file'.stacks = t
    BY <1>0, <2>1, PersistEdit DEF Orderly, Lands
  <2> QED
    BY <2>2, <2>3
<1> QED
  BY <1>1, <1>2, <1>3, <1>4
     DEF Ending, WorkerStep, Spawn, Acquire, RefuseBusy, RunUnrecorded, AcquireUnavailable,
         Settle, SettleExclusive, SettleBusy, SettleDrop, Begin, Gate, Run, StepExclusive,
         StepRestore, StepRefused, StepError, StepSave, Release

(* The step in which an operation is aborted. *)
LEMMA AbortStep ==
  ASSUME Orderly, TypeInv, LockInv, GuardOK, PlanOK, NewerOK, HeldOK,
         NEW w \in Workers, Run(w), job[w].kind = "abort", EndsOp("aborted"),
         NEW p \in file.stacks.pending
  PROVE  Ending(w)' /\ (AllLock => \A v \in Workers : Harmless(v)')
<1> USE DEF TypeInv, TypeOK, LoopTypeOK, HistoryTypeOK
<1>1. pc[w] = "run" /\ guard[w]
  BY DEF Run, GuardOK, Locking
<1>2. job[w].track
  <2>1. cache[w] = file.stacks
    BY <1>1, FoundPending DEF Early
  <2> QED
    BY <1>1, <2>1 DEF PlanOK, PlanOf
<1>3. Ending(w)'
  <2>1. /\ pc'[w] = "finish" /\ guard' = guard
        /\ job'[w].kind = job[w].kind
    BY <1>2 DEF Run, Goto, AfterRun, Jobs
  <2> QED
    BY <1>1, <2>1 DEF Ending
<1>4. ASSUME AllLock, NEW v \in Workers, v # w PROVE Harmless(v)'
  <2>1. ~guard[v]
    BY <1>1, <1>4 DEF LockInv, LockOK
  <2>2. pc[v] \in {"down", "idle", "acquire"}
    BY <1>4, <2>1 DEF PlanOK, PlanOf, GuardOK, AllLock
  <2>3. pc'[v] = pc[v]
    BY <1>4 DEF Run, Goto
  <2> QED
    BY <2>2, <2>3 DEF Harmless, Early
<1> QED
  BY <1>3, <1>4 DEF Harmless

LEMMA AbortedStep ==
  ASSUME Orderly, TypeInv, LockInv, GuardOK, PlanOK, NewerOK, HeldOK, OutcomeOK, AbortedOK,
         NEW w \in Workers, WorkerStep(w)
  PROVE  AbortedOK'
<1> USE DEF TypeInv, TypeOK, LoopTypeOK, HistoryTypeOK, RepoTypeOK
<1> SUFFICES ASSUME NEW p \in file'.stacks.pending, outcome'[p.op] = "aborted"
             PROVE  IF AllLock
                    THEN Gone(p)' /\ \A v \in Workers : Harmless(v)'
                    ELSE op' = 0 /\ \E v \in Workers : Ending(v)'
  BY DEF AbortedOK, AllLock
<1>1. p \in file.stacks.pending
  <2>1. CASE file' = file
    BY <2>1
  <2>2. CASE file' # file
    <3>1. pc[w] \in Writing => Current(w)
      BY DEF Orderly, LockInv, WriterOK, Current
    <3>2. Edits(w)
      BY <2>2, <3>1, FileStep
    <3>3. CASE Pauses(w)
      <4>1. p.op = op /\ op # 0 /\ outcome' = outcome
        BY <3>3 DEF Pauses, FinishWrite, repoVars
      <4>2. op \in Ops
        BY <4>1, BoundsAssumption DEF BoundsAssumption, Ops
      <4> QED
        BY <4>1, <4>2 DEF OutcomeOK
    <3>4. CASE StepSave(w) /\ file'.stacks = Moved(w)
      BY <3>4, MovedKeeps DEF StepSave
    <3> QED
      BY <3>2, <3>3, <3>4 DEF Edits, Forgets, Drops, RecordsOwn, RecordsPending
  <2> QED
    BY <2>1, <2>2
<1>2. p.op \in Ops /\ p.op <= opCount
  <2>1. p \in PendingEntries
    BY <1>1, StacksProperties
  <2> QED
    BY <1>1, <2>1 DEF PendingEntries, OutcomeOK
<1>3. CASE outcome[p.op] # "aborted"
  <2>1. Run(w) /\ job[w].kind = "abort" /\ EndsOp("aborted")
    BY <1>2, <1>3, WorkerOps DEF SameOps, StartsOp, EndsOp
  <2>2. Ending(w)' /\ (AllLock => \A v \in Workers : Harmless(v)')
    BY <1>1, <2>1, AbortStep
  <2>3. op' = 0
    BY <2>1 DEF EndsOp
  <2> QED
    BY <2>2, <2>3 DEF Gone
<1>4. CASE outcome[p.op] = "aborted" /\ AllLock
  <2>1. Gone(p) /\ \A v \in Workers : Harmless(v)
    BY <1>1, <1>4 DEF AbortedOK
  <2>2. SameOps
    <3>1. ~Run(w)
      BY <2>1 DEF Run, Harmless, Ending, Early
    <3> QED
      BY <3>1, WorkerOps
  <2>3. Harmless(w)'
    BY <1>1, <1>4, <2>1, HarmlessStep
  <2>4. ASSUME NEW v \in Workers, v # w PROVE Harmless(v)'
    BY <2>1, <2>4, OthersKeep DEF Harmless, Ending
  <2> QED
    BY <1>4, <2>1, <2>2, <2>3, <2>4 DEF Gone, SameOps
<1>5. CASE outcome[p.op] = "aborted" /\ ~AllLock
  <2>1. PICK v \in Workers : Ending(v)
    BY <1>1, <1>5 DEF AbortedOK
  <2>2. op = 0
    BY <1>1, <1>5 DEF AbortedOK
  <2>3. CASE v = w
    <3>1. Ending(w)'
      BY <1>1, <2>1, <2>2, <2>3, EndingStep
    <3>2. SameOps
      BY <2>1, <2>3, WorkerOps DEF Run, Ending
    <3> QED
      BY <1>5, <2>2, <3>1, <3>2 DEF SameOps
  <2>4. CASE v # w
    <3>1. Ending(v)'
      BY <2>1, <2>4, OthersKeep DEF Ending
    <3>2. ~guard[w]
      BY <2>1, <2>4 DEF Ending, LockInv, LockOK
    <3>3. SameOps
      BY <3>2, WorkerOps DEF Run, GuardOK, Locking, Recorded
    <3> QED
      BY <1>5, <2>2, <3>1, <3>3 DEF SameOps
  <2> QED
    BY <2>3, <2>4
<1> QED
  BY <1>3, <1>4, <1>5

LEMMA AbortedNext ==
  ASSUME Orderly, TypeInv, LockInv, GuardOK, PlanOK, NewerOK, HeldOK, OutcomeOK, AbortedOK,
         [Next]_vars
  PROVE  AbortedOK'
<1> USE DEF TypeInv, TypeOK, LoopTypeOK, HistoryTypeOK, RepoTypeOK
<1>0. MaxOps \in Nat
  BY BoundsAssumption DEF BoundsAssumption
<1>1. ASSUME NEW w \in Workers, WorkerStep(w) PROVE AbortedOK'
  BY <1>1, AbortedStep
<1>2. ASSUME NEW w \in Workers, Crash(w) PROVE AbortedOK'
  <2>1. AllLock /\ UNCHANGED <<file, op, outcome>> /\ pc'[w] = "down"
    BY <1>2 DEF Crash, Goto, repoVars, Orderly
  <2>2. \A v \in Workers : Harmless(v) => Harmless(v)'
    BY <1>2, <2>1, OthersKeep DEF Harmless, Ending, Early
  <2> QED
    BY <2>1, <2>2 DEF AbortedOK, Gone
<1>3. ASSUME NEW w \in Workers, NEW k \in Kinds, Receive(w, k) PROVE AbortedOK'
  <2>1. /\ UNCHANGED <<file, op, outcome, guard>>
        /\ pc[w] = "idle" /\ pc'[w] \in {"acquire", "settle"}
        /\ \A v \in Workers \ {w} : job'[v] = job[v] /\ pc'[v] = pc[v]
    BY <1>3 DEF Receive, Goto, repoVars
  <2>2. \A v \in Workers : (Harmless(v) => Harmless(v)') /\ (Ending(v) => Ending(v)')
    BY <2>1 DEF Harmless, Ending, Early
  <2> QED
    BY <2>1, <2>2 DEF AbortedOK, Gone, AllLock
<1>4. CASE NewerBuild
  BY <1>4 DEF NewerBuild, NoEntries, AbortedOK
<1>5. CASE UNCHANGED <<file, op, outcome, guard, pc, job>>
  <2>1. \A v \in Workers : (Harmless(v) => Harmless(v)') /\ (Ending(v) => Ending(v)')
    BY <1>5 DEF Harmless, Ending
  <2> QED
    BY <1>5, <2>1 DEF AbortedOK, Gone, AllLock
<1>6. CASE TerminalStart \/ TerminalEnd
  <2>0. AllLock /\ OwnMarkers /\ UNCHANGED <<file, guard, pc, job>>
    BY <1>6 DEF TerminalStart, TerminalEnd, Orderly
  <2>1. SUFFICES ASSUME NEW p \in file.stacks.pending, outcome'[p.op] = "aborted"
                 PROVE  Gone(p)' /\ \A v \in Workers : Harmless(v)'
    BY <2>0 DEF AbortedOK, AllLock
  <2>2. p.op \in Ops /\ p.op <= opCount
    <3>1. p \in PendingEntries
      BY StacksProperties
    <3> QED
      BY <3>1 DEF PendingEntries, OutcomeOK
  <2>3. outcome[p.op] = "aborted"
    BY <1>6, <2>1, <2>2 DEF TerminalStart, TerminalEnd, PauseOperation, EndOperation
  <2>4. \A v \in Workers : Harmless(v)'
    BY <2>0, <2>3 DEF AbortedOK, Harmless, Ending
  <2>5. CASE TerminalStart
    <3>1. op' \in Ops /\ op' # p.op
      BY <1>0, <2>2, <2>5 DEF TerminalStart, PauseOperation, Ops
    <3> QED
      BY <2>0, <2>2, <2>4, <3>1 DEF OwnMarkers, Gone
  <2>6. CASE TerminalEnd
    BY <2>4, <2>6 DEF TerminalEnd, EndOperation, Gone
  <2> QED
    BY <1>6, <2>5, <2>6
<1> QED
  BY <1>1, <1>2, <1>3, <1>4, <1>5, <1>6
     DEF Next, Environment, Edit, Change, vars

(* Where every wait and every write succeeds, no undo or redo entry is of  *)
(* an operation that was aborted: not when another window, a newer build,  *)
(* a crash or a terminal comes between the abort and its finish.           *)
THEOREM AbortsStayOut ==
  ASSUME Orderly
  PROVE  Spec => []AbortedNeverRecorded
<1> DEFINE AbortInv ==
             KindOK /\ GuardOK /\ PlanOK /\ NewerOK /\ HeldOK /\ OutcomeOK /\ KeptOK /\ AbortedOK
<1>1. Init => AbortInv
  <2> SUFFICES ASSUME Init PROVE AbortInv
    OBVIOUS
  <2>1. KindOK /\ GuardOK /\ PlanOK /\ NewerOK /\ HeldOK
    BY DEF Init, KindOK, GuardOK, PlanOK, PlanOf, NewerOK, HeldOK, HeldOf, NoJob, NewJob
  <2>2. OutcomeOK /\ AbortedOK
    BY BoundsAssumption DEF Init, OutcomeOK, AbortedOK, NoEntries, Ops, BoundsAssumption
  <2>3. KeptOK
    <3>1. file.stacks.undo = <<>> /\ file.stacks.redo = <<>>
      BY DEF Init, NoEntries
    <3>2. <<>> \in Seq(EndedEntries)
      OBVIOUS
    <3> QED
      BY <3>1, <3>2 DEF KeptOK
  <2> QED
    BY <2>1, <2>2, <2>3
<1>2. TypeInv /\ LockInv /\ AbortInv /\ [Next]_vars => AbortInv'
  <2> SUFFICES ASSUME TypeInv, LockInv, AbortInv, [Next]_vars PROVE AbortInv'
    OBVIOUS
  <2>1. \A w \in Workers : pc[w] \in Writing => Current(w)
    BY DEF Orderly, LockInv, WriterOK, Current
  <2>2. KindOK' /\ GuardOK' /\ PlanOK'
    BY KindNext, GuardNext, PlanNext DEF Orderly
  <2>3. NewerOK' /\ OutcomeOK'
    BY <2>1, NewerNext, OutcomeNext
  <2>4. HeldOK' /\ KeptOK'
    BY HeldNext, KeptNext DEF Orderly
  <2>5. AbortedOK'
    BY AbortedNext
  <2> QED
    BY <2>2, <2>3, <2>4, <2>5
<1>3. TypeInv /\ AbortInv => AbortedNeverRecorded
  <2> SUFFICES ASSUME TypeInv, KeptOK, NEW i \in 1..Len(Entered), Entered[i].op # 0
               PROVE  outcome[Entered[i].op] # "aborted"
    BY DEF AbortedNeverRecorded
  <2>1. Entered \in Seq(EndedEntries)
    BY ConcatProperties DEF KeptOK, Entered
  <2>2. Entered[i] \in EndedEntries
    BY <2>1, ElementOfSeq
  <2> QED
    BY <2>2 DEF EndedEntries
<1>4. Spec => [](TypeInv /\ LockInv)
  BY TypeInvariant, LockInvariant, PTL
<1> QED
  BY <1>1, <1>2, <1>3, <1>4, PTL DEF Spec

-----------------------------------------------------------------------------
(* Nobody records what a terminal had ended before the command.            *)

(* Every write succeeds and moves the mtime that the other windows look    *)
(* at: after a save that failed, or within one tick, a worker may go on    *)
(* from an entry that is not the one undo.json holds, and remember the     *)
(* wrong marker at settle.                                                 *)
Dependable ==
  LocksWork /\ OwnMarkers /\ "saveFails" \notin Env /\ "sameTick" \notin Env

(* What looks unchanged is unchanged. *)
FreshOf(w) == fresh[w] /\ ~blocked[w] => cache[w] = file.stacks

FreshOK == \A w \in Workers : FreshOf(w)

(* The command has dropped the entry of an operation that had ended before *)
(* it was received, or is about to, or knows that it may not record it.    *)
OutsideOf(w) ==
  /\ \A k \in job[w].outside : outcome[k] = "outside"
  /\ \A p \in file.stacks.pending : p.op \in job[w].outside =>
       \/ pc[w] \in Early \cup {"settleDrop", "release"}
       \/ pc[w] = "settleLock" /\ p \in cache[w].pending
       \/ pc[w] # "settleLock" /\ MarkerOf[p.op] \in staleOp[w]

OutsideOK == \A w \in Workers : OutsideOf(w)

LEMMA FreshNext ==
  ASSUME Dependable, TypeInv, FreshOK, [Next]_vars
  PROVE  FreshOK'
<1> USE DEF TypeInv, TypeOK, HistoryTypeOK
<1>1. ASSUME NEW w \in Workers, NEW s, Persist(w, s) PROVE FreshOK'
  <2>1. CASE blocked[w] /\ UNCHANGED <<file, fresh>>
    BY <1>1, <2>1 DEF Persist, FreshOK, FreshOf
  <2>2. CASE /\ file' = [newer |-> FALSE, stacks |-> s]
             /\ fresh' = [v \in Workers |-> v = w]
    BY <1>1, <2>2 DEF Persist, FreshOK, FreshOf
  <2> QED
    BY <1>1, <2>1, <2>2 DEF Persist, Dependable
<1>2. ASSUME NEW w \in Workers, Load(w), UNCHANGED file PROVE FreshOK'
  BY <1>2 DEF Load, FreshOK, FreshOf
<1>3. CASE UNCHANGED <<cache, fresh, blocked, file>>
  BY <1>3 DEF FreshOK, FreshOf
<1>4. ASSUME NEW w \in Workers, WorkerStep(w) PROVE FreshOK'
  BY <1>1, <1>2, <1>3, <1>4
     DEF WorkerStep, Spawn, Acquire, RefuseBusy, RunUnrecorded, AcquireUnavailable, Settle,
         SettleExclusive, SettleBusy, SettleDrop, Begin, Gate, Run, StepExclusive,
         StepRestore, StepRefused, StepError, StepSave, FinishPaused, FinishEnded,
         FinishExclusive, FinishBusy, FinishWrite, Release, TakeExclusive, Reload,
         ReloadIfChanged, FinishActive, FinishPending, Record, Keep, recorderVars
<1>5. CASE NewerBuild
  BY <1>5 DEF NewerBuild, FreshOK, FreshOf
<1> QED
  BY <1>3, <1>4, <1>5 DEF Next, Crash, Receive, Environment, Edit, TerminalStart, TerminalEnd,
                          recorderVars, vars

(* What a command was received with stays with it. *)
LEMMA OutsideKeeps ==
  ASSUME TypeInv, NEW w \in Workers, WorkerStep(w) \/ Crash(w)
  PROVE  job'[w].outside = job[w].outside \/ job'[w].outside = {}
<1> USE DEF TypeInv, TypeOK, LoopTypeOK
<1>1. CASE RefuseBusy(w) \/ Release(w) \/ Crash(w)
  BY <1>1 DEF RefuseBusy, Release, Crash, NoJob, NewJob
<1>2. CASE RunUnrecorded(w) \/ Gate(w)
  BY <1>2 DEF RunUnrecorded, Gate, Jobs
<1>3. CASE Begin(w)
  BY <1>3 DEF Begin, Jobs
<1>4. CASE Run(w)
  BY <1>4 DEF Run, Jobs
<1>5. CASE StepRefused(w) \/ StepError(w) \/ StepSave(w)
  BY <1>5 DEF StepRefused, StepError, StepSave, Jobs
<1>6. CASE UNCHANGED job
  BY <1>6
<1> QED
  BY <1>1, <1>2, <1>3, <1>4, <1>5, <1>6
     DEF WorkerStep, Spawn, Acquire, AcquireUnavailable, Settle, SettleExclusive, SettleBusy,
         SettleDrop, StepExclusive, StepRestore, FinishPaused, FinishEnded, FinishExclusive,
         FinishBusy, FinishWrite

(* The entry of an operation that has ended is none of the operation in    *)
(* progress, and stale to whoever has it in memory.                        *)
LEMMA EndedIsStale ==
  ASSUME TypeInv, OwnMarkers, OutcomeOK,
         NEW p \in file.stacks.pending, outcome[p.op] = "outside", NEW s, p \in s
  PROVE  p.op \in Ops /\ p.op # op /\ Stale(s)
<1> USE DEF TypeInv, TypeOK, RepoTypeOK
<1>1. p.op \in Ops
  <2>1. p \in PendingEntries
    BY StacksProperties DEF HistoryTypeOK
  <2> QED
    BY <2>1 DEF PendingEntries
<1>2. p.op # op
  BY <1>1 DEF OutcomeOK
<1>3. op = 0 \/ op \in Ops
  BY BoundsAssumption DEF BoundsAssumption, Ops
<1> QED
  BY <1>1, <1>2, <1>3 DEF Stale, OwnMarkers

(* The worker's own step. *)
LEMMA OutsideStep ==
  ASSUME Dependable, TypeInv, LockInv, NewerOK, FreshOK, OutcomeOK, OutsideOK,
         NEW w \in Workers, WorkerStep(w),
         NEW p \in file.stacks.pending, p \in file'.stacks.pending, p.op \in job[w].outside
  PROVE  \/ pc'[w] \in Early \cup {"settleDrop", "release"}
         \/ pc'[w] = "settleLock" /\ p \in cache'[w].pending
         \/ pc'[w] # "settleLock" /\ MarkerOf[p.op] \in staleOp'[w]
<1> USE DEF TypeInv, TypeOK, LoopTypeOK, HistoryTypeOK
<1>0. /\ ~blocked[w] /\ outcome[p.op] = "outside"
      /\ \/ pc[w] \in Early \cup {"settleDrop", "release"}
         \/ pc[w] = "settleLock" /\ p \in cache[w].pending
         \/ pc[w] # "settleLock" /\ MarkerOf[p.op] \in staleOp[w]
  <2>1. ~file.newer
    BY DEF NewerOK, NoEntries
  <2> QED
    BY <2>1 DEF OutsideOK, OutsideOf, NewerOK
<1>1. CASE Settle(w)
  <2>1. pc[w] = "settle" /\ cache'[w] = file.stacks
    BY <1>0, <1>1 DEF Settle, Reload, ReloadIfChanged, Load, Keep, FreshOK, FreshOf
  <2>2. Stale(cache'[w].pending)
    BY <1>0, <2>1, EndedIsStale DEF Dependable
  <2> QED
    BY <1>1, <2>1, <2>2 DEF Settle, Goto
<1>2. CASE SettleBusy(w)
  <2>1. pc[w] = "settleLock" /\ staleOp'[w] = {MarkerOf[q.op] : q \in cache[w].pending}
    BY <1>2 DEF SettleBusy
  <2>2. p \in cache[w].pending
    BY <1>0, <2>1 DEF Early
  <2> QED
    BY <1>2, <2>1, <2>2 DEF SettleBusy, Goto
<1>3. CASE SettleDrop(w)
  <2> DEFINE t == [cache[w] EXCEPT !.pending = {}]
  <2>1. pc[w] = "settleDrop" /\ cache[w] = file.stacks
    BY <1>0, <1>3 DEF SettleDrop, LockInv, WriterOK, Writing, Dependable
  <2>2. Stale(cache[w].pending)
    BY <1>0, <2>1, EndedIsStale DEF Dependable
  <2>3. Persist(w, t)
    BY <1>3, <2>2 DEF SettleDrop
  <2>4. t.pending = {}
    BY DEF Stacks
  <2> HIDE DEF t
  <2>5. file'.stacks = t
    BY <1>0, <2>3, PersistEdit DEF Dependable, Lands
  <2> QED
    BY <2>4, <2>5
<1>4. CASE SettleExclusive(w)
  BY <1>4 DEF SettleExclusive, Goto
<1>5. CASE pc'[w] \in Early \cup {"release"}
  BY <1>5
<1>6. CASE /\ pc[w] \notin Early \cup {"settleLock", "settleDrop", "release"}
           /\ pc'[w] # "settleLock" /\ staleOp'[w] = staleOp[w]
  BY <1>0, <1>6
<1> QED
  BY <1>1, <1>2, <1>3, <1>4, <1>5, <1>6
     DEF WorkerStep, Spawn, Acquire, RefuseBusy, RunUnrecorded, AcquireUnavailable, Begin,
         Gate, Run, StepExclusive, StepRestore, StepRefused, StepError, StepSave,
         FinishPaused, FinishEnded, FinishExclusive, FinishBusy, FinishWrite, Release, Goto,
         Early, Unfinished, AfterRun, recorderVars

LEMMA OutsideNext ==
  ASSUME Dependable, TypeInv, LockInv, NewerOK, FreshOK, OutcomeOK, OutsideOK, [Next]_vars
  PROVE  OutsideOK'
<1> USE DEF TypeInv, TypeOK, LoopTypeOK, HistoryTypeOK, RepoTypeOK
<1>0. \A v \in Workers : job[v].outside \subseteq Ops
  BY DEF Jobs
<1>1. \A w \in Workers : pc[w] \in Writing => Current(w)
  BY DEF Dependable, LockInv, WriterOK, Current
<1>2. \A v \in Workers : \A k \in job[v].outside : outcome[k] = "outside" /\ outcome'[k] = "outside"
  BY <1>0, EndedStay DEF OutsideOK, OutsideOf
<1>3. ASSUME NEW v \in Workers, NEW p \in file'.stacks.pending, p.op \in job[v].outside
      PROVE  p \in file.stacks.pending
  <2>1. p.op \in Ops /\ outcome[p.op] = "outside"
    BY <1>0, <1>2, <1>3
  <2>2. p.op # op
    BY <2>1 DEF OutcomeOK
  <2> QED
    BY <1>1, <2>2, PendingFrom
<1>4. ASSUME NEW v \in Workers, job'[v] = job[v], pc'[v] = pc[v], cache'[v] = cache[v],
             staleOp'[v] = staleOp[v]
      PROVE  OutsideOf(v)'
  BY <1>2, <1>3, <1>4 DEF OutsideOK, OutsideOf
<1>5. ASSUME NEW w \in Workers, WorkerStep(w) \/ Crash(w) PROVE OutsideOK'
  <2>1. OutsideOf(w)'
    <3>1. job'[w].outside \subseteq job[w].outside
      BY <1>5, OutsideKeeps
    <3>2. CASE WorkerStep(w)
      <4>1. ASSUME NEW p \in file'.stacks.pending, p.op \in job'[w].outside
            PROVE  \/ pc'[w] \in Early \cup {"settleDrop", "release"}
                   \/ pc'[w] = "settleLock" /\ p \in cache'[w].pending
                   \/ pc'[w] # "settleLock" /\ MarkerOf[p.op] \in staleOp'[w]
        BY <1>3, <3>1, <3>2, <4>1, OutsideStep
      <4> QED
        BY <1>2, <3>1, <4>1 DEF OutsideOf
    <3>3. CASE Crash(w)
      BY <1>2, <3>1, <3>3 DEF Crash, Goto, Early, OutsideOf
    <3> QED
      BY <1>5, <3>2, <3>3
  <2>2. ASSUME NEW v \in Workers, v # w PROVE OutsideOf(v)'
    BY <1>4, <1>5, <2>2, OthersKeep
  <2> QED
    BY <2>1, <2>2 DEF OutsideOK
<1>6. ASSUME NEW w \in Workers, NEW k \in Kinds, Receive(w, k) PROVE OutsideOK'
  <2>1. OutsideOf(w)'
    <3>1. /\ job'[w].outside = {o \in Ops : outcome[o] = "outside"}
          /\ pc'[w] \in Early /\ outcome' = outcome
      BY <1>6 DEF Receive, NewJob, Goto, Early, repoVars
    <3> QED
      BY <3>1 DEF OutsideOf
  <2>2. ASSUME NEW v \in Workers, v # w PROVE OutsideOf(v)'
    <3>1. /\ job'[v] = job[v] /\ pc'[v] = pc[v] /\ cache' = cache /\ staleOp' = staleOp
      BY <1>6, <2>2 DEF Receive, Goto, recorderVars
    <3> QED
      BY <1>4, <3>1
  <2> QED
    BY <2>1, <2>2 DEF OutsideOK
<1>7. CASE Environment \/ UNCHANGED vars
  <2>1. UNCHANGED <<job, pc, cache, staleOp>>
    BY <1>7 DEF Environment, NewerBuild, Edit, TerminalStart, TerminalEnd, recorderVars, vars
  <2> QED
    BY <1>4, <2>1 DEF OutsideOK
<1> QED
  BY <1>5, <1>6, <1>7 DEF Next

(* What is on a stack after a push was there before, or was pushed. *)
LEMMA PushedFrom ==
  ASSUME NEW S, NEW s \in Seq(S), NEW e,
         NEW i \in 1..Len(Newest(Append(s, e)))
  PROVE  Newest(Append(s, e))[i] \in {s[j] : j \in 1..Len(s)} \cup {e}
<1> DEFINE T == {s[j] : j \in 1..Len(s)} \cup {e}
<1>1. s \in Seq(T)
  <2>1. Len(s) \in Nat /\ DOMAIN s = 1..Len(s) /\ \A j \in 1..Len(s) : s[j] \in T
    OBVIOUS
  <2> QED
    BY <2>1, IsASeq
<1>2. Newest(Append(s, e)) \in Seq(T)
  BY <1>1, PushProperties
<1> QED
  BY <1>2, ElementOfSeq

(* Nobody but the holder of the lock steps while it is about to write. *)
LEMMA OnlyTheWriter ==
  ASSUME LocksWork, TypeInv, LockInv, NEW w \in Workers, pc[w] \in Writing, Next,
         file' # file
  PROVE  WorkerStep(w)
<1>1. lock = w /\ lock # NoHolder
  BY WorkersAssumption DEF LockInv, WriterOK, WorkersAssumption
<1>2. \A v \in Workers \ {w} : ~WorkerStep(v)
  BY <1>1, OtherWorker
<1>3. \A v \in Workers : ~Crash(v) /\ \A k \in Kinds : ~Receive(v, k)
  BY DEF Crash, Receive
<1>4. ~Environment
  BY <1>1 DEF Environment, NewerBuild, Edit, TerminalStart, TerminalEnd
<1> QED
  BY <1>2, <1>3, <1>4 DEF Next

(* Where writes succeed and markers and mtimes tell apart, no command ever *)
(* records the entry of an operation that a terminal had ended before it   *)
(* was received: not when a holder outlasts every wait, with any commands, *)
(* windows, crashes and newer builds in between (settle, stale_unsettled). *)
THEOREM EndedOutsideStaysOut ==
  ASSUME Dependable
  PROVE  Spec => EndedOutsideNeverRecorded
<1> DEFINE KnownEnded == NewerOK /\ FreshOK /\ OutcomeOK /\ OutsideOK
           Unrecorded ==
             \A w \in Workers :
               (pc[w] = "finishWrite" /\ pc'[w] = "release" /\ active[w] = {}) =>
                 \A i \in 1..Len(file'.stacks.undo) :
                   LET e == file'.stacks.undo[i]
                   IN  e.op \in job[w].outside =>
                         \E j \in 1..Len(file.stacks.undo) : file.stacks.undo[j] = e
<1>1. Init => KnownEnded
  <2> SUFFICES ASSUME Init PROVE KnownEnded
    OBVIOUS
  <2>1. NewerOK /\ FreshOK
    BY DEF Init, NewerOK, FreshOK, FreshOf
  <2>2. OutcomeOK
    BY BoundsAssumption DEF Init, OutcomeOK, NoEntries, Ops, BoundsAssumption
  <2>3. OutsideOK
    BY DEF Init, OutsideOK, OutsideOf, NoJob, NewJob, NoEntries
  <2> QED
    BY <2>1, <2>2, <2>3
<1>2. TypeInv /\ LockInv /\ KnownEnded /\ [Next]_vars => KnownEnded'
  <2> SUFFICES ASSUME TypeInv, LockInv, KnownEnded, [Next]_vars PROVE KnownEnded'
    OBVIOUS
  <2>1. \A w \in Workers : pc[w] \in Writing => Current(w)
    BY DEF Dependable, LockInv, WriterOK, Current
  <2> QED
    BY <2>1, NewerNext, OutcomeNext, FreshNext, OutsideNext
<1>3. TypeInv /\ LockInv /\ KnownEnded /\ [Next]_vars => [Unrecorded]_vars
  <2> SUFFICES ASSUME TypeInv, LockInv, KnownEnded, Next, NEW w \in Workers,
                      pc[w] = "finishWrite", pc'[w] = "release", active[w] = {},
                      NEW i \in 1..Len(file'.stacks.undo),
                      file'.stacks.undo[i].op \in job[w].outside
               PROVE  \E j \in 1..Len(file.stacks.undo) :
                        file.stacks.undo[j] = file'.stacks.undo[i]
    OBVIOUS
  <2>1. CASE file'.stacks.undo = file.stacks.undo
    BY <2>1
  <2>2. CASE file'.stacks.undo # file.stacks.undo
    <3>1. Current(w) /\ file' # file
      BY <2>2 DEF Dependable, LockInv, WriterOK, Writing, Current
    <3>2. WorkerStep(w)
      BY <2>2, OnlyTheWriter DEF Dependable, Writing
    <3>3. Edits(w)
      BY <3>1, <3>2, FileStep
    <3>4. RecordsPending(w)
      BY <2>2, <3>3 DEF Edits, Forgets, Drops, Pauses, StepSave, RecordsOwn
    <3>5. PICK p \in file.stacks.pending :
             MarkerOf[p.op] \notin staleOp[w] /\ Pushes(Entry(p.cmd, p.op, p.before))
      BY <3>4 DEF RecordsPending
    <3> DEFINE e == Entry(p.cmd, p.op, p.before)
    <3>6. p.op \notin job[w].outside
      BY <3>5 DEF OutsideOK, OutsideOf, Early
    <3>7. e.op = p.op
      BY DEF Entry
    <3> HIDE DEF e
    <3>8. file'.stacks.undo[i] \in {file.stacks.undo[j] : j \in 1..Len(file.stacks.undo)} \cup {e}
      <4>1. file.stacks.undo \in Seq(Entries)
        BY StacksProperties DEF TypeInv, TypeOK, HistoryTypeOK
      <4> QED
        BY <3>5, <4>1, PushedFrom DEF Pushes, e
    <3> QED
      BY <3>6, <3>7, <3>8
  <2> QED
    BY <2>1, <2>2
<1>4. Spec => [](TypeInv /\ LockInv)
  BY TypeInvariant, LockInvariant, PTL
<1> QED
  BY <1>1, <1>2, <1>3, <1>4, PTL DEF Spec, EndedOutsideNeverRecorded

-----------------------------------------------------------------------------
(* The history and the repository: what one entry, and a stack of them,    *)
(* leads from and to.                                                      *)

(* Entry e leads from a to b, and touches nothing else. *)
Joins(e, a, b) ==
  /\ DOMAIN e.before = DOMAIN e.after
  /\ \A p \in Parts :
       IF p \in DOMAIN e.after THEN a[p] = e.before[p] /\ b[p] = e.after[p] ELSE a[p] = b[p]

Link(e, a, b, back) == IF back THEN Joins(e, b, a) ELSE Joins(e, a, b)

(* The entries of a stack join one another, and the top one ends in x. *)
Chain(s, x, back) ==
  \E h \in [0..Len(s) -> Snapshots] :
    h[Len(s)] = x /\ \A i \in 1..Len(s) : Link(s[i], h[i - 1], h[i], back)

Fits(s, x) == Chain(s.undo, x, FALSE) /\ Chain(s.redo, x, TRUE)

LEMMA ChainEmpty ==
  ASSUME NEW x \in Snapshots, NEW back \in BOOLEAN
  PROVE  Chain(<<>>, x, back)
<1> DEFINE h == [i \in 0..0 |-> x]
<1>1. h \in [0..Len(<<>>) -> Snapshots] /\ h[Len(<<>>)] = x
  OBVIOUS
<1>2. \A i \in 1..Len(<<>>) : Link((<<>>)[i], h[i - 1], h[i], back)
  OBVIOUS
<1> QED
  BY <1>1, <1>2 DEF Chain

LEMMA ChainPush ==
  ASSUME NEW S, NEW s \in Seq(S), NEW e \in S, NEW x \in Snapshots, NEW y \in Snapshots,
         NEW back \in BOOLEAN, Chain(s, x, back), Link(e, x, y, back)
  PROVE  Chain(Append(s, e), y, back)
<1> DEFINE n == Len(s)
           t == Append(s, e)
<1>1. n \in Nat /\ Len(t) = n + 1 /\ t[n + 1] = e /\ \A i \in 1..n : t[i] = s[i]
  BY AppendProperties
<1>2. PICK h \in [0..n -> Snapshots] :
        h[n] = x /\ \A i \in 1..n : Link(s[i], h[i - 1], h[i], back)
  BY DEF Chain
<1> HIDE DEF n, t
<1> DEFINE g == [i \in 0..(n + 1) |-> IF i = n + 1 THEN y ELSE h[i]]
<1>3. g \in [0..(n + 1) -> Snapshots]
  <2>1. \A i \in 0..(n + 1) : i # n + 1 => i \in 0..n
    BY <1>1
  <2> QED
    BY <1>2, <2>1
<1>4. g[n + 1] = y /\ \A i \in 0..n : g[i] = h[i]
  <2>1. n + 1 \in 0..(n + 1) /\ \A i \in 0..n : i # n + 1 /\ i \in 0..(n + 1)
    BY <1>1
  <2> QED
    BY <2>1
<1> HIDE DEF g
<1>5. ASSUME NEW i \in 1..(n + 1) PROVE Link(t[i], g[i - 1], g[i], back)
  <2>1. CASE i = n + 1
    <3>1. i - 1 = n /\ n \in 0..n
      BY <1>1, <2>1
    <3> QED
      BY <1>1, <1>2, <1>4, <2>1, <3>1
  <2>2. CASE i # n + 1
    <3>1. i \in 1..n /\ i \in 0..n /\ i - 1 \in 0..n
      BY <1>1, <1>5, <2>2
    <3> QED
      BY <1>1, <1>2, <1>4, <3>1
  <2> QED
    BY <2>1, <2>2
<1> QED
  BY <1>1, <1>3, <1>4, <1>5 DEF Chain, t

(* Draining a stack leaves the newest entries joined. *)
LEMMA ChainNewest ==
  ASSUME NEW S, NEW s \in Seq(S), NEW x \in Snapshots, NEW back \in BOOLEAN,
         Chain(s, x, back)
  PROVE  Chain(Newest(s), x, back)
<1>0. UndoLimit \in Nat \ {0} /\ Len(s) \in Nat
  BY BoundsAssumption DEF BoundsAssumption
<1>1. CASE Len(s) <= UndoLimit
  BY <1>0, <1>1 DEF Newest
<1>2. CASE Len(s) > UndoLimit
  <2>1. PICK m \in Nat : m = Len(s) - UndoLimit
    BY <1>0, <1>2
  <2> DEFINE t == SubSeq(s, m + 1, Len(s))
  <2>2. m + UndoLimit = Len(s) /\ m + 1 \in 1..Len(s)
    BY <1>0, <2>1
  <2>3. Newest(s) = t
    <3>1. m + 1 = Len(s) - UndoLimit + 1
      BY <1>0, <2>1
    <3> QED
      BY <1>2, <3>1 DEF Newest
  <2>4. /\ Len(t) = UndoLimit
        /\ \A i \in 1..UndoLimit : t[i] = s[m + i]
    <3>1. \A i \in (m + 1)..Len(s) : s[i] \in S
      BY <2>2, ElementOfSeq
    <3>2. PICK l \in Nat : l = m + 1
      BY <2>1
    <3>3. Len(s) - l + 1 = UndoLimit /\ l <= Len(s) /\ l \in 1..(Len(s) + 1)
      BY <1>0, <2>1, <2>2, <3>2
    <3>4. /\ Len(SubSeq(s, l, Len(s))) = Len(s) - l + 1
          /\ \A i \in 1..(Len(s) - l + 1) : SubSeq(s, l, Len(s))[i] = s[l + i - 1]
      BY <1>0, <3>1, <3>2, <3>3, SubSeqProperties
    <3>5. \A i \in 1..UndoLimit : l + i - 1 = m + i
      BY <1>0, <2>1, <3>2
    <3> QED
      BY <3>2, <3>3, <3>4, <3>5
  <2>5. PICK h \in [0..Len(s) -> Snapshots] :
          h[Len(s)] = x /\ \A i \in 1..Len(s) : Link(s[i], h[i - 1], h[i], back)
    BY DEF Chain
  <2> HIDE DEF t
  <2> DEFINE g == [i \in 0..UndoLimit |-> h[m + i]]
  <2>6. \A i \in 0..UndoLimit : m + i \in 0..Len(s)
    BY <1>0, <2>1
  <2>7. g \in [0..UndoLimit -> Snapshots] /\ g[UndoLimit] = x
    <3>1. UndoLimit \in 0..UndoLimit
      BY <1>0
    <3> QED
      BY <2>2, <2>5, <2>6, <3>1
  <2>8. ASSUME NEW i \in 1..UndoLimit PROVE Link(t[i], g[i - 1], g[i], back)
    <3>1. /\ m + i \in 1..Len(s) /\ (m + i) - 1 = m + (i - 1)
          /\ i \in 0..UndoLimit /\ i - 1 \in 0..UndoLimit
      BY <1>0, <2>1
    <3>2. PICK j \in 1..Len(s) : j = m + i
      BY <3>1
    <3>3. Link(s[j], h[j - 1], h[j], back)
      BY <2>5, <3>2
    <3> QED
      BY <2>4, <3>1, <3>2, <3>3
  <2> QED
    BY <2>3, <2>4, <2>7, <2>8 DEF Chain
<1> QED
  BY <1>0, <1>1, <1>2

(* Under the top entry of a stack is the state it came from. *)
LEMMA ChainPop ==
  ASSUME NEW S, NEW s \in Seq(S), s # <<>>, NEW x \in Snapshots, NEW back \in BOOLEAN,
         Chain(s, x, back)
  PROVE  \E a \in Snapshots : Chain(Front(s), a, back) /\ Link(Last(s), a, x, back)
<1> DEFINE n == Len(s)
           t == Front(s)
<1>1. n \in Nat \ {0} /\ Len(t) = n - 1
  BY PopProperties
<1>2. \A i \in 1..(n - 1) : t[i] = s[i]
  <2>1. \A i \in 1..(n - 1) : s[i] \in S
    BY <1>1, ElementOfSeq
  <2>2. 1 \in Nat /\ n - 1 \in Nat
    BY <1>1
  <2>3. \A i \in 1..(n - 1 - 1 + 1) : t[i] = s[1 + i - 1]
    BY <1>1, <2>1, SubSeqProperties DEF Front
  <2>4. n - 1 - 1 + 1 = n - 1 /\ \A i \in 1..(n - 1) : 1 + i - 1 = i
    BY <1>1
  <2> QED
    BY <2>3, <2>4
<1>3. PICK h \in [0..n -> Snapshots] :
        h[n] = x /\ \A i \in 1..n : Link(s[i], h[i - 1], h[i], back)
  BY DEF Chain
<1> HIDE DEF n, t
<1>4. n - 1 \in 0..n /\ n \in 1..n
  BY <1>1
<1> DEFINE g == [i \in 0..(n - 1) |-> h[i]]
<1>5. g \in [0..(n - 1) -> Snapshots] /\ g[n - 1] = h[n - 1]
  <2>1. n - 1 \in 0..(n - 1) /\ \A i \in 0..(n - 1) : i \in 0..n
    BY <1>1
  <2> QED
    BY <2>1
<1>6. ASSUME NEW i \in 1..(n - 1) PROVE Link(t[i], g[i - 1], g[i], back)
  <2>1. i \in 1..n /\ i \in 0..(n - 1) /\ i - 1 \in 0..(n - 1)
    BY <1>1
  <2> QED
    BY <1>2, <1>3, <2>1
<1>7. Chain(t, h[n - 1], back)
  BY <1>1, <1>5, <1>6 DEF Chain
<1>8. Link(Last(s), h[n - 1], x, back)
  BY <1>3, <1>4 DEF Last, n
<1> QED
  BY <1>3, <1>4, <1>7, <1>8 DEF t

(* An entry joins the snapshot it was taken from and the present. *)
LEMMA EntryJoins ==
  ASSUME NEW c, NEW k, NEW b \in Snapshots, repo \in Snapshots
  PROVE  Joins(Entry(c, k, b), b, repo)
<1> DEFINE D == Differing(b, repo)
<1>1. \A p \in Parts : p \notin D => b[p] = repo[p]
  BY DEF Differing
<1> HIDE DEF D
<1>2. Entry(c, k, b) = [cmd |-> c, op |-> k, before |-> [p \in D |-> b[p]],
                        after |-> [p \in D |-> repo[p]]]
  BY DEF Entry, D
<1> QED
  BY <1>1, <1>2 DEF Joins

(* A recorded entry continues the history. *)
LEMMA FitsPush ==
  ASSUME NEW u \in Seq(Entries), NEW b \in Snapshots, repo \in Snapshots,
         NEW c, NEW k, Entry(c, k, b) \in Entries, Chain(u, b, FALSE)
  PROVE  /\ Chain(Newest(Append(u, Entry(c, k, b))), repo, FALSE)
         /\ Chain(<<>>, repo, TRUE)
<1> DEFINE e == Entry(c, k, b)
<1>1. Link(e, b, repo, FALSE)
  BY EntryJoins DEF Link
<1> HIDE DEF e
<1>2. Append(u, e) \in Seq(Entries)
  BY AppendProperties DEF e
<1>3. Chain(Append(u, e), repo, FALSE)
  BY <1>1, ChainPush DEF e
<1> QED
  BY <1>2, <1>3, ChainNewest, ChainEmpty DEF e

-----------------------------------------------------------------------------
(* The history never drifts from the repository.                           *)

(* Nothing but recorded commands, the operations they start and steps back *)
(* and forth happens, every wait and every write succeeds, and where there *)
(* are no locks there is one window.                                       *)
Calm ==
  /\ Env \subseteq {"sameTick"}
  /\ Kinds \subseteq Recorded \cup {"continue", "undo", "redo"}
  /\ LocksWork \/ \A v, w \in Workers : v = w

Waiting == {"down", "idle", "acquire"}

AtEnd(w) == pc[w] \in {"finish", "finishLock", "finishWrite"}

(* The worker that is past the lock knows undo.json. *)
QuietOf(w) ==
  /\ ~blocked[w] /\ staleOp[w] = {} /\ ~job[w].unrecorded
  /\ LocksWork \/ (fresh[w] => cache[w] = file.stacks)
  /\ pc[w] \notin Early => cache[w] = file.stacks

QuietOK == ~file.newer /\ \A w \in Workers : QuietOf(w)

(* A paused operation has its entry pending, or with the worker that left  *)
(* it; what runs outside one has its snapshot.                             *)
PausedOK ==
  /\ \A w \in Workers : active[w] # {} => file.stacks.pending = {}
  /\ \A w \in Workers : pc[w] \notin {"settleLock", "settleDrop"}
  /\ \A p \in file.stacks.pending : p.op = op \/ (op = 0 /\ \E w \in Workers : AtEnd(w))
  /\ op # 0 => file.stacks.pending # {} \/ \E w \in Workers : AtEnd(w) /\ active[w] # {}
  /\ \A w \in Workers :
       pc[w] \in {"gate", "run"} /\ job[w].kind \in Recorded /\ op = 0 => active[w] # {}

(* The history fits the state that the next entry will start from. *)
StandsOK ==
  /\ \A w \in Workers : \A b \in active[w] : Fits(file.stacks, b)
  /\ \A p \in file.stacks.pending : Fits(file.stacks, p.before)
  /\ \A w \in Workers : pc[w] = "stepSave" => Fits(Moved(w), repo)
  /\ (\A w \in Workers : active[w] = {} /\ pc[w] # "stepSave") /\ file.stacks.pending = {} =>
       Fits(file.stacks, repo)

CalmInv == (LocksWork => GuardOK) /\ PlanOK /\ QuietOK /\ PausedOK /\ StandsOK

(* One worker at a time is past the lock. *)
LEMMA AloneHolds ==
  ASSUME Calm, LockInv, CalmInv, NEW w \in Workers, pc[w] \notin Waiting
  PROVE  /\ LocksWork => guard[w]
         /\ \A v \in Workers \ {w} : LocksWork /\ pc[v] \in Waiting /\ active[v] = {}
<1>1. ASSUME NEW v \in Workers, pc[v] \notin Waiting, LocksWork PROVE guard[v]
  <2>1. job[v].kind \in Locking
    BY <1>1 DEF CalmInv, PlanOK, PlanOf, Calm, Locking, Waiting
  <2> QED
    BY <1>1, <2>1 DEF CalmInv, GuardOK, Waiting
<1>2. ASSUME NEW v \in Workers \ {w} PROVE LocksWork /\ pc[v] \in Waiting /\ active[v] = {}
  <2>1. LocksWork
    BY <1>2 DEF Calm
  <2>2. ~guard[v]
    BY <1>1, <1>2, <2>1 DEF LockInv, LockOK
  <2>3. pc[v] \in Waiting
    BY <1>1, <2>1, <2>2
  <2> QED
    BY <2>1, <2>3 DEF CalmInv, PlanOK, PlanOf, Waiting
<1> QED
  BY <1>1, <1>2

(* What a worker does when nothing goes wrong. *)
LEMMA CalmStep ==
  ASSUME Calm, LockInv, CalmInv, NEW w \in Workers, WorkerStep(w)
  PROVE  \/ Spawn(w) \/ Acquire(w) \/ AcquireUnavailable(w)
         \/ Settle(w) \/ Begin(w) \/ Gate(w) \/ Run(w)
         \/ StepExclusive(w) \/ StepRestore(w) \/ StepRefused(w) \/ StepSave(w)
         \/ FinishPaused(w) \/ FinishEnded(w) \/ FinishExclusive(w) \/ FinishWrite(w)
         \/ Release(w)
<1>1. ~RefuseBusy(w) /\ ~RunUnrecorded(w) /\ ~StepError(w)
  BY DEF Calm, RefuseBusy, RunUnrecorded, StepError
<1>2. ~SettleExclusive(w) /\ ~SettleBusy(w) /\ ~SettleDrop(w)
  BY DEF CalmInv, PausedOK, SettleExclusive, SettleBusy, SettleDrop
<1>3. ~FinishBusy(w)
  BY AloneHolds DEF FinishBusy, Unfinished, ExclusiveBusy, Waiting
<1> QED
  BY <1>1, <1>2, <1>3 DEF WorkerStep

LEMMA CalmCurrent ==
  ASSUME Calm, CalmInv, NEW w \in Workers
  PROVE  /\ pc[w] \in Writing => Current(w)
         /\ Lands(w)
BY DEF Calm, CalmInv, QuietOK, QuietOf, Current, Writing, Early, Lands

(* A step of the worker itself leaves it knowing undo.json. *)
LEMMA QuietOwn ==
  ASSUME Calm, TypeInv, LockInv, CalmInv, NEW w \in Workers, WorkerStep(w)
  PROVE  ~file'.newer /\ QuietOf(w)'
<1> USE DEF TypeInv, TypeOK, LoopTypeOK, HistoryTypeOK
<1>0. QuietOf(w) /\ ~file.newer
  BY DEF CalmInv, QuietOK
<1>1. ~job'[w].unrecorded
  <2>1. CASE Begin(w) \/ Gate(w)
    BY <1>0, <2>1 DEF QuietOf, Begin, Gate, Jobs
  <2>2. CASE Run(w)
    BY <1>0, <2>2 DEF QuietOf, Run, Jobs
  <2>3. CASE StepRefused(w) \/ StepSave(w)
    BY <1>0, <2>3 DEF QuietOf, StepRefused, StepSave, Jobs
  <2>4. CASE Release(w)
    BY <2>4 DEF Release, NoJob, NewJob
  <2>5. CASE job' = job
    BY <1>0, <2>5 DEF QuietOf
  <2> QED
    BY <2>1, <2>2, <2>3, <2>4, <2>5, CalmStep
       DEF Spawn, Acquire, AcquireUnavailable, Settle, StepExclusive, StepRestore,
           FinishPaused, FinishEnded, FinishExclusive, FinishWrite
<1>2. staleOp'[w] = {}
  BY <1>0, CalmStep
     DEF QuietOf, Spawn, Acquire, AcquireUnavailable, Settle, Begin, Gate, Run, StepExclusive,
         StepRestore, StepRefused, StepSave, FinishPaused, FinishEnded, FinishExclusive,
         FinishWrite, Release, recorderVars
<1>3. CASE StepSave(w) \/ FinishWrite(w)
  <2>1. Current(w) /\ Lands(w)
    BY <1>3, CalmCurrent DEF StepSave, FinishWrite, Writing
  <2>2. /\ cache'[w] = file'.stacks /\ ~file'.newer
    BY <1>3, <2>1, PersistEdit, FinishEdit DEF StepSave
  <2>3. blocked' = blocked
    BY <1>3 DEF StepSave, FinishWrite, FinishActive, FinishPending, Record, Persist, Keep
  <2> QED
    BY <1>0, <1>1, <1>2, <2>2, <2>3 DEF QuietOf
<1>4. CASE file' = file /\ Load(w)
  BY <1>0, <1>1, <1>2, <1>4 DEF QuietOf, Load
<1>5. CASE file' = file /\ Keep /\ (pc[w] \notin Early \/ pc'[w] \in Early)
  BY <1>0, <1>1, <1>2, <1>5 DEF QuietOf, Keep
<1>6. CASE Settle(w)
  <2>1. LocksWork => guard[w]
    BY <1>6, AloneHolds DEF Settle, Waiting
  <2>2. CASE ~fresh[w] \/ guard[w]
    BY <1>0, <1>4, <1>6, <2>2 DEF Settle, Reload, ReloadIfChanged, QuietOf
  <2>3. CASE fresh[w] /\ ~guard[w]
    <3>1. Keep /\ file' = file /\ cache[w] = file.stacks
      BY <1>0, <1>6, <2>1, <2>3 DEF Settle, ReloadIfChanged, QuietOf
    <3> QED
      BY <1>0, <1>1, <1>2, <3>1 DEF QuietOf, Keep
  <2> QED
    BY <2>2, <2>3
<1>7. CASE StepExclusive(w) \/ FinishExclusive(w)
  BY <1>0, <1>4, <1>7 DEF StepExclusive, FinishExclusive, TakeExclusive, Reload, QuietOf
<1>8. CASE FinishEnded(w)
  BY <1>4, <1>5, <1>8 DEF FinishEnded, ReloadIfChanged, Early
<1>9. CASE Spawn(w)
  BY <1>4, <1>9 DEF Spawn
<1>10. CASE Acquire(w) \/ AcquireUnavailable(w) \/ Release(w)
  BY <1>5, <1>10 DEF Acquire, AcquireUnavailable, Release, Goto, Early, Keep, recorderVars
<1>11. CASE \/ Begin(w) \/ Gate(w) \/ Run(w) \/ StepRestore(w) \/ StepRefused(w)
            \/ FinishPaused(w)
  <2>1. file' = file /\ Keep /\ pc[w] \notin Early
    BY <1>11 DEF Begin, Gate, Run, StepRestore, StepRefused, FinishPaused, Keep, recorderVars,
                 Early
  <2> QED
    BY <1>5, <2>1
<1> QED
  BY <1>3, <1>6, <1>7, <1>8, <1>9, <1>10, <1>11, CalmStep

LEMMA QuietNext ==
  ASSUME Calm, TypeInv, LockInv, CalmInv, NEW w \in Workers, WorkerStep(w)
  PROVE  QuietOK'
<1>1. ASSUME NEW v \in Workers \ {w} PROVE QuietOf(v)'
  <2>1. /\ pc'[v] = pc[v] /\ job'[v] = job[v] /\ cache'[v] = cache[v]
        /\ blocked'[v] = blocked[v] /\ staleOp'[v] = staleOp[v]
    BY OthersKeep
  <2>2. LocksWork /\ QuietOf(v)
    BY DEF Calm, CalmInv, QuietOK
  <2>3. pc[v] \notin Early => file' = file
    <3>1. ASSUME pc[v] \notin Early, file' # file PROVE FALSE
      <4>1. pc[w] \in Writing
        BY <3>1, CalmCurrent, FileStep
      <4> QED
        BY <3>1, <4>1, AloneHolds DEF Writing, Waiting, Early
    <3> QED
      BY <3>1
  <2> QED
    BY <2>1, <2>2, <2>3 DEF QuietOf
<1> QED
  BY <1>1, QuietOwn DEF QuietOK

(* A step back or forward restores the state under the top entry. *)
LEMMA RestoreFits ==
  ASSUME TypeInv, NEW w \in Workers, StepRestore(w), Fits(cache[w], repo)
  PROVE  Fits(Moved(w), repo')
<1> USE DEF TypeInv, TypeOK, RepoTypeOK, HistoryTypeOK
<1> DEFINE s == cache[w]
<1>1. s \in Stacks /\ s.undo \in Seq(Entries) /\ s.redo \in Seq(Entries) /\ repo \in Snapshots
  BY StacksProperties
<1>2. Source(w) # <<>> /\ repo' = Written(w, DOMAIN Target(w))
  BY DEF StepRestore, CanStep
<1>3. ASSUME NEW a \in Snapshots, NEW e, Target(w) = e,
             \A p \in Parts : IF p \in DOMAIN e THEN a[p] = e[p] ELSE a[p] = repo[p]
      PROVE  repo' = a
  <2>1. repo' = [p \in Parts |-> IF p \in DOMAIN e THEN e[p] ELSE repo[p]]
    BY <1>2, <1>3 DEF Written
  <2>2. a = [p \in Parts |-> a[p]]
    BY DEF Snapshots
  <2> QED
    BY <1>3, <2>1, <2>2
<1>4. CASE job[w].kind = "undo"
  <2> DEFINE e == Last(s.undo)
  <2>1. s.undo # <<>> /\ e \in Entries /\ Target(w) = e.before
    BY <1>1, <1>2, <1>4, PopProperties DEF Source, Target
  <2>2. /\ Moved(w).undo = Front(s.undo)
        /\ Moved(w).redo = Append(s.redo, e)
    BY <1>1, <1>4 DEF Moved, Stacks
  <2> HIDE DEF e
  <2>3. PICK a \in Snapshots : Chain(Front(s.undo), a, FALSE) /\ Link(e, a, repo, FALSE)
    BY <1>1, <2>1, ChainPop DEF Fits, e
  <2>4. Link(e, repo, a, TRUE)
    BY <2>3 DEF Link
  <2>5. repo' = a
    BY <1>3, <2>1, <2>3 DEF Link, Joins
  <2>6. Chain(Append(s.redo, e), a, TRUE)
    BY <1>1, <2>1, <2>4, ChainPush DEF Fits
  <2> QED
    BY <2>2, <2>3, <2>5, <2>6 DEF Fits
<1>5. CASE job[w].kind # "undo"
  <2> DEFINE e == Last(s.redo)
  <2>1. s.redo # <<>> /\ e \in Entries /\ Target(w) = e.after
    BY <1>1, <1>2, <1>5, PopProperties DEF Source, Target
  <2>2. /\ Moved(w).redo = Front(s.redo)
        /\ Moved(w).undo = Append(s.undo, e)
    BY <1>1, <1>5 DEF Moved, Stacks
  <2> HIDE DEF e
  <2>3. PICK a \in Snapshots : Chain(Front(s.redo), a, TRUE) /\ Link(e, a, repo, TRUE)
    BY <1>1, <2>1, ChainPop DEF Fits, e
  <2>4. Link(e, repo, a, FALSE)
    BY <2>3 DEF Link
  <2>5. repo' = a
    BY <1>3, <2>1, <2>3 DEF Link, Joins
  <2>6. Chain(Append(s.undo, e), a, FALSE)
    BY <1>1, <2>1, <2>4, ChainPush DEF Fits
  <2> QED
    BY <2>2, <2>3, <2>5, <2>6 DEF Fits
<1> QED
  BY <1>4, <1>5

(* The same two facts for the one worker past the lock. *)
PausedAt(w) ==
  /\ active[w] # {} => file.stacks.pending = {}
  /\ pc[w] \notin {"settleLock", "settleDrop"}
  /\ \A p \in file.stacks.pending : p.op = op \/ (op = 0 /\ AtEnd(w))
  /\ op # 0 => file.stacks.pending # {} \/ (AtEnd(w) /\ active[w] # {})
  /\ pc[w] \in {"gate", "run"} /\ job[w].kind \in Recorded /\ op = 0 => active[w] # {}

StandsAt(w) ==
  /\ \A b \in active[w] : Fits(file.stacks, b)
  /\ \A p \in file.stacks.pending : Fits(file.stacks, p.before)
  /\ pc[w] = "stepSave" => Fits(Moved(w), repo)
  /\ active[w] = {} /\ pc[w] # "stepSave" /\ file.stacks.pending = {} => Fits(file.stacks, repo)

(* What is known of the worker past the lock. *)
KnownAt(w) ==
  /\ PausedAt(w) /\ StandsAt(w) /\ PlanOf(w) /\ QuietOf(w)
  /\ pc[w] \notin Early => cache[w] = file.stacks
  /\ pc[w] \notin {"finish", "finishLock", "finishWrite"} /\ op = 0 => file.stacks.pending = {}
  /\ \A p \in file.stacks.pending : p \in PendingEntries /\ p.op \in Ops /\ p.op # 0

LEMMA KnownHolds ==
  ASSUME Calm, TypeInv, LockInv, CalmInv, NEW w \in Workers, pc[w] \notin Waiting
  PROVE  KnownAt(w)
<1>1. \A v \in Workers \ {w} : pc[v] \in Waiting /\ active[v] = {}
  BY AloneHolds
<1>2. PausedAt(w)
  BY <1>1 DEF CalmInv, PausedOK, PausedAt, AtEnd, Waiting
<1>3. StandsAt(w)
  BY <1>1 DEF CalmInv, StandsOK, StandsAt, Waiting
<1>4. \A p \in file.stacks.pending : p \in PendingEntries /\ p.op \in Ops /\ p.op # 0
  <2>1. file.stacks.pending \subseteq PendingEntries
    BY StacksProperties DEF TypeInv, TypeOK, HistoryTypeOK
  <2>2. \A p \in PendingEntries : p.op \in Ops /\ p.op # 0
    BY BoundsAssumption DEF PendingEntries, Ops, BoundsAssumption
  <2> QED
    BY <2>1, <2>2
<1>5. PlanOf(w) /\ QuietOf(w)
  BY DEF CalmInv, PlanOK, QuietOK
<1> QED
  BY <1>2, <1>3, <1>4, <1>5 DEF KnownAt, QuietOf, PausedAt, AtEnd

(* Its steps up to the snapshot. *)
LEMMA SettledAt ==
  ASSUME Calm, TypeInv, LockInv, CalmInv, NEW w \in Workers, KnownAt(w),
         Settle(w) \/ Begin(w) \/ Gate(w)
  PROVE  PausedAt(w)' /\ StandsAt(w)'
<1> USE DEF TypeInv, TypeOK, LoopTypeOK, HistoryTypeOK
<1>1. CASE Settle(w)
  <2>1. WorkerStep(w) /\ pc[w] = "settle" /\ pc'[w] \notin Early /\ file' = file
    BY <1>1 DEF WorkerStep, Settle, Goto, Early
  <2>2. cache'[w] = file.stacks
    BY <2>1, QuietOwn DEF QuietOf
  <2>3. ~Stale(cache'[w].pending)
    BY <2>1, <2>2 DEF KnownAt, PausedAt, AtEnd, Stale
  <2>4. pc'[w] = "begin" /\ UNCHANGED <<repo, op, file, active, job>>
    BY <1>1, <2>3 DEF Settle, Goto, repoVars
  <2> QED
    BY <2>1, <2>4 DEF KnownAt, PausedAt, StandsAt, AtEnd
<1>2. CASE Begin(w)
  <2>1. /\ pc[w] = "begin" /\ pc'[w] = "gate" /\ UNCHANGED <<repo, op, file>>
        /\ job'[w].kind = job[w].kind
        /\ cache[w] = file.stacks /\ active[w] = {}
    BY <1>2 DEF Begin, Goto, Jobs, repoVars, KnownAt, PlanOf, Early
  <2>2. \/ active'[w] = {repo} /\ file.stacks.pending = {}
        \/ active'[w] = {} /\ (job[w].kind \notin Recorded \/ op # 0)
    <3>1. /\ Planned(w) <=> job[w].kind \in Recorded
          /\ "captureFails" \notin Env
      BY DEF Planned, KnownAt, QuietOf, Calm
    <3>2. op = 0 => file.stacks.pending = {}
      BY <2>1 DEF KnownAt
    <3>3. \/ active'[w] = {repo} /\ cache[w].pending = {}
          \/ active'[w] = {} /\ (~Planned(w) \/ cache[w].pending # {} \/ op # 0)
      BY <1>2, <2>1, <3>1 DEF Begin
    <3> QED
      BY <2>1, <3>1, <3>2, <3>3
  <2>3. file.stacks.pending = {} => Fits(file.stacks, repo)
    BY <2>1 DEF KnownAt, StandsAt
  <2>4. PausedAt(w)'
    BY <2>1, <2>2 DEF KnownAt, PausedAt, AtEnd
  <2>5. StandsAt(w)'
    BY <2>1, <2>2, <2>3 DEF KnownAt, StandsAt
  <2> QED
    BY <2>4, <2>5
<1>3. CASE Gate(w)
  <2>1. /\ pc[w] = "gate" /\ pc'[w] = "run" /\ UNCHANGED <<repo, op, file, active>>
        /\ job'[w].kind = job[w].kind
    BY <1>3 DEF Gate, Goto, Jobs, repoVars, recorderVars
  <2> QED
    BY <2>1 DEF KnownAt, PausedAt, StandsAt, AtEnd
<1> QED
  BY <1>1, <1>2, <1>3

(* The command itself: outside an operation only what has a snapshot       *)
(* changes anything.                                                       *)
LEMMA RanAt ==
  ASSUME Calm, TypeInv, NEW w \in Workers, KnownAt(w), Run(w)
  PROVE  PausedAt(w)' /\ StandsAt(w)'
<1> USE DEF TypeInv, TypeOK, LoopTypeOK, HistoryTypeOK
<1>1. /\ pc[w] = "run" /\ UNCHANGED <<file, active>>
      /\ pc'[w] = IF job[w].track THEN "finish" ELSE "release"
      /\ cache[w] = file.stacks
  BY DEF Run, Goto, AfterRun, recorderVars, KnownAt, Early
<1>2. job[w].kind \in Recorded \cup {"continue"}
  BY <1>1 DEF KnownAt, PlanOf, Calm, Run
<1>3. file.stacks.pending # {} \/ active[w] # {} => pc'[w] = "finish"
  BY <1>1 DEF KnownAt, PlanOf
<1>4. WorkerStep(w)
  BY DEF WorkerStep
<1>5. ~AtEnd(w)
  BY <1>1 DEF AtEnd
<1>6. PausedAt(w)'
  <2>1. CASE SameOps
    BY <1>1, <1>3, <1>5, <2>1 DEF SameOps, KnownAt, PausedAt, AtEnd
  <2>2. CASE job[w].kind = "start" /\ StartsOp
    <3>1. op = 0 /\ active[w] # {} /\ file.stacks.pending = {}
      BY <1>1, <2>2 DEF StartsOp, KnownAt, PausedAt, Recorded
    <3> QED
      BY <1>1, <1>3, <3>1 DEF PausedAt, AtEnd
  <2>3. CASE op' = 0
    BY <1>1, <1>3, <2>3 DEF KnownAt, PausedAt, AtEnd
  <2> QED
    BY <1>4, <2>1, <2>2, <2>3, WorkerOps DEF EndsOp
<1>7. ASSUME active[w] = {}, file.stacks.pending = {} PROVE repo' = repo /\ Fits(file.stacks, repo)
  <2>1. op = 0 /\ job[w].kind = "continue"
    BY <1>1, <1>2, <1>5, <1>7 DEF KnownAt, PausedAt
  <2>2. op \notin StoredOps
    BY <2>1, OpsAssumption, BoundsAssumption DEF OpsAssumption, Ops, BoundsAssumption
  <2>3. NoEffect
    BY <2>1, <2>2 DEF Run, Effect, NeedsNoOperation
  <2> QED
    BY <1>1, <1>7, <2>3 DEF NoEffect, repoVars, KnownAt, StandsAt
<1>8. StandsAt(w)'
  <2>1. pc'[w] # "stepSave"
    BY <1>1
  <2> QED
    BY <1>1, <1>7, <2>1 DEF KnownAt, StandsAt
<1> QED
  BY <1>6, <1>8

(* A step back or forward. *)
LEMMA SteppedAt ==
  ASSUME Calm, TypeInv, NEW w \in Workers, KnownAt(w), Current(w), Lands(w),
         StepExclusive(w) \/ StepRestore(w) \/ StepRefused(w) \/ StepSave(w)
  PROVE  PausedAt(w)' /\ StandsAt(w)'
<1> USE DEF TypeInv, TypeOK, LoopTypeOK, HistoryTypeOK
<1>1. CASE StepExclusive(w)
  <2>1. /\ pc[w] = "run" /\ pc'[w] = "step" /\ UNCHANGED <<repo, op, file, active, job>>
    BY <1>1 DEF StepExclusive, Goto, repoVars
  <2> QED
    BY <2>1 DEF KnownAt, PausedAt, StandsAt, AtEnd
<1>2. CASE StepRefused(w)
  <2>1. /\ pc[w] = "step" /\ pc'[w] \in {"finish", "release"}
        /\ UNCHANGED <<repo, op, file, active>> /\ active[w] = {}
    BY <1>2 DEF StepRefused, Goto, AfterRun, repoVars, recorderVars, KnownAt, PlanOf
  <2> QED
    BY <2>1 DEF KnownAt, PausedAt, StandsAt, AtEnd
<1>3. CASE StepRestore(w)
  <2>1. /\ pc[w] = "step" /\ pc'[w] = "stepSave" /\ UNCHANGED <<op, file, active, cache, job>>
        /\ active[w] = {} /\ op = 0 /\ file.stacks.pending = {} /\ cache[w] = file.stacks
    BY <1>3 DEF StepRestore, CanStep, Goto, recorderVars, KnownAt, PlanOf, Early
  <2>2. Fits(cache[w], repo)
    BY <2>1 DEF KnownAt, StandsAt
  <2>3. Fits(Moved(w), repo')
    BY <1>3, <2>2, RestoreFits
  <2>4. Moved(w)' = Moved(w)
    BY <2>1 DEF Moved
  <2>5. PausedAt(w)'
    BY <2>1 DEF PausedAt
  <2> QED
    BY <2>1, <2>3, <2>4, <2>5 DEF StandsAt
<1>4. CASE StepSave(w)
  <2>1. /\ pc[w] = "stepSave" /\ pc'[w] \in {"finish", "release"}
        /\ UNCHANGED <<repo, op, active>> /\ active[w] = {} /\ Persist(w, Moved(w))
        /\ cache[w] = file.stacks /\ cache[w].pending = {}
    BY <1>4 DEF StepSave, Goto, AfterRun, repoVars, KnownAt, PlanOf, Early, JobOK
  <2>2. file'.stacks = Moved(w) /\ Moved(w).pending = {}
    BY <2>1, PersistEdit, MovedKeeps
  <2>3. Fits(file'.stacks, repo') /\ op' = 0
    BY <2>1, <2>2 DEF KnownAt, PausedAt, StandsAt, AtEnd
  <2>4. PausedAt(w)'
    BY <2>1, <2>2, <2>3 DEF PausedAt
  <2> QED
    BY <2>1, <2>2, <2>3, <2>4 DEF StandsAt
<1> QED
  BY <1>1, <1>2, <1>3, <1>4

(* The finish: the entry leads from its snapshot to the present. *)
LEMMA FinishedAt ==
  ASSUME Calm, TypeInv, NEW w \in Workers, KnownAt(w), Current(w), Lands(w), FinishWrite(w)
  PROVE  PausedAt(w)' /\ StandsAt(w)'
<1> USE DEF TypeInv, TypeOK, RepoTypeOK, LoopTypeOK, HistoryTypeOK
<1>0. /\ pc[w] = "finishWrite" /\ pc'[w] = "release" /\ active'[w] = {}
      /\ UNCHANGED <<repo, op>> /\ cache[w] = file.stacks
  BY DEF FinishWrite, Goto, repoVars, KnownAt, Early
<1>1. file.stacks.undo \in Seq(Entries) /\ repo \in Snapshots
  BY StacksProperties
<1>2. ASSUME op = 0, file'.stacks.pending = {}, Fits(file'.stacks, repo)
      PROVE  PausedAt(w)' /\ StandsAt(w)'
  <2>1. PausedAt(w)'
    BY <1>0, <1>2 DEF PausedAt
  <2> QED
    BY <1>0, <1>2, <2>1 DEF StandsAt
<1>3. ASSUME NEW c, NEW k, NEW b \in Snapshots, Pushes(Entry(c, k, b)), Fits(file.stacks, b)
      PROVE  Fits(file'.stacks, repo)
  <2>1. Chain(file.stacks.undo, b, FALSE) /\ Entry(c, k, b) \in Entries
    BY <1>3 DEF Fits, Pushes
  <2>2. /\ Chain(Newest(Append(file.stacks.undo, Entry(c, k, b))), repo, FALSE)
        /\ Chain(<<>>, repo, TRUE)
    BY <1>1, <2>1, FitsPush
  <2> QED
    BY <1>3, <2>2 DEF Fits, Pushes
<1>4. CASE Forgets(w) /\ op = 0 /\ active[w] = {}
  <2>1. /\ job[w].kind # "abort" /\ staleOp[w] = {} /\ "captureFails" \notin Env
        /\ ~SettleDrop(w)
    BY <1>0 DEF KnownAt, PlanOf, QuietOf, Calm, Recorded, SettleDrop
  <2>2. PICK p \in file.stacks.pending : repo = p.before
    BY <1>4, <2>1 DEF Forgets
  <2>3. Fits(file.stacks, repo)
    BY <2>2 DEF KnownAt, StandsAt
  <2> QED
    BY <1>2, <1>4, <2>3 DEF Forgets, Drops, Fits
<1>5. CASE Pauses(w)
  <2>1. PICK b \in active[w] :
          file'.stacks.pending = {[cmd |-> job[w].id, op |-> op, before |-> b]}
    BY <1>5 DEF Pauses
  <2>2. Fits(file'.stacks, b)
    BY <1>5, <2>1 DEF Pauses, Fits, KnownAt, StandsAt
  <2>3. PausedAt(w)'
    BY <1>0, <2>1 DEF PausedAt
  <2>4. file'.stacks.pending # {} /\ \A p \in file'.stacks.pending : p.before = b
    BY <2>1
  <2>5. StandsAt(w)'
    BY <1>0, <2>2, <2>4 DEF StandsAt
  <2> QED
    BY <2>3, <2>5
<1>6. CASE RecordsOwn(w)
  <2>1. PICK b \in active[w] : Pushes(Entry(job[w].id, 0, b))
    BY <1>6 DEF RecordsOwn
  <2>2. b \in Snapshots /\ Fits(file.stacks, b) /\ file'.stacks.pending = {} /\ op = 0
    BY <1>6, <2>1 DEF RecordsOwn, KnownAt, StandsAt, PausedAt
  <2> QED
    BY <1>2, <1>3, <2>1, <2>2
<1>7. CASE RecordsPending(w)
  <2>1. PICK p \in file.stacks.pending : Pushes(Entry(p.cmd, p.op, p.before))
    BY <1>7 DEF RecordsPending
  <2>2. p \in PendingEntries /\ Fits(file.stacks, p.before)
    BY DEF KnownAt, StandsAt
  <2>3. p.before \in Snapshots
    BY <2>2 DEF PendingEntries
  <2> QED
    BY <1>2, <1>3, <1>7, <2>1, <2>2, <2>3 DEF RecordsPending
<1>8. CASE LeavesAlone(w)
  <2>1. CASE active[w] # {}
    <3>1. PICK b \in active[w] : repo = b
      BY <1>8, <2>1 DEF LeavesAlone, Calm
    <3> QED
      BY <1>2, <1>8, <2>1, <3>1 DEF LeavesAlone, KnownAt, StandsAt, PausedAt
  <2>2. CASE active[w] = {} /\ op = 0
    BY <1>0, <1>2, <1>8, <2>2 DEF LeavesAlone, KnownAt, StandsAt
  <2>3. CASE active[w] = {} /\ op # 0
    <3>1. file' = file
      BY <1>8 DEF LeavesAlone
    <3>2. PausedAt(w)'
      BY <1>0, <2>3, <3>1 DEF KnownAt, PausedAt
    <3>3. StandsAt(w)'
      BY <1>0, <2>3, <3>1 DEF KnownAt, StandsAt
    <3> QED
      BY <3>2, <3>3
  <2> QED
    BY <2>1, <2>2, <2>3
<1> QED
  BY <1>4, <1>5, <1>6, <1>7, <1>8, FinishEdit

LEMMA EndedAt ==
  ASSUME Calm, TypeInv, LockInv, CalmInv, NEW w \in Workers, KnownAt(w),
         FinishPaused(w) \/ FinishEnded(w) \/ FinishExclusive(w) \/ Release(w)
  PROVE  PausedAt(w)' /\ StandsAt(w)'
<1> USE DEF TypeInv, TypeOK, LoopTypeOK, HistoryTypeOK
<1>1. CASE FinishPaused(w)
  <2>1. /\ pc[w] = "finish" /\ pc'[w] = "release" /\ active[w] = {} /\ op # 0
        /\ UNCHANGED <<repo, op, file, active>>
    BY <1>1 DEF FinishPaused, Goto, repoVars, recorderVars
  <2> QED
    BY <2>1 DEF KnownAt, PausedAt, StandsAt
<1>2. CASE FinishEnded(w)
  <2>1. /\ pc[w] = "finish" /\ active[w] = {} /\ op = 0
        /\ pc'[w] = IF cache'[w].pending = {} THEN "release" ELSE "finishLock"
        /\ UNCHANGED <<repo, op, file, active>>
    BY <1>2 DEF FinishEnded, Goto, repoVars
  <2>2. WorkerStep(w) /\ pc'[w] \notin Early
    BY <1>2, <2>1 DEF WorkerStep, Early
  <2>3. cache'[w] = file.stacks
    BY <2>1, <2>2, QuietOwn DEF QuietOf
  <2> QED
    BY <2>1, <2>3 DEF KnownAt, PausedAt, StandsAt, AtEnd
<1>3. CASE FinishExclusive(w)
  <2>1. /\ pc[w] \in {"finish", "finishLock"} /\ pc'[w] = "finishWrite"
        /\ UNCHANGED <<repo, op, file, active>>
    BY <1>3 DEF FinishExclusive, Unfinished, Goto, repoVars
  <2> QED
    BY <2>1 DEF KnownAt, PausedAt, StandsAt, AtEnd
<1>4. CASE Release(w)
  <2>1. /\ pc[w] = "release" /\ pc'[w] = "idle" /\ active[w] = {}
        /\ UNCHANGED <<repo, op, file, active>>
    BY <1>4 DEF Release, Goto, repoVars, recorderVars, KnownAt, PlanOf
  <2> QED
    BY <2>1 DEF KnownAt, PausedAt, StandsAt, AtEnd
<1> QED
  BY <1>1, <1>2, <1>3, <1>4

(* Every step of the worker past the lock... *)
LEMMA CalmAt ==
  ASSUME Calm, TypeInv, LockInv, CalmInv, NEW w \in Workers, WorkerStep(w),
         pc[w] \notin Waiting
  PROVE  PausedAt(w)' /\ StandsAt(w)'
<1>1. KnownAt(w)
  BY KnownHolds
<1>2. Lands(w) /\ (pc[w] \in Writing => Current(w))
  BY CalmCurrent
<1>3. CASE Settle(w) \/ Begin(w) \/ Gate(w)
  BY <1>1, <1>3, SettledAt
<1>4. CASE Run(w)
  BY <1>1, <1>4, RanAt
<1>5. CASE StepRestore(w) \/ StepRefused(w) \/ StepSave(w)
  <2>1. pc[w] \in Writing
    BY <1>5 DEF StepRestore, StepRefused, StepSave, Writing
  <2> QED
    BY <1>1, <1>2, <1>5, <2>1, SteppedAt
<1>6. CASE StepExclusive(w)
  <2>1. Current(w)
    <3>1. cache[w] = file.stacks /\ ~file.newer
      BY <1>1, <1>6 DEF KnownAt, StepExclusive, Early, CalmInv, QuietOK
    <3> QED
      BY <3>1 DEF Current
  <2> QED
    BY <1>1, <1>2, <1>6, <2>1, SteppedAt
<1>7. CASE FinishWrite(w)
  <2>1. pc[w] \in Writing
    BY <1>7 DEF FinishWrite, Writing
  <2> QED
    BY <1>1, <1>2, <1>7, <2>1, FinishedAt
<1>8. CASE FinishPaused(w) \/ FinishEnded(w) \/ FinishExclusive(w) \/ Release(w)
  BY <1>1, <1>8, EndedAt
<1>9. ~Spawn(w) /\ ~Acquire(w) /\ ~AcquireUnavailable(w)
  BY DEF Waiting, Spawn, Acquire, AcquireUnavailable
<1> QED
  BY <1>3, <1>4, <1>5, <1>6, <1>7, <1>8, <1>9, CalmStep

(* ...and of one that is still to get there. *)
LEMMA CalmWorker ==
  ASSUME Calm, TypeInv, LockInv, CalmInv, NEW w \in Workers, WorkerStep(w)
  PROVE  PausedOK' /\ StandsOK'
<1> USE DEF TypeInv, TypeOK, LoopTypeOK, HistoryTypeOK
<1>1. \A v \in Workers \ {w} :
        /\ pc'[v] = pc[v] /\ job'[v] = job[v] /\ active'[v] = active[v]
        /\ cache'[v] = cache[v]
  BY OthersKeep
<1>2. CASE pc[w] \in Waiting
  <2>1. Spawn(w) \/ Acquire(w) \/ AcquireUnavailable(w)
    BY <1>2, CalmStep
       DEF Waiting, Settle, Begin, Gate, Run, StepExclusive, StepRestore, StepRefused, StepSave,
           FinishPaused, FinishEnded, FinishExclusive, Unfinished, FinishWrite, Release
  <2>2. pc'[w] \in {"idle", "settle"} /\ UNCHANGED <<repo, op, file, active, job>>
    BY <2>1 DEF Spawn, Acquire, AcquireUnavailable, Goto, repoVars, recorderVars
  <2>3. /\ \A v \in Workers : AtEnd(v)' <=> AtEnd(v)
        /\ \A v \in Workers : pc'[v] = "stepSave" <=> pc[v] = "stepSave"
        /\ \A v \in Workers : pc'[v] \in {"settleLock", "settleDrop", "gate", "run"} =>
                                pc'[v] = pc[v]
    BY <1>1, <1>2, <2>2 DEF AtEnd, Waiting
  <2>4. PausedOK'
    BY <2>2, <2>3 DEF CalmInv, PausedOK
  <2>5. \A v \in Workers : pc'[v] = "stepSave" => Moved(v)' = Moved(v)
    BY <1>1, <2>2 DEF Moved
  <2>6. StandsOK'
    BY <2>2, <2>3, <2>5 DEF CalmInv, StandsOK
  <2> QED
    BY <2>4, <2>6
<1>3. CASE pc[w] \notin Waiting
  <2>1. PausedAt(w)' /\ StandsAt(w)'
    BY <1>3, CalmAt
  <2>2. \A v \in Workers \ {w} : pc'[v] \in Waiting /\ active'[v] = {}
    BY <1>1, <1>3, AloneHolds
  <2>3. PausedOK'
    BY <2>1, <2>2 DEF PausedAt, PausedOK, Waiting
  <2>4. StandsOK'
    BY <2>1, <2>2 DEF StandsAt, StandsOK, Waiting
  <2> QED
    BY <2>3, <2>4
<1> QED
  BY <1>2, <1>3

LEMMA CalmReceive ==
  ASSUME Calm, TypeInv, CalmInv, NEW w \in Workers, NEW k \in Kinds, Receive(w, k)
  PROVE  QuietOK' /\ PausedOK' /\ StandsOK'
<1> USE DEF TypeInv, TypeOK, LoopTypeOK, HistoryTypeOK
<1>1. /\ pc[w] = "idle" /\ pc'[w] \in {"acquire", "settle"}
      /\ ~job'[w].unrecorded
      /\ UNCHANGED <<repo, op, file, active, cache, fresh, blocked, staleOp>>
      /\ \A v \in Workers \ {w} : pc'[v] = pc[v] /\ job'[v] = job[v]
  BY DEF Receive, Goto, NewJob, repoVars, recorderVars
<1>2. /\ \A v \in Workers : AtEnd(v)' <=> AtEnd(v)
      /\ \A v \in Workers : pc'[v] = "stepSave" <=> pc[v] = "stepSave"
      /\ \A v \in Workers : pc'[v] \in {"settleLock", "settleDrop", "gate", "run"} =>
                              pc'[v] = pc[v] /\ job'[v] = job[v]
      /\ \A v \in Workers : ~job'[v].unrecorded
      /\ \A v \in Workers : pc'[v] \notin Early => pc[v] \notin Early
  BY <1>1 DEF AtEnd, Early, CalmInv, QuietOK, QuietOf
<1>3. QuietOK'
  BY <1>1, <1>2 DEF CalmInv, QuietOK, QuietOf
<1>4. PausedOK'
  BY <1>1, <1>2 DEF CalmInv, PausedOK
<1>5. \A v \in Workers : pc'[v] = "stepSave" => Moved(v)' = Moved(v)
  BY <1>1 DEF Moved
<1>6. StandsOK'
  BY <1>1, <1>2, <1>5 DEF CalmInv, StandsOK
<1> QED
  BY <1>3, <1>4, <1>6

LEMMA CalmNext ==
  ASSUME Calm, TypeInv, LockInv, CalmInv, [Next]_vars
  PROVE  CalmInv'
<1>1. PlanOK'
  BY PlanNext DEF CalmInv
<1>2. (LocksWork => GuardOK)'
  <2>1. ASSUME LocksWork PROVE GuardOK'
    BY <2>1, GuardNext DEF CalmInv, Calm
  <2> QED
    BY <2>1
<1>3. CASE \E w \in Workers : WorkerStep(w)
  BY <1>1, <1>2, <1>3, QuietNext, CalmWorker DEF CalmInv
<1>4. CASE \E w \in Workers, k \in Kinds : Receive(w, k)
  BY <1>1, <1>2, <1>4, CalmReceive DEF CalmInv
<1>5. CASE UNCHANGED vars
  <2>1. /\ \A w \in Workers : Moved(w)' = Moved(w) /\ (AtEnd(w)' <=> AtEnd(w))
        /\ \A w \in Workers : QuietOf(w)' <=> QuietOf(w)
    BY <1>5 DEF vars, Moved, AtEnd, QuietOf
  <2>2. QuietOK'
    BY <1>5, <2>1 DEF vars, CalmInv, QuietOK
  <2>3. PausedOK' /\ StandsOK'
    BY <1>5, <2>1 DEF vars, CalmInv, PausedOK, StandsOK
  <2> QED
    BY <1>1, <1>2, <2>2, <2>3 DEF CalmInv
<1>6. ~Environment /\ \A w \in Workers : ~Crash(w)
  BY DEF Calm, Environment, NewerBuild, Edit, TerminalStart, TerminalEnd, Crash
<1> QED
  BY <1>3, <1>4, <1>5, <1>6 DEF Next

LEMMA CalmInit == Calm /\ Init => CalmInv
<1> SUFFICES ASSUME Calm, Init PROVE CalmInv
  OBVIOUS
<1>1. /\ file = [newer |-> FALSE, stacks |-> NoEntries] /\ repo \in Snapshots /\ op = 0
      /\ \A w \in Workers : /\ pc[w] = "down" /\ ~guard[w] /\ active[w] = {} /\ ~blocked[w]
                            /\ staleOp[w] = {} /\ ~job[w].unrecorded
                            /\ ~fresh[w]
  BY DEF Init, NoJob, NewJob
<1>2. Fits(file.stacks, repo)
  BY <1>1, ChainEmpty DEF Fits, NoEntries
<1>3. GuardOK /\ PlanOK
  BY <1>1 DEF GuardOK, PlanOK, PlanOf
<1>4. QuietOK
  BY <1>1 DEF QuietOK, QuietOf, Early
<1>5. file.stacks.pending = {}
  BY <1>1 DEF NoEntries
<1>6. PausedOK
  BY <1>1, <1>5 DEF PausedOK
<1>7. StandsOK
  BY <1>1, <1>2, <1>5 DEF StandsOK
<1> QED
  BY <1>3, <1>4, <1>6, <1>7 DEF CalmInv

(* Between commands nothing is pending, and the tops of both stacks fit.   *)
LEMMA CalmMatches ==
  ASSUME TypeInv, CalmInv
  PROVE  HistoryMatches
<1> SUFFICES ASSUME op = 0, \A w \in Workers : pc[w] = "idle"
             PROVE  LET u == file.stacks.undo
                        r == file.stacks.redo
                    IN  /\ u # <<>> => \A p \in DOMAIN Last(u).after : repo[p] = Last(u).after[p]
                        /\ r # <<>> => \A p \in DOMAIN Last(r).before : repo[p] = Last(r).before[p]
  BY DEF HistoryMatches
<1> USE DEF TypeInv, TypeOK, RepoTypeOK, HistoryTypeOK
<1> DEFINE u == file.stacks.undo
           r == file.stacks.redo
<1>1. /\ u \in Seq(Entries) /\ r \in Seq(Entries) /\ repo \in Snapshots
      /\ file.stacks.pending \subseteq PendingEntries
  BY StacksProperties
<1>2. file.stacks.pending = {}
  <2>1. \A p \in file.stacks.pending : p.op = 0
    BY DEF CalmInv, PausedOK, AtEnd
  <2>2. \A p \in PendingEntries : p.op # 0
    BY BoundsAssumption DEF PendingEntries, Ops, BoundsAssumption
  <2> QED
    BY <1>1, <2>1, <2>2
<1>3. \A w \in Workers : active[w] = {} /\ pc[w] # "stepSave"
  BY DEF CalmInv, PlanOK, PlanOf
<1>4. Fits(file.stacks, repo)
  BY <1>2, <1>3 DEF CalmInv, StandsOK
<1>5. \A e \in Entries : DOMAIN e.after \subseteq Parts
  BY DEF Entries, Partial
<1>6. ASSUME u # <<>> PROVE \A p \in DOMAIN Last(u).after : repo[p] = Last(u).after[p]
  <2>1. PICK a \in Snapshots : Link(Last(u), a, repo, FALSE)
    BY <1>1, <1>4, <1>6, ChainPop DEF Fits
  <2>2. Last(u) \in Entries
    BY <1>1, <1>6, PopProperties
  <2> QED
    BY <1>5, <2>1, <2>2 DEF Link, Joins
<1>7. ASSUME r # <<>> PROVE \A p \in DOMAIN Last(r).before : repo[p] = Last(r).before[p]
  <2>1. PICK a \in Snapshots : Link(Last(r), a, repo, TRUE)
    BY <1>1, <1>4, <1>7, ChainPop DEF Fits
  <2>2. Last(r) \in Entries
    BY <1>1, <1>7, PopProperties
  <2> QED
    BY <1>5, <2>1, <2>2 DEF Link, Joins
<1> QED
  BY <1>6, <1>7

(* While nothing but recorded commands, the operations they start and      *)
(* steps back and forth change the repository, the top entry of either     *)
(* stack is one that Undo or Redo can restore: however many windows take   *)
(* turns, in whatever order, over the limit of the history and across      *)
(* operations that pause and go on (undo.rs, finish and step; store.rs,    *)
(* drain).                                                                 *)
THEOREM HistoryNeverDrifts ==
  ASSUME Calm
  PROVE  Spec => []HistoryMatches
<1>1. Init => CalmInv
  BY CalmInit
<1>2. TypeInv /\ LockInv /\ CalmInv /\ [Next]_vars => CalmInv'
  BY CalmNext
<1>3. TypeInv /\ CalmInv => HistoryMatches
  BY CalmMatches
<1> QED
  BY <1>1, <1>2, <1>3, TypeInvariant, LockInvariant, PTL DEF Spec

=============================================================================
