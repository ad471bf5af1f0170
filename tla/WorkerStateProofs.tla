-------------------------- MODULE WorkerStateProofs --------------------------
(***************************************************************************)
(* What the undo refs pin, for every set of objects and entries, and the   *)
(* wait policy, for every LOCK_WAIT and CONTENDED_WAIT.                    *)
(***************************************************************************)
EXTENDS UndoStore, Contention, SequenceTheorems, TLAPS

-----------------------------------------------------------------------------
(* Stacks whose entries need only objects of X: a form of Needed(s)        *)
(* \subseteq X that the edits of the history preserve.                     *)

StacksOver(X) ==
  [undo : Seq(SUBSET X), redo : Seq(SUBSET X), pending : SUBSET SUBSET X]

(* The elements of a sequence over S that all lie in T. *)
LEMMA SeqNarrow ==
  ASSUME NEW S, NEW T, NEW s \in Seq(S), Range(s) \subseteq T
  PROVE  s \in Seq(T)
<1>1. Len(s) \in Nat /\ s \in [1..Len(s) -> S] /\ DOMAIN s = 1..Len(s)
      BY LenProperties
<1>2. s \in [1..Len(s) -> T]
      BY <1>1 DEF Range
<1>3. QED
      BY <1>1, <1>2, SeqDef

LEMMA NeededOver ==
  ASSUME NEW X, NEW s \in Stacks
  PROVE  Needed(s) \subseteq X <=> s \in StacksOver(X)
<1>1. ASSUME Needed(s) \subseteq X PROVE s \in StacksOver(X)
  <2>1. Range(s.undo) \subseteq SUBSET X /\ Range(s.redo) \subseteq SUBSET X
        BY <1>1 DEF Needed
  <2>2. s.undo \in Seq(SUBSET X)
        BY <2>1, SeqNarrow DEF Stacks
  <2>3. s.redo \in Seq(SUBSET X)
        BY <2>1, SeqNarrow DEF Stacks
  <2>4. s.pending \in SUBSET SUBSET X
        BY <1>1 DEF Needed
  <2>5. QED
        BY <2>2, <2>3, <2>4 DEF Stacks, StacksOver
<1>2. ASSUME s \in StacksOver(X) PROVE Needed(s) \subseteq X
  <2>1. s.undo \in Seq(SUBSET X) /\ s.redo \in Seq(SUBSET X) /\ s.pending \subseteq SUBSET X
        BY <1>2 DEF StacksOver
  <2>2. Range(s.undo) \subseteq SUBSET X
        BY <2>1, LenProperties DEF Range
  <2>3. Range(s.redo) \subseteq SUBSET X
        BY <2>1, LenProperties DEF Range
  <2>4. QED
        BY <2>1, <2>2, <2>3 DEF Needed
<1>3. QED
      BY <1>1, <1>2

LEMMA EmptyNeedsNothing == NoEntries \in Stacks /\ Needed(NoEntries) = {}
<1>1. NoEntries \in StacksOver({}) /\ NoEntries \in Stacks
      BY EmptySeq DEF NoEntries, StacksOver, Stacks
<1>2. QED
      BY <1>1, NeededOver

-----------------------------------------------------------------------------
(* The edits of a stack. *)

LEMMA NewestSeq ==
  ASSUME NEW S, NEW s \in Seq(S)
  PROVE  Newest(s) \in Seq(S)
<1>1. Len(s) \in Nat
      BY LenProperties
<1>2. CASE Len(s) > UndoLimit
  <2>1. UndoLimit \in Nat /\ Len(s) - UndoLimit + 1 \in 1..Len(s)
        BY <1>1, <1>2, StoreBoundsAssumption
  <2>2. \A i \in Len(s) - UndoLimit + 1..Len(s) : s[i] \in S
        BY <1>1, <2>1, ElementOfSeq
  <2>3. QED
        BY <1>1, <1>2, <2>1, <2>2, SubSeqProperties DEF Newest
<1>3. QED
      BY <1>2 DEF Newest

LEMMA PopSeq ==
  ASSUME NEW S, NEW s \in Seq(S), s # <<>>
  PROVE  Front(s) \in Seq(S) /\ s[Len(s)] \in S
<1>1. Len(s) \in Nat \ {0}
      BY EmptySeq
<1>2. \A i \in 1..Len(s) - 1 : s[i] \in S
      BY <1>1, ElementOfSeq
<1>3. QED
      BY <1>1, <1>2, ElementOfSeq, SubSeqProperties DEF Front

(* An edit needs no object beyond those of the stacks and of the entry. *)
LEMMA EditsOver ==
  ASSUME NEW X, NEW s \in StacksOver(X), NEW e \in SUBSET X, NEW t \in Edits(s, e)
  PROVE  t \in StacksOver(X)
<1>1. /\ s = [undo |-> s.undo, redo |-> s.redo, pending |-> s.pending]
      /\ s.undo \in Seq(SUBSET X) /\ s.redo \in Seq(SUBSET X) /\ s.pending \in SUBSET SUBSET X
      BY DEF StacksOver
<1>2. ASSUME NEW d \in SUBSET X PROVE Pushed(s, d) \in StacksOver(X)
  <2>1. Newest(Append(s.undo, d)) \in Seq(SUBSET X)
        BY <1>1, AppendProperties, NewestSeq
  <2>2. <<>> \in Seq(SUBSET X)
        BY EmptySeq
  <2>3. QED
        BY <1>1, <2>1, <2>2 DEF Pushed, StacksOver
<1>3. CASE t = Pushed(s, e)
      BY <1>2, <1>3
<1>4. CASE t = [s EXCEPT !.pending = {e}] \/ t = [s EXCEPT !.pending = {}]
      BY <1>1, <1>4 DEF StacksOver
<1>5. ASSUME NEW p \in s.pending, t = [Pushed(s, p \cup e) EXCEPT !.pending = {}]
      PROVE  t \in StacksOver(X)
  <2>1. p \cup e \in SUBSET X
        BY <1>1
  <2>2. Pushed(s, p \cup e) \in StacksOver(X)
        BY <1>2, <2>1
  <2>3. QED
        BY <1>5, <2>2 DEF StacksOver
<1>6. ASSUME t \in Moves(s) PROVE t \in StacksOver(X)
  <2>1. CASE /\ s.undo # <<>>
             /\ t = [s EXCEPT !.undo = Front(@), !.redo = Append(@, s.undo[Len(s.undo)])]
    <3>1. Front(s.undo) \in Seq(SUBSET X) /\ s.undo[Len(s.undo)] \in SUBSET X
          BY <1>1, <2>1, PopSeq
    <3>2. Append(s.redo, s.undo[Len(s.undo)]) \in Seq(SUBSET X)
          BY <1>1, <3>1, AppendProperties
    <3>3. QED
          BY <1>1, <2>1, <3>1, <3>2 DEF StacksOver
  <2>2. CASE /\ s.redo # <<>>
             /\ t = [s EXCEPT !.redo = Front(@), !.undo = Append(@, s.redo[Len(s.redo)])]
    <3>1. Front(s.redo) \in Seq(SUBSET X) /\ s.redo[Len(s.redo)] \in SUBSET X
          BY <1>1, <2>2, PopSeq
    <3>2. Append(s.undo, s.redo[Len(s.redo)]) \in Seq(SUBSET X)
          BY <1>1, <3>1, AppendProperties
    <3>3. QED
          BY <1>1, <2>2, <3>1, <3>2 DEF StacksOver
  <2>3. QED
        BY <1>6, <2>1, <2>2 DEF Moves
<1>7. QED
      BY <1>3, <1>4, <1>5, <1>6 DEF Edits

LEMMA OverAll == Stacks = StacksOver(Objects)
  BY DEF Stacks, StacksOver

-----------------------------------------------------------------------------
(* The invariant: how far the refs are, and what ~torn guarantees. *)

ProgressOK ==
  /\ saving # "idle" => 0..written - 1 \subseteq DOMAIN keep
  /\ saving = "keep" => mem # NoEntries
  /\ saving \in {"json", "stale"} =>
       /\ KeepsWritten = TagsToKeep
       /\ IF mem = NoEntries THEN written = 0 ELSE anchor = AnchorOf(mem)
  /\ saving = "stale" => json = mem

(* No ref has been touched since undo.json was last written. *)
Untouched ==
  \/ saving = "idle"
  \/ saving = "keep" /\ written = 0
  \/ saving = "json" /\ mem = NoEntries

IntactOK ==
  ~torn =>
    /\ Needed(json) \subseteq odb
    /\ saving # "idle" => Needed(mem) \subseteq odb
    /\ Untouched => Needed(json) \subseteq Pinned

IInv == StoreTypeOK /\ ProgressOK /\ IntactOK

LEMMA SaveInit == StoreInit => IInv
<1> SUFFICES ASSUME StoreInit PROVE IInv
    OBVIOUS
<1>1. StoreTypeOK
  <2>1. keep \in [DOMAIN keep -> Tags] /\ DOMAIN keep \subseteq Nat
        BY DEF StoreInit
  <2>2. torn \in BOOLEAN
        BY Zenon DEF StoreInit
  <2>3. QED
        BY <2>1, <2>2, EmptyNeedsNothing, StoreBoundsAssumption DEF StoreInit, StoreTypeOK, SaveStates
<1>2. ProgressOK /\ IntactOK
      BY EmptyNeedsNothing DEF StoreInit, ProgressOK, IntactOK
<1>3. QED
      BY <1>1, <1>2 DEF IInv

(* The names of an object's kinds do not overlap. *)
LEMMA AnchorAndKeeps ==
  ASSUME NEW s \in Stacks, Needed(s) \subseteq odb
  PROVE  Needed(s) \subseteq AnchorOf(s) \cup (Needed(s) \cap Tags \cap odb)
<1>1. Needed(s) \subseteq Objects
      BY NeededOver, OverAll
<1>2. QED
      BY <1>1 DEF AnchorOf, Objects

LEMMA StartStep == ASSUME IInv, NEW e \in Entries, Start(e) PROVE IInv'
<1> USE DEF IInv
<1>1. e \in SUBSET Objects
      BY ObjectsAssumption
<1>2. mem' \in Stacks
      BY <1>1, EditsOver, OverAll DEF Start, StoreTypeOK
<1>3. StoreTypeOK'
  <2>1. saves' \in 0..MaxSaves
        BY StoreBoundsAssumption DEF Start, StoreTypeOK
  <2>2. saving' \in SaveStates
        BY DEF Start, SaveStates
  <2>3. QED
        BY <1>1, <1>2, <2>1, <2>2 DEF Start, StoreTypeOK
<1>4. ~torn => Needed(mem') \subseteq odb'
  <2> SUFFICES ASSUME ~torn PROVE Needed(mem') \subseteq odb'
      OBVIOUS
  <2>1. json \in StacksOver(odb')
        BY NeededOver DEF IntactOK, StoreTypeOK, Start
  <2>2. e \in SUBSET odb'
        BY DEF Start
  <2>3. mem' \in StacksOver(odb')
        BY <2>1, <2>2, EditsOver DEF Start
  <2>4. QED
        BY <1>2, <2>3, NeededOver
<1>5. ProgressOK'
  <2>1. 0..written' - 1 = {} /\ KeepsWritten' = {}
        BY DEF Start, KeepsWritten
  <2>2. mem' = NoEntries => TagsToKeep' = {}
        BY EmptyNeedsNothing DEF TagsToKeep
  <2>3. QED
        BY <2>1, <2>2 DEF Start, ProgressOK
<1>6. IntactOK'
  <2>1. Pinned' = Pinned /\ Needed(json)' = Needed(json) /\ (~torn => Needed(json) \subseteq Pinned)
        BY DEF Start, Pinned, IntactOK, Untouched
  <2>2. QED
        BY <1>4, <2>1 DEF Start, IntactOK
<1>7. QED
      BY <1>3, <1>5, <1>6

LEMMA KeepStep == ASSUME IInv, WriteKeep PROVE IInv'
<1> USE DEF IInv
<1>1. PICK t \in TagsToKeep \ KeepsWritten :
        keep' = [n \in DOMAIN keep \cup {written} |-> IF n = written THEN t ELSE keep[n]]
      BY DEF WriteKeep
<1>2. written \in Nat /\ written' = written + 1
      BY DEF WriteKeep, StoreTypeOK
<1>3. DOMAIN keep' = DOMAIN keep \cup {written}
      BY <1>1
<1>4. StoreTypeOK'
  <2>1. keep' \in [DOMAIN keep' -> Tags]
        BY <1>1, <1>3 DEF StoreTypeOK, TagsToKeep
  <2>2. QED
        BY <1>2, <1>3, <2>1 DEF WriteKeep, StoreTypeOK, SaveStates
<1>5. ProgressOK'
  <2>1. 0..written' - 1 \subseteq DOMAIN keep'
        BY <1>2, <1>3 DEF ProgressOK, WriteKeep
  <2>2. QED
        BY <2>1 DEF ProgressOK, WriteKeep
<1>6. IntactOK'
      BY <1>2 DEF IntactOK, WriteKeep, Untouched
<1>7. QED
      BY <1>4, <1>5, <1>6

LEMMA AnchorStep == ASSUME IInv, WriteAnchor PROVE IInv'
<1> USE DEF IInv
<1>1. StoreTypeOK'
      BY DEF WriteAnchor, StoreTypeOK, SaveStates, AnchorOf
<1>2. ProgressOK'
      BY DEF WriteAnchor, ProgressOK, KeepsWritten, TagsToKeep, AnchorOf
<1>3. IntactOK'
      BY DEF WriteAnchor, IntactOK, Untouched, ProgressOK
<1>4. QED
      BY <1>1, <1>2, <1>3

LEMMA JsonStep == ASSUME IInv, WriteJson PROVE IInv'
<1> USE DEF IInv
<1>1. StoreTypeOK'
      BY DEF WriteJson, StoreTypeOK, SaveStates
<1>2. ProgressOK'
      BY DEF WriteJson, ProgressOK, KeepsWritten, TagsToKeep, AnchorOf
<1>3. IntactOK'
      BY DEF WriteJson, IntactOK, Untouched
<1>4. QED
      BY <1>1, <1>2, <1>3

LEMMA DeleteStep == ASSUME IInv, DeleteKeep PROVE IInv'
<1> USE DEF IInv
<1>1. PICK k \in StaleRefs : keep' = [n \in DOMAIN keep \ {k} |-> keep[n]]
      BY DEF DeleteKeep
<1>2. k \in Nat /\ k >= written /\ written \in Nat /\ DOMAIN keep' = DOMAIN keep \ {k}
      BY <1>1 DEF StaleRefs, StoreTypeOK
<1>3. StoreTypeOK'
  <2>1. keep' \in [DOMAIN keep' -> Tags]
        BY <1>1, <1>2 DEF StoreTypeOK
  <2>2. QED
        BY <1>2, <2>1 DEF DeleteKeep, StoreTypeOK
<1>4. ProgressOK'
  <2>1. 0..written - 1 \subseteq DOMAIN keep'
        BY <1>2 DEF ProgressOK, DeleteKeep
  <2>2. \A n \in 0..written - 1 : keep'[n] = keep[n]
        BY <1>1, <1>2, <2>1
  <2>3. KeepsWritten' = KeepsWritten
        BY <2>2 DEF KeepsWritten, DeleteKeep
  <2>4. QED
        BY <2>1, <2>3 DEF ProgressOK, DeleteKeep, TagsToKeep, AnchorOf
<1>5. IntactOK'
      BY DEF IntactOK, DeleteKeep, Untouched
<1>6. QED
      BY <1>3, <1>4, <1>5

(* At the end of a save that completes the refs are exactly those needed. *)
LEMMA FinishPins ==
  ASSUME IInv, Finish
  PROVE  Pinned' = Needed(json) \cap odb
<1> USE DEF IInv
<1>1. json = mem /\ KeepsWritten = TagsToKeep /\ mem \in Stacks
      BY DEF Finish, ProgressOK, StoreTypeOK
<1>2. DOMAIN keep = 0..written - 1
  <2>1. 0..written - 1 \subseteq DOMAIN keep
        BY DEF Finish, ProgressOK
  <2>2. \A n \in DOMAIN keep : n \in Nat /\ ~(n >= written) /\ written \in Nat
        BY DEF Finish, StaleRefs, StoreTypeOK
  <2>3. \A n \in DOMAIN keep : n \in 0..written - 1
        BY <2>2
  <2>4. QED
        BY <2>1, <2>3
<1>3. Range(keep) = TagsToKeep
      BY <1>1, <1>2 DEF Range, KeepsWritten
<1>4. anchor' = AnchorOf(mem)
  <2>1. CASE Emptied
    <3>1. mem = NoEntries
          BY <1>1, <2>1 DEF Emptied, NoEntries, Stacks
    <3>2. QED
          BY <2>1, <3>1, EmptyNeedsNothing DEF Finish, AnchorOf
  <2>2. CASE ~Emptied
    <3>1. mem # NoEntries
          BY <2>2 DEF Emptied, NoEntries
    <3>2. QED
          BY <2>2, <3>1 DEF Finish, ProgressOK
  <2>3. QED
        BY <2>1, <2>2
<1>5. Needed(mem) \subseteq Objects
      BY <1>1, NeededOver, OverAll
<1>6. QED
      BY <1>1, <1>3, <1>4, <1>5 DEF Pinned, AnchorOf, TagsToKeep, Objects, Finish

LEMMA FinishStep == ASSUME IInv, Finish PROVE IInv'
<1> USE DEF IInv
<1>1. StoreTypeOK'
      BY DEF Finish, StoreTypeOK, SaveStates
<1>2. ProgressOK'
      BY DEF Finish, ProgressOK
<1>3. IntactOK'
      BY FinishPins DEF Finish, IntactOK, Untouched
<1>4. QED
      BY <1>1, <1>2, <1>3

LEMMA StopStep == ASSUME IInv, Stop PROVE IInv'
<1> USE DEF IInv
<1>1. StoreTypeOK'
      BY Zenon DEF Stop, StoreTypeOK, SaveStates
<1>2. ProgressOK'
      BY DEF Stop, ProgressOK
<1>3. ASSUME ~torn' PROVE Needed(json) \subseteq Pinned /\ Needed(json) \subseteq odb
  <2>1. ~torn /\ (Untouched \/ saving = "stale")
    <3>1. ~torn /\ ~(saving = "keep" /\ written > 0) /\ ~(saving = "json" /\ mem # NoEntries)
          BY <1>3, Zenon DEF Stop
    <3>2. written \in Nat /\ saving \in {"keep", "json", "stale"}
          BY DEF Stop, StoreTypeOK, SaveStates
    <3>3. QED
          BY <3>1, <3>2 DEF Untouched
  <2>2. CASE Untouched
        BY <2>1, <2>2 DEF IntactOK
  <2>3. CASE saving = "stale"
    <3>1. json = mem /\ mem \in Stacks /\ Needed(mem) \subseteq odb
          BY <2>1, <2>3 DEF ProgressOK, StoreTypeOK, IntactOK
    <3>2. TagsToKeep \subseteq Range(keep)
          BY <2>3 DEF ProgressOK, KeepsWritten, Range
    <3>3. CASE mem = NoEntries
          BY <3>1, <3>3, EmptyNeedsNothing
    <3>4. CASE mem # NoEntries
      <4>1. anchor = AnchorOf(mem)
            BY <2>3, <3>4 DEF ProgressOK
      <4>2. QED
            BY <3>1, <3>2, <4>1, AnchorAndKeeps DEF Pinned, TagsToKeep
    <3>5. QED
          BY <3>3, <3>4
  <2>4. QED
        BY <2>1, <2>2, <2>3
<1>4. IntactOK'
      BY <1>3 DEF Stop, IntactOK, Untouched, Pinned
<1>5. QED
      BY <1>1, <1>2, <1>4

LEMMA GcStep == ASSUME IInv, Gc PROVE IInv'
<1> USE DEF IInv
<1>1. StoreTypeOK'
      BY DEF Gc, StoreTypeOK
<1>2. ProgressOK'
      BY DEF Gc, ProgressOK
<1>3. IntactOK'
      BY DEF Gc, IntactOK, Untouched, Pinned
<1>4. QED
      BY <1>1, <1>2, <1>3

LEMMA SaveNext == IInv /\ [StoreNext]_storeVars => IInv'
<1> SUFFICES ASSUME IInv, [StoreNext]_storeVars PROVE IInv'
    OBVIOUS
<1>1. CASE UNCHANGED storeVars
      BY <1>1 DEF storeVars, IInv, StoreTypeOK, ProgressOK, IntactOK, KeepsWritten, TagsToKeep,
                  AnchorOf, Untouched, Pinned
<1>2. QED
      BY <1>1, StartStep, KeepStep, AnchorStep, JsonStep, DeleteStep, FinishStep, StopStep,
         GcStep DEF StoreNext, SaveStep

LEMMA StoreInvariant == StoreSpec => []IInv
  BY SaveInit, SaveNext, PTL DEF StoreSpec

(* What undo.json names survives every gc while no save stopped halfway    *)
(* (UndoStore::save, write_anchor, delete_stale).                          *)
THEOREM HistoryStaysIntact == StoreSpec => []IntactHistory
<1>1. IInv => IntactHistory
      BY DEF IInv, IntactOK, Untouched, IntactHistory
<1>2. QED
      BY <1>1, StoreInvariant, PTL

(* A complete save pins what the history needs, and nothing else, whatever *)
(* earlier saves left behind.                                              *)
THEOREM SavesPinExactly == StoreSpec => CompleteSavePins
<1>1. IInv /\ [StoreNext]_storeVars => [Finish => Pinned' = Needed(json) \cap odb]_storeVars
      BY FinishPins
<1>2. QED
      BY <1>1, StoreInvariant, PTL DEF StoreSpec, CompleteSavePins

-----------------------------------------------------------------------------
(* The wait policy *)


(* What the policy remembers, against what has happened. *)
PolicyOK ==
  /\ ~contended => window = None /\ cost = 0
  /\ window = None => cost <= LockWait
  /\ quiet = ContendedWait => cost = 0
  /\ (phase # "waiting" /\ ~unrecorded /\ window # None) => window + quiet = ContendedWait
  /\ unrecorded => phase = "running"

(* What a command that waits was given. *)
WaitOK ==
  phase = "waiting" =>
    IF refuses THEN granted >= ContendedWait
    ELSE \/ granted = 0
         \/ granted = LockWait /\ ~contended
         \/ granted = ContendedWait /\ contended /\ (window = None \/ cost = 0)

WaitIInv == ContentionTypeOK /\ BurstCostsOnce /\ PolicyOK /\ WaitOK

LEMMA WaitInit == ContentionInit => WaitIInv
<1> SUFFICES ASSUME ContentionInit PROVE WaitIInv
    OBVIOUS
<1> USE WaitsAssumption DEF ContentionInit
<1>1. ContentionTypeOK
  <2>1. contended \in BOOLEAN /\ refuses \in BOOLEAN /\ unrecorded \in BOOLEAN
        BY Zenon
  <2>2. QED
        BY <2>1 DEF ContentionTypeOK
<1>2. BurstCostsOnce /\ PolicyOK /\ WaitOK
      BY DEF BurstCostsOnce, PolicyOK, WaitOK, None
<1>3. QED
      BY <1>1, <1>2 DEF WaitIInv

LEMMA WaitNext == WaitIInv /\ [ContentionNext]_contentionVars => WaitIInv'
<1> SUFFICES ASSUME WaitIInv, [ContentionNext]_contentionVars PROVE WaitIInv'
    OBVIOUS
<1> USE WaitsAssumption DEF WaitIInv, ContentionTypeOK, BurstCostsOnce, PolicyOK, WaitOK, None
<1>1. ASSUME NEW r \in BOOLEAN, Lock(r) PROVE WaitIInv'
      BY <1>1 DEF Lock, Wait
<1>2. CASE RunUnlocked
      BY <1>2 DEF RunUnlocked
<1>3. CASE Acquire
  <2>1. ContentionTypeOK'
        BY <1>3 DEF Acquire, Held
  <2>2. BurstCostsOnce' /\ PolicyOK' /\ WaitOK'
        BY <1>3 DEF Acquire, Held
  <2>3. QED
        BY <2>1, <2>2
<1>4. CASE RefuseBusy
      BY <1>4 DEF RefuseBusy, Busy
<1>5. CASE RunUnrecorded
      BY <1>5 DEF RunUnrecorded, Busy
<1>6. CASE End
  <2>1. ContentionTypeOK'
    <3>1. contended' \in BOOLEAN /\ unrecorded' \in BOOLEAN
          BY <1>6, Zenon DEF End, Finished
    <3>2. window' \in {None} \cup 0..ContendedWait /\ quiet' \in 0..ContendedWait
          BY <1>6 DEF End, Finished
    <3>3. QED
          BY <1>6, <3>1, <3>2 DEF End
  <2>2. BurstCostsOnce' /\ PolicyOK' /\ WaitOK'
        BY <1>6 DEF End, Finished
  <2>3. QED
        BY <2>1, <2>2
<1>7. CASE OtherWindow
      BY <1>7 DEF OtherWindow
<1>8. CASE Tick
      BY <1>8 DEF Tick
<1>9. CASE UNCHANGED contentionVars
      BY <1>9 DEF contentionVars
<1>10. QED
      BY <1>1, <1>2, <1>3, <1>4, <1>5, <1>6, <1>7, <1>8, <1>9 DEF ContentionNext

LEMMA WaitInvariant == ContentionSpec => []WaitIInv
  BY WaitInit, WaitNext, PTL DEF ContentionSpec

(* A burst of commands behind another window's hold costs one LOCK_WAIT    *)
(* and one CONTENDED_WAIT (Contention in worker/state_lock.rs).            *)
THEOREM BurstIsBounded == ContentionSpec => []BurstCostsOnce
<1>1. WaitIInv => BurstCostsOnce
      BY DEF WaitIInv
<1>2. QED
      BY <1>1, WaitInvariant, PTL

(* Undo, Redo, a discard and a hard reset wait before they refuse. *)
THEOREM RefusalsWait == ContentionSpec => NeverRefusesAtOnce
<1>1. WaitIInv /\ [ContentionNext]_contentionVars => [RefuseBusy => granted >= ContendedWait]_contentionVars
      BY DEF WaitIInv, WaitOK, RefuseBusy
<1>2. QED
      BY <1>1, WaitInvariant, PTL DEF ContentionSpec, NeverRefusesAtOnce

(* Only a command right behind another one that went without the lock      *)
(* gives up after one try.                                                 *)
THEOREM OneTryIsInABurst == ContentionSpec => OneTryOnlyInABurst
<1>1. ASSUME WaitIInv, NEW r \in BOOLEAN, Lock(r), left' = 0
      PROVE  contended /\ quiet < ContendedWait
      BY <1>1, WaitsAssumption DEF WaitIInv, ContentionTypeOK, PolicyOK, Lock, Wait, None
<1>2. WaitIInv /\ [ContentionNext]_contentionVars =>
        [\A r \in BOOLEAN : (Lock(r) /\ left' = 0) => contended /\ quiet < ContendedWait]_contentionVars
      BY <1>1
<1>3. QED
      BY <1>2, WaitInvariant, PTL DEF ContentionSpec, OneTryOnlyInABurst
==============================================================================
