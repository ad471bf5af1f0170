--------------------------- MODULE OperationsProofs ---------------------------
(***************************************************************************)
(* Proofs about what the user asks for and may cancel: clones, the requests *)
(* and searches of the editor, transfers.                                   *)
(***************************************************************************)
EXTENDS Operations, FiniteSetTheorems, SequenceTheorems, TLAPS

(* What a clone is, whatever the others do. *)
CloneState ==
  [pc : {"new", "asked", "prepare", "fetch", "checkout", "submodules", "cleanup",
         "unregister", "profile", "keychain", "answered"},
   token : BOOLEAN, flag : BOOLEAN, made : {"none", "created", "existing"},
   offered : BOOLEAN, accepted : BOOLEAN, left : Nat,
   result : {"none", "ok", "cancelled", "failed", "not empty", "missing credential"},
   clicked : BOOLEAN, inTime : BOOLEAN,
   found : {"none", "absent", "empty", "ours", "taken"}, spoilt : BOOLEAN]

CloneTypeOK ==
  /\ clone \in [CloneIds -> CloneState]
  /\ early \in Seq(CloneIds) /\ clicks \in SUBSET CloneIds
  /\ folder \in {"absent", "empty", "ours", "taken"}
  /\ saved \in [profile : SUBSET CloneIds, keychain : SUBSET CloneIds]

(* Where a clone is tells what it has made, how it ends and whether its token was taken. *)
JobOK(job) ==
  /\ job.pc = "new" => ~job.clicked /\ ~job.inTime
  /\ job.pc \in {"new", "asked"} => ~job.flag
  /\ job.pc \in {"new", "asked", "prepare"} => job.made = "none" /\ job.result = "none"
  /\ job.pc \in {"fetch", "checkout", "submodules"} => job.made # "none" /\ job.result = "none"
  /\ job.pc = "cleanup" => job.made # "none" /\ job.result \notin {"none", "ok"}
  /\ job.pc \in {"checkout", "submodules"} => (job.offered => job.accepted)
  /\ job.pc = "unregister" /\ job.result = "ok" => (job.offered => job.accepted)
  /\ job.pc \in {"profile", "keychain"} => job.result = "ok" /\ job.accepted
  /\ job.inTime /\ job.pc = "prepare" => job.flag
  /\ job.inTime => job.made = "none" /\ job.result # "ok"
  /\ job.flag \/ job.inTime \/ job.result = "cancelled" => job.clicked
  /\ job.made = "created" => job.found = "absent"
  /\ job.made = "existing" => job.found = "empty"

(* The folder is as the clone found it before it is prepared and after it is cleaned up. *)
FolderFits(job, stands) ==
  (\/ job.pc \in {"asked", "prepare"}
   \/ job.pc \in {"unregister", "answered"} /\ job.result # "ok" /\ ~job.spoilt)
     => stands = job.found

FolderOK ==
  \A id \in CloneIds :
    (id < MaxClones => clone[id + 1].pc = "new") => FolderFits(clone[id], folder)

(* The dialog asks for a clone after the ones before it have failed. *)
OneAtATime ==
  \A id, j \in CloneIds :
    j < id /\ clone[id].pc # "new" => clone[j].pc = "answered" /\ clone[j].result # "ok"

(* A cancel that came in time has fewer behind it, with those on their way, than are kept:   *)
(* it is still there when its clone is registered.                                           *)
CancelsOK ==
  /\ Cardinality(clicks) <= EarlyCancels /\ Len(early) <= EarlyCancels
  /\ \A id \in clicks : clone[id].clicked
  /\ \A i \in DOMAIN early : clone[early[i]].clicked /\ early[i] \notin clicks
  /\ \A id \in CloneIds :
       clone[id].pc = "asked" /\ clone[id].inTime =>
         \E i \in DOMAIN early :
           early[i] = id /\ Len(early) - i + Cardinality(clicks) < EarlyCancels

SavedOK ==
  /\ \A id \in saved.profile :
       clone[id].pc \in {"keychain", "answered"} /\ clone[id].result = "ok" /\ clone[id].accepted
  /\ \A id \in CloneIds : clone[id].pc = "keychain" => id \in saved.profile
  /\ saved.keychain \subseteq saved.profile

CloneInv ==
  /\ CloneTypeOK /\ \A id \in CloneIds : JobOK(clone[id])
  /\ OneAtATime /\ FolderOK /\ CancelsOK /\ SavedOK

(* Nobody else's clone is under way, and the ones after a clone under way are not asked for. *)
LEMMA OthersAtRest ==
  ASSUME CloneInv, NEW id \in CloneIds, clone[id].pc \notin {"new", "answered"}
  PROVE  \A j \in CloneIds \ {id} :
           /\ j < id => clone[j].pc = "answered" /\ clone[j].result # "ok"
           /\ j > id => clone[j].pc = "new"
BY DEF CloneInv, OneAtATime, CloneIds

(* What a step of a clone's thread has to see to, of its own clone, the folder, the list of  *)
(* cancels and the credentials: the rest of the invariant follows.                           *)
LEMMA ThreadKeepsCloneInv ==
  ASSUME CloneInv, NEW id \in CloneIds, clone[id].pc \notin {"new", "answered"},
         NEW job \in CloneState, Goes(id, job), JobOK(job),
         job.pc \notin {"new", "asked"}, job.clicked = clone[id].clicked,
         folder' \in {"absent", "empty", "ours", "taken"}, FolderFits(job, folder'),
         UNCHANGED clicks, early' \in Seq(CloneIds), Len(early') <= Len(early),
         \A i \in DOMAIN early' : \E k \in DOMAIN early : early'[i] = early[k],
         saved' \in [profile : SUBSET CloneIds, keychain : SUBSET CloneIds],
         saved.profile \subseteq saved'.profile, saved'.profile \subseteq saved.profile \cup {id},
         saved'.keychain \subseteq saved'.profile,
         job.pc = "keychain" => id \in saved'.profile,
         id \in saved'.profile =>
           job.pc \in {"keychain", "answered"} /\ job.result = "ok" /\ job.accepted
  PROVE  CloneInv'
<1>0. \A j \in CloneIds \ {id} :
        /\ j < id => clone[j].pc = "answered" /\ clone[j].result # "ok"
        /\ j > id => clone[j].pc = "new"
  BY OthersAtRest
<1>1. /\ clone' \in [CloneIds -> CloneState] /\ clone'[id] = job
      /\ \A j \in CloneIds \ {id} : clone'[j] = clone[j]
  BY DEF Goes, CloneInv, CloneTypeOK
<1>2. CloneTypeOK'
  BY <1>1 DEF CloneInv, CloneTypeOK
<1>3. \A j \in CloneIds : JobOK(clone'[j])
  BY <1>1 DEF CloneInv
<1>4. OneAtATime'
  BY <1>1, <1>0, CloneAssumption, SMTT(30) DEF CloneInv, OneAtATime, CloneIds
<1>5. FolderOK'
  <2> SUFFICES ASSUME NEW j \in CloneIds, j < MaxClones => clone'[j + 1].pc = "new"
               PROVE  FolderFits(clone'[j], folder')
    BY DEF FolderOK
  <2>1. CASE j = id
    BY <2>1, <1>1
  <2>2. CASE j > id
    BY <2>2, <1>1, <1>0, CloneAssumption DEF FolderFits, CloneIds
  <2>3. CASE j < id
    <3>1. j + 1 \in CloneIds /\ j < MaxClones /\ j + 1 <= id
      BY <2>3, CloneAssumption DEF CloneIds
    <3>2. CASE j + 1 = id
      BY <3>1, <3>2, <1>1
    <3>3. CASE j + 1 < id
      BY <3>1, <3>3, <1>1, <1>0
    <3> QED
      BY <3>1, <3>2, <3>3, CloneAssumption DEF CloneIds
  <2> QED
    BY <2>1, <2>2, <2>3, CloneAssumption DEF CloneIds
<1>6. CancelsOK'
  <2>1. \A j \in CloneIds : clone'[j].clicked = clone[j].clicked
    BY <1>1
  <2>2. ASSUME NEW j \in CloneIds PROVE clone'[j].pc # "asked"
    <3>1. CASE j = id
      BY <3>1, <1>1
    <3>2. CASE j # id
      <4>1. clone[j].pc \in {"new", "answered"}
        BY <3>2, <1>0, CloneAssumption DEF CloneIds
      <4> QED
        BY <3>2, <4>1, <1>1
    <3> QED
      BY <3>1, <3>2
  <2>3. \A i \in DOMAIN early' : clone'[early'[i]].clicked /\ early'[i] \notin clicks'
    <3> SUFFICES ASSUME NEW i \in DOMAIN early'
                 PROVE  clone'[early'[i]].clicked /\ early'[i] \notin clicks'
      OBVIOUS
    <3>1. PICK k \in DOMAIN early : early'[i] = early[k]
      OBVIOUS
    <3>2. early[k] \in CloneIds /\ clone[early[k]].clicked /\ early[k] \notin clicks
      BY ElementOfSeq DEF CloneInv, CloneTypeOK, CancelsOK
    <3> QED
      BY <2>1, <3>1, <3>2
  <2>4. Len(early') <= EarlyCancels
    BY CloneAssumption DEF CloneInv, CloneTypeOK, CancelsOK
  <2> QED
    BY <2>1, <2>2, <2>3, <2>4 DEF CloneInv, CloneTypeOK, CancelsOK
<1>7. SavedOK'
  BY <1>1, <1>0, CloneAssumption DEF CloneInv, CloneTypeOK, SavedOK
<1> QED
  BY <1>2, <1>3, <1>4, <1>5, <1>6, <1>7 DEF CloneInv

(* Most steps of a thread change its own clone only. *)
LEMMA QuietKeepsCloneInv ==
  ASSUME CloneInv, NEW id \in CloneIds, clone[id].pc \notin {"new", "answered"},
         NEW job \in CloneState, Goes(id, job), JobOK(job),
         job.pc \notin {"new", "asked", "keychain"}, job.clicked = clone[id].clicked,
         FolderFits(job, folder), ServiceIdle, UNCHANGED <<folder, saved>>,
         id \in saved.profile => job.pc = "answered" /\ job.result = "ok" /\ job.accepted
  PROVE  CloneInv'
<1>1. /\ folder' \in {"absent", "empty", "ours", "taken"} /\ FolderFits(job, folder')
      /\ early' \in Seq(CloneIds) /\ Len(early') <= Len(early)
      /\ \A i \in DOMAIN early' : early'[i] = early[i]
      /\ saved' \in [profile : SUBSET CloneIds, keychain : SUBSET CloneIds]
      /\ saved'.profile = saved.profile /\ saved'.keychain \subseteq saved'.profile
  BY LenProperties DEF CloneInv, CloneTypeOK, SavedOK, ServiceIdle
<1>2. UNCHANGED <<early, clicks>>
  BY DEF ServiceIdle
<1> QED
  BY <1>1, <1>2, ThreadKeepsCloneInv

(* A clone under way has saved nothing. *)
LEMMA NotSavedYet ==
  ASSUME CloneInv, NEW id \in CloneIds, clone[id].pc \notin {"keychain", "answered"}
  PROVE  id \notin saved.profile
BY DEF CloneInv, SavedOK

(* The only clone under way is the last one asked for. *)
LEMMA LastCloneFits ==
  ASSUME CloneInv, NEW id \in CloneIds, clone[id].pc \notin {"new", "answered"}
  PROVE  FolderFits(clone[id], folder)
<1>1. id < MaxClones => clone[id + 1].pc = "new"
  <2> SUFFICES ASSUME id < MaxClones PROVE clone[id + 1].pc = "new"
    OBVIOUS
  <2>1. id + 1 \in CloneIds \ {id} /\ id + 1 > id
    BY CloneAssumption DEF CloneIds
  <2> QED
    BY <2>1, OthersAtRest
<1> QED
  BY <1>1 DEF CloneInv, FolderOK

LEMMA FailKeepsCloneInv ==
  ASSUME CloneInv, NEW id \in CloneIds,
         clone[id].pc \in {"prepare", "fetch", "checkout", "submodules"},
         NEW result \in {"cancelled", "failed", "not empty", "missing credential"},
         result = "cancelled" => clone[id].flag,
         Fail(id, result), ServiceIdle, UNCHANGED <<folder, saved>>
  PROVE  CloneInv'
<1> DEFINE job == [clone[id] EXCEPT !.pc = IF @ = "prepare" THEN "unregister" ELSE "cleanup",
                                    !.result = result]
<1>1. clone[id] \in CloneState /\ JobOK(clone[id])
  BY DEF CloneInv, CloneTypeOK
<1>2. Goes(id, job)
  BY DEF Fail
<1>3. job \in CloneState /\ job.clicked = clone[id].clicked
      /\ job.pc \in {"unregister", "cleanup"} /\ job.result = result /\ job.found = clone[id].found
      /\ (job.pc = "unregister" => clone[id].pc = "prepare")
  BY <1>1, ZenonT(40) DEF CloneState
<1>4. JobOK(job)
  BY <1>1 DEF CloneState, JobOK
<1>5. FolderFits(job, folder)
  BY <1>3, LastCloneFits DEF FolderFits
<1>6. id \notin saved.profile
  BY NotSavedYet
<1> HIDE DEF job
<1> QED
  BY <1>2, <1>3, <1>4, <1>5, <1>6, QuietKeepsCloneInv

LEMMA PrepareKeepsCloneInv ==
  ASSUME CloneInv, NEW id \in CloneIds, Prepare(id)
  PROVE  CloneInv'
<1>1. clone[id].pc = "prepare" /\ ServiceIdle /\ UNCHANGED saved
  BY DEF Prepare
<1>2. clone[id] \in CloneState /\ JobOK(clone[id]) /\ folder = clone[id].found
      /\ id \notin saved.profile
  BY <1>1, LastCloneFits, NotSavedYet DEF CloneInv, CloneTypeOK, FolderFits
<1>3. ASSUME Fail(id, "cancelled"), clone[id].flag, UNCHANGED folder
      PROVE  CloneInv'
  BY <1>1, <1>3, FailKeepsCloneInv
<1>4. ASSUME NEW r \in {"not empty", "failed"}, Fail(id, r), UNCHANGED folder
      PROVE  CloneInv'
  BY <1>1, <1>4, FailKeepsCloneInv
<1>5. ASSUME ~clone[id].flag, folder \notin {"taken", "ours"}, folder' = "ours",
             Goes(id, [clone[id] EXCEPT !.pc = "fetch",
                         !.made = IF folder = "absent" THEN "created" ELSE "existing"])
      PROVE  CloneInv'
  <2> DEFINE job == [clone[id] EXCEPT !.pc = "fetch",
                       !.made = IF folder = "absent" THEN "created" ELSE "existing"]
  <2>1. job \in CloneState /\ job.pc = "fetch" /\ job.clicked = clone[id].clicked
    BY <1>2 DEF CloneState
  <2>2. folder \in {"absent", "empty"}
    BY <1>5 DEF CloneInv, CloneTypeOK
  <2>3. JobOK(job)
    BY <1>1, <1>2, <1>5, <2>2 DEF CloneState, JobOK
  <2>4. FolderFits(job, folder')
    BY <2>1 DEF FolderFits
  <2>5. /\ early' \in Seq(CloneIds) /\ Len(early') <= Len(early)
        /\ \A i \in DOMAIN early' : early'[i] = early[i]
        /\ saved' \in [profile : SUBSET CloneIds, keychain : SUBSET CloneIds]
        /\ saved'.profile = saved.profile /\ saved'.keychain \subseteq saved'.profile
    BY <1>1, LenProperties DEF CloneInv, CloneTypeOK, SavedOK, ServiceIdle
  <2>6. UNCHANGED <<early, clicks>> /\ folder' \in {"absent", "empty", "ours", "taken"}
    BY <1>1, <1>5 DEF ServiceIdle
  <2>7. Goes(id, job)
    BY <1>5
  <2> HIDE DEF job
  <2> QED
    BY <1>1, <1>2, <2>1, <2>3, <2>4, <2>5, <2>6, <2>7, ThreadKeepsCloneInv
<1> QED
  BY <1>1, <1>3, <1>4, <1>5 DEF Prepare

(* A clone that is registered finds the cancel that came in time. *)
LEMMA RegisterKeepsCloneInv ==
  ASSUME CloneInv, NEW id \in CloneIds, Register(id)
  PROVE  CloneInv'
<1>1. clone[id].pc = "asked" /\ clicks' = clicks /\ folder' = folder /\ saved' = saved
  BY DEF Register
<1>2. clone[id] \in CloneState /\ JobOK(clone[id]) /\ folder = clone[id].found
      /\ id \notin saved.profile
  BY <1>1, LastCloneFits, NotSavedYet DEF CloneInv, CloneTypeOK, FolderFits
<1>3. /\ folder' \in {"absent", "empty", "ours", "taken"}
      /\ saved' \in [profile : SUBSET CloneIds, keychain : SUBSET CloneIds]
      /\ saved'.profile = saved.profile /\ saved'.keychain \subseteq saved'.profile
      /\ early \in Seq(CloneIds) /\ Len(early) \in Nat
  BY <1>1, LenProperties DEF CloneInv, CloneTypeOK, SavedOK
<1>4. CASE /\ \A i \in DOMAIN early : early[i] # id
           /\ Goes(id, [clone[id] EXCEPT !.pc = "prepare"]) /\ UNCHANGED early
  <2> DEFINE job == [clone[id] EXCEPT !.pc = "prepare"]
  <2>1. ~clone[id].inTime
    BY <1>1, <1>4 DEF CloneInv, CancelsOK
  <2>2. job \in CloneState /\ JobOK(job) /\ job.pc = "prepare" /\ job.found = clone[id].found
        /\ job.clicked = clone[id].clicked
    BY <1>1, <1>2, <2>1 DEF CloneState, JobOK
  <2>3. FolderFits(job, folder')
    BY <1>1, <1>2, <2>2 DEF FolderFits
  <2>4. Goes(id, job) /\ early' = early
    BY <1>4
  <2> HIDE DEF job
  <2> QED
    BY <1>1, <1>2, <1>3, <2>2, <2>3, <2>4, ThreadKeepsCloneInv
<1>5. ASSUME NEW i \in DOMAIN early, early[i] = id,
             early' = SubSeq(early, 1, i - 1) \o SubSeq(early, i + 1, Len(early)),
             Goes(id, [clone[id] EXCEPT !.pc = "prepare", !.flag = TRUE])
      PROVE  CloneInv'
  <2> DEFINE job == [clone[id] EXCEPT !.pc = "prepare", !.flag = TRUE]
             before == SubSeq(early, 1, i - 1)
             after == SubSeq(early, i + 1, Len(early))
  <2>1. clone[id].clicked
    BY <1>5 DEF CloneInv, CancelsOK
  <2>2. job \in CloneState /\ JobOK(job) /\ job.pc = "prepare" /\ job.found = clone[id].found
        /\ job.clicked = clone[id].clicked
    BY <1>1, <1>2, <2>1 DEF CloneState, JobOK
  <2>3. FolderFits(job, folder')
    BY <1>1, <1>2, <2>2 DEF FolderFits
  <2>4. i \in 1..Len(early)
    BY <1>3, LenProperties
  <2>5. /\ before \in Seq(CloneIds) /\ Len(before) = i - 1
        /\ \A k \in 1..i - 1 : before[k] = early[k]
    BY <1>3, <2>4, SubSeqProperties
  <2>6. /\ after \in Seq(CloneIds) /\ Len(after) = Len(early) - i
        /\ \A k \in 1..Len(early) - i : after[k] = early[i + k]
    BY <1>3, <2>4, SubSeqProperties
  <2>7. /\ early' \in Seq(CloneIds) /\ Len(early') = Len(early) - 1
        /\ DOMAIN early' = 1..Len(early) - 1
        /\ \A k \in 1..Len(early) - 1 : early'[k] = IF k <= i - 1 THEN before[k] ELSE after[k - (i - 1)]
    <3> HIDE DEF before, after
    <3>1. early' = before \o after
      BY <1>5 DEF before, after
    <3> QED
      BY <3>1, <1>3, <2>4, <2>5, <2>6, ConcatProperties, LenProperties, SMTT(30)
  <2>8. \A k \in DOMAIN early' : \E l \in DOMAIN early : early'[k] = early[l]
    <3> SUFFICES ASSUME NEW k \in 1..Len(early) - 1
                 PROVE  \E l \in 1..Len(early) : early'[k] = early[l]
      BY <1>3, <2>7, LenProperties
    <3> HIDE DEF before, after
    <3>1. CASE k <= i - 1
      BY <3>1, <1>3, <2>4, <2>5, <2>7
    <3>2. CASE ~(k <= i - 1)
      <4>1. k - (i - 1) \in 1..Len(early) - i /\ k + 1 \in 1..Len(early)
            /\ i + (k - (i - 1)) = k + 1
        BY <3>2, <1>3, <2>4
      <4> QED
        BY <3>2, <4>1, <2>6, <2>7
    <3> QED
      BY <3>1, <3>2
  <2>9. Len(early') <= Len(early)
    BY <1>3, <2>7
  <2>10. Goes(id, job)
    BY <1>5
  <2> HIDE DEF job
  <2> QED
    BY <1>1, <1>2, <1>3, <2>2, <2>3, <2>7, <2>8, <2>9, <2>10, ThreadKeepsCloneInv
<1> QED
  BY <1>4, <1>5 DEF Register

LEMMA FetchesKeepCloneInv ==
  ASSUME CloneInv, NEW id \in CloneIds,
         Challenge(id) \/ FetchClone(id) \/ CheckoutClone(id) \/ Submodules(id)
  PROVE  CloneInv'
<1>1. clone[id].pc \in {"fetch", "checkout", "submodules"} /\ ServiceIdle
      /\ UNCHANGED <<folder, saved>>
  BY DEF Challenge, FetchClone, CheckoutClone, Submodules
<1>2. clone[id] \in CloneState /\ JobOK(clone[id]) /\ id \notin saved.profile
  BY <1>1, NotSavedYet DEF CloneInv, CloneTypeOK
<1>3. ASSUME NEW r \in {"cancelled", "failed", "missing credential"}, Fail(id, r),
             r = "cancelled" => clone[id].flag
      PROVE  CloneInv'
  BY <1>1, <1>3, FailKeepsCloneInv
<1>4. ASSUME NEW job \in CloneState, Goes(id, job), JobOK(job), job.clicked = clone[id].clicked,
             \/ job.pc \in {"fetch", "checkout", "submodules"}
             \/ job.pc = "unregister" /\ job.result = "ok"
      PROVE  CloneInv'
  <2>1. FolderFits(job, folder)
    BY <1>4 DEF FolderFits
  <2> QED
    BY <1>1, <1>2, <1>4, <2>1, QuietKeepsCloneInv
<1>5. CASE Challenge(id)
  <2>1. ASSUME NEW accepted \in BOOLEAN, clone[id].pc = "fetch",
               Goes(id, [clone[id] EXCEPT !.offered = TRUE, !.accepted = accepted])
        PROVE  CloneInv'
    <3> DEFINE job == [clone[id] EXCEPT !.offered = TRUE, !.accepted = accepted]
    <3>1. job \in CloneState /\ JobOK(job) /\ job.pc = "fetch" /\ job.clicked = clone[id].clicked
      BY <1>2, <2>1 DEF CloneState, JobOK
    <3> HIDE DEF job
    <3>2. Goes(id, job)
      BY <2>1 DEF job
    <3> QED
      BY <1>4, <3>1, <3>2
  <2> QED
    BY <1>5, <1>3, <2>1 DEF Challenge
<1>6. CASE FetchClone(id)
  <2>1. ASSUME Goes(id, [clone[id] EXCEPT !.pc = "checkout"]), clone[id].pc = "fetch",
               clone[id].offered => clone[id].accepted
        PROVE  CloneInv'
    <3> DEFINE job == [clone[id] EXCEPT !.pc = "checkout"]
    <3>1. job \in CloneState /\ JobOK(job) /\ job.pc = "checkout" /\ job.clicked = clone[id].clicked
      BY <1>2, <2>1 DEF CloneState, JobOK
    <3> HIDE DEF job
    <3>2. Goes(id, job)
      BY <2>1 DEF job
    <3> QED
      BY <1>4, <3>1, <3>2
  <2> QED
    BY <1>6, <1>3, <2>1 DEF FetchClone, FailedCall
<1>7. CASE CheckoutClone(id)
  <2>1. ASSUME NEW n \in Nat, clone[id].pc = "checkout",
               Goes(id, [clone[id] EXCEPT !.pc = "submodules", !.left = n])
        PROVE  CloneInv'
    <3> DEFINE job == [clone[id] EXCEPT !.pc = "submodules", !.left = n]
    <3>1. job \in CloneState /\ JobOK(job) /\ job.pc = "submodules" /\ job.clicked = clone[id].clicked
      BY <1>2, <2>1 DEF CloneState, JobOK
    <3> HIDE DEF job
    <3>2. Goes(id, job)
      BY <2>1 DEF job
    <3> QED
      BY <1>4, <3>1, <3>2
  <2>2. 0..MaxSubmodules \subseteq Nat
    BY CloneAssumption
  <2> QED
    BY <1>7, <1>3, <2>1, <2>2 DEF CheckoutClone, FailedCall
<1>8. CASE Submodules(id)
  <2>1. ASSUME NEW n \in Nat, clone[id].pc = "submodules", Goes(id, [clone[id] EXCEPT !.left = n])
        PROVE  CloneInv'
    <3> DEFINE job == [clone[id] EXCEPT !.left = n]
    <3>1. job \in CloneState /\ JobOK(job) /\ job.pc = "submodules" /\ job.clicked = clone[id].clicked
      BY <1>2, <2>1 DEF CloneState, JobOK
    <3> HIDE DEF job
    <3>2. Goes(id, job)
      BY <2>1 DEF job
    <3> QED
      BY <1>4, <3>1, <3>2
  <2>2. ASSUME Goes(id, [clone[id] EXCEPT !.pc = "unregister", !.result = "ok"]),
               clone[id].pc = "submodules"
        PROVE  CloneInv'
    <3> DEFINE job == [clone[id] EXCEPT !.pc = "unregister", !.result = "ok"]
    <3>1. job \in CloneState /\ JobOK(job) /\ job.pc = "unregister" /\ job.result = "ok"
          /\ job.clicked = clone[id].clicked
      BY <1>2, <2>2 DEF CloneState, JobOK
    <3> HIDE DEF job
    <3>2. Goes(id, job)
      BY <2>2 DEF job
    <3> QED
      BY <1>4, <3>1, <3>2
  <2>3. clone[id].left \in Nat
    BY <1>2 DEF CloneState
  <2>4. clone[id].left > 0 => clone[id].left - 1 \in Nat
    BY <2>3
  <2> QED
    BY <1>8, <1>3, <2>1, <2>2, <2>4 DEF Submodules
<1> QED
  BY <1>5, <1>6, <1>7, <1>8

(* A folder that is cleaned up is as it was found. *)
LEMMA CleanupKeepsCloneInv ==
  ASSUME CloneInv, NEW id \in CloneIds, Cleanup(id)
  PROVE  CloneInv'
<1>1. clone[id].pc = "cleanup" /\ ServiceIdle /\ UNCHANGED saved
  BY DEF Cleanup
<1>2. clone[id] \in CloneState /\ JobOK(clone[id]) /\ id \notin saved.profile
  BY <1>1, NotSavedYet DEF CloneInv, CloneTypeOK
<1>3. /\ early' \in Seq(CloneIds) /\ Len(early') <= Len(early) /\ UNCHANGED <<early, clicks>>
      /\ saved' \in [profile : SUBSET CloneIds, keychain : SUBSET CloneIds]
      /\ saved'.profile = saved.profile /\ saved'.keychain \subseteq saved'.profile
  BY <1>1, LenProperties DEF CloneInv, CloneTypeOK, SavedOK, ServiceIdle
<1>4. CASE /\ folder' = Cleaned(clone[id].made)
           /\ Goes(id, [clone[id] EXCEPT !.pc = "unregister"])
  <2> DEFINE job == [clone[id] EXCEPT !.pc = "unregister"]
  <2>1. job \in CloneState /\ JobOK(job) /\ job.pc = "unregister" /\ job.clicked = clone[id].clicked
        /\ job.found = clone[id].found
    BY <1>1, <1>2 DEF CloneState, JobOK
  <2>2. folder' = clone[id].found /\ folder' \in {"absent", "empty"}
    BY <1>1, <1>2, <1>4 DEF Cleaned, JobOK, CloneState
  <2>3. FolderFits(job, folder')
    BY <2>1, <2>2 DEF FolderFits
  <2>4. Goes(id, job)
    BY <1>4
  <2> HIDE DEF job
  <2> QED
    BY <1>1, <1>2, <1>3, <2>1, <2>2, <2>3, <2>4, ThreadKeepsCloneInv
<1>5. CASE /\ UNCHANGED folder
           /\ Goes(id, [clone[id] EXCEPT !.pc = "unregister", !.spoilt = TRUE])
  <2> DEFINE job == [clone[id] EXCEPT !.pc = "unregister", !.spoilt = TRUE]
  <2>1. job \in CloneState /\ JobOK(job) /\ job.pc = "unregister" /\ job.clicked = clone[id].clicked
        /\ job.spoilt
    BY <1>1, <1>2 DEF CloneState, JobOK
  <2>2. FolderFits(job, folder)
    BY <2>1 DEF FolderFits
  <2>3. Goes(id, job)
    BY <1>5
  <2> HIDE DEF job
  <2> QED
    BY <1>1, <1>2, <1>5, <2>1, <2>2, <2>3, QuietKeepsCloneInv
<1> QED
  BY <1>4, <1>5 DEF Cleanup

(* What is forgotten with the answer tells nothing of the folder or the token. *)
LEMMA AnsweredFacts ==
  ASSUME NEW job \in CloneState, JobOK(job),
         job.pc = "unregister" \/ job.pc \in {"profile", "keychain"}
  PROVE  /\ Answered(job) \in CloneState /\ JobOK(Answered(job))
         /\ Answered(job).pc = "answered" /\ Answered(job).clicked = job.clicked
         /\ Answered(job).result = job.result /\ Answered(job).accepted = job.accepted
         /\ Answered(job).found = job.found /\ Answered(job).spoilt = job.spoilt
<1> DEFINE done == Answered(job)
<1>1. done \in CloneState
  BY DEF Answered, CloneState
<1>2. /\ done.pc = "answered" /\ ~done.flag /\ done.clicked = job.clicked
      /\ done.result = job.result /\ done.accepted = job.accepted
      /\ done.found = job.found /\ done.spoilt = job.spoilt
      /\ done.inTime = job.inTime /\ done.made = job.made
  BY DEF Answered, CloneState
<1> HIDE DEF done
<1>3. JobOK(done)
  BY <1>2 DEF JobOK
<1> QED
  BY <1>1, <1>2, <1>3 DEF done

LEMMA UnregisterKeepsCloneInv ==
  ASSUME CloneInv, NEW id \in CloneIds, Unregister(id)
  PROVE  CloneInv'
<1>1. clone[id].pc = "unregister" /\ ServiceIdle /\ UNCHANGED <<folder, saved>>
  BY DEF Unregister
<1>2. clone[id] \in CloneState /\ JobOK(clone[id]) /\ FolderFits(clone[id], folder)
      /\ id \notin saved.profile
  BY <1>1, LastCloneFits, NotSavedYet DEF CloneInv, CloneTypeOK
<1>3. CASE /\ clone[id].result = "ok" /\ Saves(clone[id])
           /\ Goes(id, [clone[id] EXCEPT !.pc = "profile"])
  <2> DEFINE job == [clone[id] EXCEPT !.pc = "profile"]
  <2>1. job \in CloneState /\ JobOK(job) /\ job.pc = "profile" /\ job.clicked = clone[id].clicked
    BY <1>1, <1>2, <1>3 DEF CloneState, JobOK, Saves
  <2>2. FolderFits(job, folder)
    BY <2>1 DEF FolderFits
  <2>3. Goes(id, job)
    BY <1>3
  <2> HIDE DEF job
  <2> QED
    BY <1>1, <1>2, <2>1, <2>2, <2>3, QuietKeepsCloneInv
<1>4. CASE Goes(id, Answered(clone[id]))
  <2>1. FolderFits(Answered(clone[id]), folder)
    BY <1>1, <1>2, AnsweredFacts DEF FolderFits
  <2> QED
    BY <1>1, <1>2, <1>4, <2>1, AnsweredFacts, QuietKeepsCloneInv
<1> QED
  BY <1>3, <1>4 DEF Unregister

(* The profile comes before the keychain entry. *)
LEMMA PersistKeepsCloneInv ==
  ASSUME CloneInv, NEW id \in CloneIds, Persist(id)
  PROVE  CloneInv'
<1>1. clone[id].pc \in {"profile", "keychain"} /\ ServiceIdle /\ UNCHANGED folder
  BY DEF Persist
<1>2. clone[id] \in CloneState /\ JobOK(clone[id]) /\ clone[id].result = "ok" /\ clone[id].accepted
      /\ (clone[id].pc = "keychain" => id \in saved.profile)
  BY <1>1 DEF CloneInv, CloneTypeOK, SavedOK, JobOK
<1>3. /\ early' \in Seq(CloneIds) /\ Len(early') <= Len(early) /\ UNCHANGED <<early, clicks>>
      /\ folder' \in {"absent", "empty", "ours", "taken"}
      /\ saved \in [profile : SUBSET CloneIds, keychain : SUBSET CloneIds]
      /\ saved.keychain \subseteq saved.profile
  BY <1>1, LenProperties DEF CloneInv, CloneTypeOK, SavedOK, ServiceIdle
<1>4. FolderFits(Answered(clone[id]), folder')
  BY <1>1, <1>2, AnsweredFacts DEF FolderFits
<1>5. CASE /\ clone[id].pc = "profile" /\ saved' = [saved EXCEPT !["profile"] = @ \cup {id}]
           /\ Goes(id, [clone[id] EXCEPT !.pc = "keychain"])
  <2> DEFINE job == [clone[id] EXCEPT !.pc = "keychain"]
  <2>1. job \in CloneState /\ JobOK(job) /\ job.pc = "keychain" /\ job.clicked = clone[id].clicked
        /\ job.result = "ok" /\ job.accepted
    BY <1>2 DEF CloneState, JobOK
  <2>2. FolderFits(job, folder')
    BY <2>1 DEF FolderFits
  <2>3. /\ saved' \in [profile : SUBSET CloneIds, keychain : SUBSET CloneIds]
        /\ saved'.profile = saved.profile \cup {id} /\ saved'.keychain = saved.keychain
    BY <1>3, <1>5
  <2>4. Goes(id, job)
    BY <1>5
  <2> HIDE DEF job
  <2> QED
    BY <1>1, <1>3, <2>1, <2>2, <2>3, <2>4, ThreadKeepsCloneInv
<1>6. CASE /\ clone[id].pc = "keychain" /\ saved' = [saved EXCEPT !["keychain"] = @ \cup {id}]
           /\ Goes(id, Answered(clone[id]))
  <2>1. /\ saved' \in [profile : SUBSET CloneIds, keychain : SUBSET CloneIds]
        /\ saved'.profile = saved.profile /\ saved'.keychain = saved.keychain \cup {id}
    BY <1>3, <1>6
  <2> QED
    BY <1>1, <1>2, <1>3, <1>4, <1>6, <2>1, AnsweredFacts, ThreadKeepsCloneInv
<1>7. CASE UNCHANGED saved /\ Goes(id, Answered(clone[id]))
  <2>1. FolderFits(Answered(clone[id]), folder) /\ UNCHANGED <<folder, saved>>
    BY <1>1, <1>4, <1>7
  <2> QED
    BY <1>1, <1>2, <1>7, <2>1, AnsweredFacts, QuietKeepsCloneInv
<1> QED
  BY <1>1, <1>5, <1>6, <1>7 DEF Persist

-----------------------------------------------------------------------------
(* The dialog *)

LEMMA SubmitKeepsCloneInv ==
  ASSUME CloneInv, NEW id \in CloneIds, NEW token \in BOOLEAN, Submit(id, token)
  PROVE  CloneInv'
<1> DEFINE job == [clone[id] EXCEPT !.pc = "asked", !.token = token, !.found = folder]
<1>1. /\ clone[id].pc = "new" /\ UNCHANGED <<early, clicks, folder, saved>>
      /\ \A j \in 1..(id - 1) : clone[j].pc = "answered" /\ clone[j].result # "ok"
      /\ clone' = [clone EXCEPT ![id] = job]
  BY DEF Submit, CloneInv, CloneTypeOK
<1>2. clone[id] \in CloneState /\ JobOK(clone[id])
  BY DEF CloneInv, CloneTypeOK
<1>3. job \in CloneState /\ job.pc = "asked" /\ job.found = folder /\ ~job.inTime
      /\ job.clicked = clone[id].clicked
  BY <1>1, <1>2 DEF CloneState, JobOK, CloneInv, CloneTypeOK
<1>4. JobOK(job)
  BY <1>1, <1>2 DEF CloneState, JobOK
<1> HIDE DEF job
<1>5. /\ clone' \in [CloneIds -> CloneState] /\ clone'[id] = job
      /\ \A j \in CloneIds \ {id} : clone'[j] = clone[j]
  BY <1>1, <1>3 DEF CloneInv, CloneTypeOK
<1>6. \A j \in CloneIds : j > id => clone[j].pc = "new"
  BY <1>1 DEF CloneInv, OneAtATime
<1>7. CloneTypeOK' /\ \A j \in CloneIds : JobOK(clone'[j])
  BY <1>1, <1>4, <1>5 DEF CloneInv, CloneTypeOK
<1>8. OneAtATime'
  BY <1>1, <1>5, <1>6, CloneAssumption DEF CloneInv, OneAtATime, CloneIds
<1>9. FolderOK'
  <2> SUFFICES ASSUME NEW j \in CloneIds, j < MaxClones => clone'[j + 1].pc = "new"
               PROVE  FolderFits(clone'[j], folder')
    BY DEF FolderOK
  <2>1. CASE j = id
    BY <2>1, <1>1, <1>3, <1>5 DEF FolderFits
  <2>2. CASE j > id
    BY <2>2, <1>5, <1>6, CloneAssumption DEF FolderFits, CloneIds
  <2>3. CASE j < id
    <3>1. j + 1 \in CloneIds /\ j < MaxClones /\ j + 1 <= id
      BY <2>3, CloneAssumption DEF CloneIds
    <3>2. CASE j + 1 = id
      BY <3>1, <3>2, <1>3, <1>5
    <3>3. CASE j + 1 < id
      <4>1. clone[j + 1].pc = "answered"
        BY <3>1, <3>3, <1>1, CloneAssumption DEF CloneIds
      <4> QED
        BY <3>1, <3>3, <4>1, <1>5, CloneAssumption DEF CloneIds
    <3> QED
      BY <3>1, <3>2, <3>3, CloneAssumption DEF CloneIds
  <2> QED
    BY <2>1, <2>2, <2>3, CloneAssumption DEF CloneIds
<1>10. CancelsOK'
  <2>1. \A j \in CloneIds : clone'[j].clicked = clone[j].clicked
    BY <1>3, <1>5
  <2>2. \A j \in CloneIds : clone'[j].pc = "asked" /\ clone'[j].inTime
                              => clone[j].pc = "asked" /\ clone[j].inTime
    BY <1>3, <1>5
  <2>3. \A i \in DOMAIN early : early[i] \in CloneIds
    BY ElementOfSeq, LenProperties DEF CloneInv, CloneTypeOK
  <2> QED
    BY <1>1, <2>1, <2>2, <2>3 DEF CloneInv, CloneTypeOK, CancelsOK
<1>11. SavedOK'
  BY <1>1, <1>3, <1>5 DEF CloneInv, CloneTypeOK, SavedOK
<1> QED
  BY <1>7, <1>8, <1>9, <1>10, <1>11 DEF CloneInv

(* A click changes no more of its clone than the marks of it. *)
LEMMA MarkKeepsCloneInv ==
  ASSUME CloneInv, NEW id \in CloneIds, NEW job \in CloneState, clone' = [clone EXCEPT ![id] = job],
         JobOK(job), job.pc = clone[id].pc, job.result = clone[id].result,
         job.found = clone[id].found, job.spoilt = clone[id].spoilt,
         job.accepted = clone[id].accepted,
         early' \in Seq(CloneIds), clicks' \in SUBSET CloneIds, UNCHANGED <<folder, saved>>,
         CancelsOK'
  PROVE  CloneInv'
<1>1. /\ clone' \in [CloneIds -> CloneState] /\ clone'[id] = job
      /\ \A j \in CloneIds \ {id} : clone'[j] = clone[j]
  BY DEF CloneInv, CloneTypeOK
<1>2. \A j \in CloneIds :
        /\ clone'[j].pc = clone[j].pc /\ clone'[j].result = clone[j].result
        /\ clone'[j].found = clone[j].found /\ clone'[j].spoilt = clone[j].spoilt
        /\ clone'[j].accepted = clone[j].accepted
  BY <1>1
<1>3. CloneTypeOK' /\ \A j \in CloneIds : JobOK(clone'[j])
  BY <1>1 DEF CloneInv, CloneTypeOK
<1>4. OneAtATime'
  BY <1>2 DEF CloneInv, OneAtATime
<1>5. FolderOK'
  <2> SUFFICES ASSUME NEW j \in CloneIds, j < MaxClones => clone'[j + 1].pc = "new"
               PROVE  FolderFits(clone'[j], folder')
    BY DEF FolderOK
  <2>1. j < MaxClones => j + 1 \in CloneIds
    BY CloneAssumption DEF CloneIds
  <2> QED
    BY <1>2, <2>1 DEF CloneInv, FolderOK, FolderFits
<1>6. SavedOK'
  BY <1>2 DEF CloneInv, CloneTypeOK, SavedOK
<1> QED
  BY <1>3, <1>4, <1>5, <1>6 DEF CloneInv

LEMMA ClicksAreFinite ==
  ASSUME CloneInv
  PROVE  IsFiniteSet(clicks) /\ Cardinality(clicks) \in Nat
<1>1. IsFiniteSet(CloneIds)
  BY FS_Interval, CloneAssumption DEF CloneIds
<1> QED
  BY <1>1, FS_Subset, FS_CardinalityType DEF CloneInv, CloneTypeOK

(* The list takes a cancel at its end; the oldest one goes when it is full. *)
LEMMA KeptFacts ==
  ASSUME NEW id \in CloneIds, early \in Seq(CloneIds), Len(early) <= EarlyCancels
  PROVE  /\ Kept(id) \in Seq(CloneIds) /\ Len(Kept(id)) \in 1..EarlyCancels
         /\ Kept(id)[Len(Kept(id))] = id
         /\ \A i \in 1..Len(Kept(id)) - 1 : \E k \in 1..Len(early) : Kept(id)[i] = early[k]
         /\ \A k \in 1..Len(early) : k > 1 \/ Len(early) # EarlyCancels =>
              \E i \in 1..Len(Kept(id)) :
                Kept(id)[i] = early[k] /\ Len(Kept(id)) - i = Len(early) - k + 1
<1>1. Len(early) \in Nat /\ EarlyCancels \in Nat /\ EarlyCancels > 0
  BY LenProperties, CloneAssumption
<1>2. CASE Len(early) = EarlyCancels
  <2>1. /\ Tail(early) \in Seq(CloneIds) /\ Len(Tail(early)) = Len(early) - 1
        /\ \A i \in 1..Len(early) - 1 : Tail(early)[i] = early[i + 1]
    BY <1>1, <1>2, HeadTailProperties, EmptySeq
  <2>2. Kept(id) = Append(Tail(early), id)
    BY <1>2 DEF Kept
  <2>3. /\ Kept(id) \in Seq(CloneIds) /\ Len(Kept(id)) = Len(early)
        /\ Kept(id)[Len(early)] = id
        /\ \A i \in 1..Len(early) - 1 : Kept(id)[i] = early[i + 1]
    BY <1>1, <2>1, <2>2, AppendProperties
  <2>4. \A i \in 1..Len(early) - 1 : i + 1 \in 1..Len(early)
    BY <1>1
  <2>5. ASSUME NEW k \in 1..Len(early), k > 1
        PROVE  \E i \in 1..Len(Kept(id)) :
                 Kept(id)[i] = early[k] /\ Len(Kept(id)) - i = Len(early) - k + 1
    <3>1. /\ k - 1 \in 1..Len(early) - 1 /\ (k - 1) + 1 = k /\ k - 1 \in 1..Len(Kept(id))
          /\ Len(Kept(id)) - (k - 1) = Len(early) - k + 1
      BY <1>1, <2>3, <2>5
    <3> QED
      BY <2>3, <3>1
  <2> QED
    BY <1>1, <1>2, <2>3, <2>4, <2>5
<1>3. CASE Len(early) # EarlyCancels
  <2>1. Kept(id) = Append(early, id)
    BY <1>3 DEF Kept
  <2>2. /\ Kept(id) \in Seq(CloneIds) /\ Len(Kept(id)) = Len(early) + 1
        /\ Kept(id)[Len(early) + 1] = id
        /\ \A i \in 1..Len(early) : Kept(id)[i] = early[i]
    BY <2>1, AppendProperties
  <2>3. Len(early) + 1 \in 1..EarlyCancels /\ 1..Len(Kept(id)) - 1 = 1..Len(early)
        /\ 1..Len(early) \subseteq 1..Len(Kept(id))
    BY <1>1, <1>3, <2>2
  <2>4. \A k \in 1..Len(early) : Len(Kept(id)) - k = Len(early) - k + 1
    BY <1>1, <2>2
  <2> QED
    BY <2>2, <2>3, <2>4
<1> QED
  BY <1>2, <1>3

LEMMA ClickKeepsCloneInv ==
  ASSUME CloneInv, NEW id \in CloneIds, Click(id)
  PROVE  CloneInv'
<1> DEFINE job == [clone[id] EXCEPT !.clicked = TRUE]
<1>1. /\ clone[id].pc \notin {"new", "answered"} /\ ~clone[id].clicked
      /\ Cardinality(clicks) < EarlyCancels /\ clicks' = clicks \cup {id}
      /\ clone' = [clone EXCEPT ![id] = job] /\ UNCHANGED <<early, folder, saved>>
  BY DEF Click, CloneInv, CloneTypeOK
<1>2. clone[id] \in CloneState /\ JobOK(clone[id]) /\ id \notin clicks /\ ~clone[id].inTime
  BY <1>1 DEF CloneInv, CloneTypeOK, CancelsOK, JobOK
<1>3. /\ job \in CloneState /\ JobOK(job) /\ job.clicked /\ job.pc = clone[id].pc
      /\ job.result = clone[id].result /\ job.found = clone[id].found
      /\ job.spoilt = clone[id].spoilt /\ job.accepted = clone[id].accepted
      /\ job.inTime = clone[id].inTime
  BY <1>1, <1>2, ZenonT(40) DEF CloneState, JobOK
<1> HIDE DEF job
<1>4. clone'[id] = job /\ \A j \in CloneIds \ {id} : clone'[j] = clone[j]
  BY <1>1 DEF CloneInv, CloneTypeOK
<1>5. CancelsOK'
  <2>1. Cardinality(clicks') = Cardinality(clicks) + 1
    BY <1>1, <1>2, ClicksAreFinite, FS_AddElement
  <2>2. Cardinality(clicks') <= EarlyCancels
    BY <1>1, <2>1, ClicksAreFinite, CloneAssumption
  <2>3. \A i \in DOMAIN early : early[i] \in CloneIds /\ clone[early[i]].clicked
                               /\ early[i] \notin clicks
    BY ElementOfSeq, LenProperties DEF CloneInv, CloneTypeOK, CancelsOK
  <2>4. \A i \in DOMAIN early' : clone'[early'[i]].clicked /\ early'[i] \notin clicks'
    BY <1>1, <1>3, <1>4, <2>3
  <2>5. \A j \in clicks' : clone'[j].clicked
    BY <1>1, <1>3, <1>4 DEF CloneInv, CloneTypeOK, CancelsOK
  <2>6. ASSUME NEW j \in CloneIds, clone'[j].pc = "asked", clone'[j].inTime PROVE FALSE
    <3>1. CASE j = id
      BY <1>2, <1>3, <1>4, <2>6, <3>1
    <3>2. CASE j # id
      <4>1. clone[j].pc \in {"new", "answered"}
        BY <1>1, <3>2, OthersAtRest, CloneAssumption DEF CloneIds
      <4> QED
        BY <1>4, <2>6, <3>2, <4>1
    <3> QED
      BY <3>1, <3>2
  <2> QED
    BY <1>1, <2>2, <2>4, <2>5, <2>6 DEF CloneInv, CancelsOK
<1>6. early' \in Seq(CloneIds) /\ clicks' \in SUBSET CloneIds /\ UNCHANGED <<folder, saved>>
  BY <1>1 DEF CloneInv, CloneTypeOK
<1> QED
  BY <1>1, <1>3, <1>5, <1>6, MarkKeepsCloneInv

LEMMA DeliverKeepsCloneInv ==
  ASSUME CloneInv, NEW id \in CloneIds, Deliver(id)
  PROVE  CloneInv'
<1>1. /\ id \in clicks /\ clicks' = clicks \ {id} /\ clicks' \in SUBSET CloneIds
      /\ UNCHANGED <<folder, saved>> /\ early \in Seq(CloneIds) /\ Len(early) <= EarlyCancels
      /\ clone \in [CloneIds -> CloneState]
  BY DEF Deliver, CloneInv, CloneTypeOK, CancelsOK
<1>2. clone[id] \in CloneState /\ JobOK(clone[id]) /\ clone[id].clicked
  BY <1>1 DEF CloneInv, CancelsOK
<1>3. /\ Cardinality(clicks') = Cardinality(clicks) - 1 /\ Cardinality(clicks) \in 1..EarlyCancels
      /\ EarlyCancels \in Nat /\ Len(early) \in Nat
  <2>1. Cardinality(clicks') = Cardinality(clicks) - 1 /\ Cardinality(clicks) # 0
    BY <1>1, ClicksAreFinite, FS_RemoveElement, FS_EmptySet
  <2> QED
    BY <1>1, <2>1, ClicksAreFinite, CloneAssumption, LenProperties DEF CloneInv, CancelsOK
<1>4. /\ \A i \in 1..Len(early) : /\ early[i] \in CloneIds /\ clone[early[i]].clicked
                                /\ early[i] \notin clicks
      /\ \A j \in clicks : clone[j].clicked
  BY <1>1, ElementOfSeq, LenProperties DEF CloneInv, CloneTypeOK, CancelsOK
<1>5. ASSUME NEW j \in CloneIds, clone[j].pc = "asked", clone[j].inTime
      PROVE  \E i \in 1..Len(early) :
               early[i] = j /\ Len(early) - i + Cardinality(clicks) < EarlyCancels
  BY <1>1, <1>5, LenProperties DEF CloneInv, CancelsOK
<1>6. CASE Running(id) /\ clone' = [clone EXCEPT ![id].flag = TRUE] /\ UNCHANGED early
  <2> DEFINE job == [clone[id] EXCEPT !.flag = TRUE]
  <2>1. /\ job \in CloneState /\ JobOK(job) /\ job.clicked = clone[id].clicked /\ job.pc = clone[id].pc
        /\ job.result = clone[id].result /\ job.found = clone[id].found
        /\ job.spoilt = clone[id].spoilt /\ job.accepted = clone[id].accepted
        /\ job.inTime = clone[id].inTime
    BY <1>2, <1>6, ZenonT(40) DEF CloneState, JobOK, Running
  <2>2. clone' = [clone EXCEPT ![id] = job] /\ clone'[id] = job
        /\ \A j \in CloneIds \ {id} : clone'[j] = clone[j]
    BY <1>1, <1>6
  <2> HIDE DEF job
  <2>3. \A j \in CloneIds : /\ clone'[j].clicked = clone[j].clicked /\ clone'[j].pc = clone[j].pc
                            /\ clone'[j].inTime = clone[j].inTime
    BY <1>2, <2>1, <2>2
  <2>4. CancelsOK'
    <3>1. Cardinality(clicks') <= EarlyCancels /\ Len(early') <= EarlyCancels
      BY <1>1, <1>3, <1>6
    <3>2. \A j \in clicks' : clone'[j].clicked
      BY <1>1, <1>4, <2>3
    <3>3. \A i \in DOMAIN early' : clone'[early'[i]].clicked /\ early'[i] \notin clicks'
      BY <1>1, <1>4, <1>6, <2>3, LenProperties
    <3>4. ASSUME NEW j \in CloneIds, clone'[j].pc = "asked", clone'[j].inTime
          PROVE  \E i \in DOMAIN early' :
                   early'[i] = j /\ Len(early') - i + Cardinality(clicks') < EarlyCancels
      <4>1. PICK i \in 1..Len(early) :
                   early[i] = j /\ Len(early) - i + Cardinality(clicks) < EarlyCancels
        BY <1>5, <2>3, <3>4
      <4> QED
        BY <1>1, <1>3, <1>6, <4>1, LenProperties
    <3> QED
      BY <3>1, <3>2, <3>3, <3>4 DEF CancelsOK
  <2>5. early' \in Seq(CloneIds) /\ UNCHANGED <<folder, saved>>
    BY <1>1, <1>6
  <2> QED
    BY <1>1, <2>1, <2>2, <2>4, <2>5, MarkKeepsCloneInv
<1>7. CASE /\ ~Running(id) /\ early' = Kept(id)
           /\ clone' = [clone EXCEPT ![id].inTime = @ \/ clone[id].pc = "asked"]
  <2> DEFINE job == [clone[id] EXCEPT !.inTime = @ \/ clone[id].pc = "asked"]
  <2>1. job \in CloneState /\ job.clicked = clone[id].clicked /\ job.pc = clone[id].pc
        /\ job.result = clone[id].result /\ job.found = clone[id].found
        /\ job.spoilt = clone[id].spoilt /\ job.accepted = clone[id].accepted
    BY <1>2 DEF CloneState
  <2>2. JobOK(job)
    BY <1>2, <1>7 DEF CloneState, JobOK, Running
  <2>3. clone' = [clone EXCEPT ![id] = job] /\ clone'[id] = job
        /\ \A j \in CloneIds \ {id} : clone'[j] = clone[j]
    BY <1>1, <1>7
  <2> HIDE DEF job
  <2>4. \A j \in CloneIds : clone'[j].clicked = clone[j].clicked /\ clone'[j].pc = clone[j].pc
    BY <1>2, <2>1, <2>3
  <2>5. /\ early' \in Seq(CloneIds) /\ Len(early') \in 1..EarlyCancels
        /\ DOMAIN early' = 1..Len(early') /\ early'[Len(early')] = id
        /\ \A i \in 1..Len(early') - 1 : \E k \in 1..Len(early) : early'[i] = early[k]
        /\ \A k \in 1..Len(early) : k > 1 \/ Len(early) # EarlyCancels =>
             \E i \in 1..Len(early') :
               early'[i] = early[k] /\ Len(early') - i = Len(early) - k + 1
    BY <1>1, <1>7, KeptFacts, LenProperties
  <2>6. CancelsOK'
    <3>1. Cardinality(clicks') <= EarlyCancels /\ Len(early') <= EarlyCancels
      BY <1>3, <2>5
    <3>2. \A j \in clicks' : clone'[j].clicked
      BY <1>1, <1>4, <2>4
    <3>3. ASSUME NEW i \in DOMAIN early'
          PROVE  clone'[early'[i]].clicked /\ early'[i] \notin clicks'
      <4>1. CASE i = Len(early')
        BY <1>1, <1>2, <2>4, <2>5, <4>1
      <4>2. CASE i # Len(early')
        <5>0. i \in 1..Len(early') - 1
          BY <1>3, <2>5, <3>3, <4>2
        <5>1. PICK k \in 1..Len(early) : early'[i] = early[k]
          BY <2>5, <5>0
        <5> QED
          BY <1>1, <1>4, <2>4, <5>1
      <4> QED
        BY <4>1, <4>2
    <3>4. ASSUME NEW j \in CloneIds, clone'[j].pc = "asked", clone'[j].inTime
          PROVE  \E i \in DOMAIN early' :
                   early'[i] = j /\ Len(early') - i + Cardinality(clicks') < EarlyCancels
      <4>1. CASE j = id
        BY <1>3, <2>5, <4>1
      <4>2. CASE j # id
        <5>1. clone[j].pc = "asked" /\ clone[j].inTime
          BY <2>3, <3>4, <4>2
        <5>2. PICK k \in 1..Len(early) :
                early[k] = j /\ Len(early) - k + Cardinality(clicks) < EarlyCancels
          BY <1>5, <5>1
        <5>3. k > 1 \/ Len(early) # EarlyCancels
          BY <1>3, <5>2
        <5>4. PICK i \in 1..Len(early') :
                early'[i] = early[k] /\ Len(early') - i = Len(early) - k + 1
          BY <2>5, <5>3
        <5>5. Len(early') - i + Cardinality(clicks') < EarlyCancels
          BY <1>3, <2>5, <5>2, <5>4
        <5> QED
          BY <2>5, <5>2, <5>4, <5>5
      <4> QED
        BY <4>1, <4>2
    <3> QED
      BY <3>1, <3>2, <3>3, <3>4 DEF CancelsOK
  <2>7. early' \in Seq(CloneIds) /\ UNCHANGED <<folder, saved>>
    BY <1>1, <2>5
  <2> QED
    BY <1>1, <2>1, <2>2, <2>3, <2>6, <2>7, MarkKeepsCloneInv
<1>8. \A i \in DOMAIN early : early[i] # id
  BY <1>1, <1>4, LenProperties
<1> QED
  BY <1>6, <1>7, <1>8 DEF Deliver

-----------------------------------------------------------------------------
LEMMA CloneInvHoldsAtFirst == CInit => CloneInv
<1> SUFFICES ASSUME CInit PROVE CloneInv
  OBVIOUS
<1>1. /\ clone = [id \in CloneIds |-> NoClone] /\ early = << >> /\ clicks = {}
      /\ folder \in {"absent", "empty", "taken"} /\ saved = [profile |-> {}, keychain |-> {}]
  BY DEF CInit
<1>2. NoClone \in CloneState /\ JobOK(NoClone) /\ NoClone.pc = "new"
  BY DEF NoClone, CloneState, JobOK
<1>3. \A id \in CloneIds : clone[id] = NoClone
  BY <1>1
<1>4. CloneTypeOK /\ \A id \in CloneIds : JobOK(clone[id])
  BY <1>1, <1>2, <1>3 DEF CloneTypeOK
<1>5. OneAtATime /\ FolderOK /\ SavedOK
  BY <1>1, <1>2, <1>3 DEF OneAtATime, FolderOK, FolderFits, SavedOK
<1>6. CancelsOK
  BY <1>1, <1>2, <1>3, CloneAssumption, FS_EmptySet DEF CancelsOK
<1> QED
  BY <1>4, <1>5, <1>6 DEF CloneInv

LEMMA CloneStep == CloneInv /\ [CNext]_cvars => CloneInv'
<1> SUFFICES ASSUME CloneInv, [CNext]_cvars PROVE CloneInv'
  OBVIOUS
<1>1. CASE UNCHANGED cvars
  BY <1>1 DEF cvars, CloneInv, CloneTypeOK, OneAtATime, FolderOK, CancelsOK, SavedOK
<1>2. ASSUME NEW id \in CloneIds, CloneRuns(id) PROVE CloneInv'
  BY <1>2, RegisterKeepsCloneInv, PrepareKeepsCloneInv, FetchesKeepCloneInv, CleanupKeepsCloneInv,
     UnregisterKeepsCloneInv, PersistKeepsCloneInv DEF CloneRuns
<1> QED
  BY <1>1, <1>2, SubmitKeepsCloneInv, ClickKeepsCloneInv, DeliverKeepsCloneInv DEF CNext

LEMMA CloneInvIsThePromise == CloneInv => CloneKeepsItsWord
<1> SUFFICES ASSUME CloneInv PROVE CloneKeepsItsWord
  OBVIOUS
<1>1. FailedCloneLeavesFolder
  BY DEF CloneInv, FolderOK, FolderFits, FailedCloneLeavesFolder
<1>2. CancelFindsItsClone
  BY DEF CloneInv, JobOK, CancelFindsItsClone
<1>3. TokenKeptIfUsed
  BY DEF CloneInv, SavedOK, TokenKeptIfUsed
<1> QED
  BY <1>1, <1>2, <1>3 DEF CloneKeepsItsWord

(* Whatever the other operations do, they leave the clones alone. *)
LEMMA OpsStepsOfClones == [OpsNext]_opsVars => [CNext]_cvars
BY DEF OpsNext, opsVars

(* However clones, clicks on Cancel and failures interleave, a clone that fails leaves its    *)
(* folder as it found it, a Cancel stops the clone it is meant for and no other, and a token  *)
(* is kept only where it was used (clone_repo_with, CloneService.cancel, persist_https).     *)
THEOREM ClonesKeepTheirWord == OpsSpec => []CloneKeepsItsWord
<1>1. OpsInit => CloneInv
  BY CloneInvHoldsAtFirst DEF OpsInit
<1>2. CloneInv /\ [OpsNext]_opsVars => CloneInv'
  BY CloneStep, OpsStepsOfClones
<1> QED
  BY <1>1, <1>2, CloneInvIsThePromise, PTL DEF OpsSpec

-----------------------------------------------------------------------------
(* The bridge: every request is in somebody's hands until it is answered, once *)

Results == {"none", "not open", "page", "cancelled", "ok", "error", "transport"}
Calls == [id : RequestIds, kind : {"search", "cancel"}, gen : Nat]
Messages == [kind : {"answer", "status"}, id : Nat, result : Results]

Threads == [id : AllIds, kind : {"search", "cancel", "list", "open"},
            pc : {"new", "claimed", "queued", "reply"}, gen : Nat, result : Results]
Sidecars == [held : BOOLEAN, alive : BOOLEAN, open : BOOLEAN, openFailed : BOOLEAN, current : Nat,
             threads : SUBSET Threads, queue : Seq(AllIds), out : Seq([id : AllIds, result : Results])]

BridgeTypeOK ==
  /\ web \in [gen : Nat, shown : [what : {"graph", "loading"} \cup Results, of : Nat],
              waits : SUBSET Calls, last : 0..MaxRequests]
  /\ toHost \in Seq(Calls) /\ toWeb \in Seq(Messages)
  /\ host \in [state : {"running", "reconnecting", "failed", "idle"}, startup : {"none", "list", "open"},
               pending : SUBSET RequestIds, joined : SUBSET Calls, disposed : BOOLEAN]
  /\ posted \in [RequestIds -> {0, 1}]
  /\ proc \in Sidecars

(* A request is on its way to the bridge, or pending there, before it is answered. *)
Asked(id) == \E i \in DOMAIN toHost : toHost[i].id = id
Told(id) == \E i \in DOMAIN toWeb : toWeb[i].kind = "answer" /\ toWeb[i].id = id
AskedOnce == \A i, j \in DOMAIN toHost : i # j => toHost[i].id # toHost[j].id
InHands(id) == Asked(id) \/ id \in host.pending \/ Told(id)

HandsOK ==
  /\ AskedOnce
  /\ \A id \in RequestIds :
       /\ Asked(id) => posted[id] = 0 /\ id \notin host.pending /\ id <= web.last
       /\ id \in host.pending => posted[id] = 0 /\ id <= web.last
       /\ posted[id] # 0 => id <= web.last
  /\ \A w \in web.waits : w.id <= web.last /\ InHands(w.id)
  /\ \A v, w \in web.waits : v.id = w.id => v = w

RequestsInv == BridgeTypeOK /\ HandsOK

-----------------------------------------------------------------------------
(* What is added to and taken from the messages on their way *)

LEMMA AppendFacts ==
  ASSUME NEW S, NEW s \in Seq(S), NEW x \in S
  PROVE  /\ Append(s, x) \in Seq(S)
         /\ \A i \in DOMAIN s : i \in DOMAIN Append(s, x) /\ Append(s, x)[i] = s[i]
         /\ Len(s) + 1 \in DOMAIN Append(s, x) /\ Append(s, x)[Len(s) + 1] = x
         /\ \A i \in DOMAIN Append(s, x) : i \in DOMAIN s \/ i = Len(s) + 1
         /\ Len(s) + 1 \notin DOMAIN s
<1>1. /\ Len(s) \in Nat /\ DOMAIN s = 1..Len(s)
      /\ Append(s, x) \in Seq(S) /\ Len(Append(s, x)) = Len(s) + 1
      /\ DOMAIN Append(s, x) = 1..(Len(s) + 1)
  BY LenProperties, AppendProperties
<1>2. /\ \A i \in 1..Len(s) : Append(s, x)[i] = s[i]
      /\ Append(s, x)[Len(s) + 1] = x
  BY AppendProperties
<1> QED BY <1>1, <1>2

LEMMA TailFacts ==
  ASSUME NEW S, NEW s \in Seq(S), s # << >>
  PROVE  /\ Tail(s) \in Seq(S) /\ Head(s) \in S
         /\ 1 \in DOMAIN s /\ Head(s) = s[1]
         /\ \A i \in DOMAIN Tail(s) : i + 1 \in DOMAIN s /\ i + 1 # 1 /\ Tail(s)[i] = s[i + 1]
         /\ \A i \in DOMAIN s : i # 1 => \E j \in DOMAIN Tail(s) : j + 1 = i /\ Tail(s)[j] = s[i]
         /\ \A i, j \in DOMAIN Tail(s) : i # j => i + 1 # j + 1
<1>1. /\ Len(s) \in Nat /\ DOMAIN s = 1..Len(s) /\ Len(s) # 0
  BY LenProperties, EmptySeq
<1>2. /\ Tail(s) \in Seq(S) /\ Len(Tail(s)) = Len(s) - 1 /\ Head(s) \in S
      /\ \A i \in 1..Len(Tail(s)) : Tail(s)[i] = s[i + 1]
  BY HeadTailProperties
<1>3. DOMAIN Tail(s) = 1..(Len(s) - 1)
  BY <1>2, LenProperties
<1>4. ASSUME NEW i \in DOMAIN s, i # 1
      PROVE  \E j \in DOMAIN Tail(s) : j + 1 = i /\ Tail(s)[j] = s[i]
  <2>1. i - 1 \in DOMAIN Tail(s) /\ (i - 1) + 1 = i
    BY <1>1, <1>3, <1>4
  <2> QED BY <1>2, <1>3, <2>1
<1> QED BY <1>1, <1>2, <1>3, <1>4

\* The pending calls in the order of their ids: each of them is rejected.
LEMMA RejectionsFacts ==
  ASSUME NEW ids \in SUBSET RequestIds
  PROVE  /\ Rejections(ids) \in Seq(Messages)
         /\ \A id \in ids : \E n \in DOMAIN Rejections(ids) :
              Rejections(ids)[n].kind = "answer" /\ Rejections(ids)[n].id = id
<1> DEFINE Before(i) == {j \in ids : j < i}
           c == Cardinality(ids)
           f == [i \in ids |-> Cardinality(Before(i)) + 1]
           Nth(n) == CHOOSE i \in ids : Cardinality({j \in ids : j < i}) = n - 1
<1>1. IsFiniteSet(ids) /\ ids \subseteq Nat /\ c \in Nat
  <2>1. IsFiniteSet(RequestIds)
    BY BridgeAssumption, FS_Interval DEF RequestIds
  <2>2. IsFiniteSet(ids)
    BY <2>1, FS_Subset
  <2> QED BY <2>2, FS_CardinalityType, BridgeAssumption DEF RequestIds
<1>2. \A i \in ids : IsFiniteSet(Before(i)) /\ Cardinality(Before(i)) \in Nat /\ Cardinality(Before(i)) < c
  <2> SUFFICES ASSUME NEW i \in ids
               PROVE  IsFiniteSet(Before(i)) /\ Cardinality(Before(i)) \in Nat /\ Cardinality(Before(i)) < c
    OBVIOUS
  <2>1. /\ IsFiniteSet(Before(i)) /\ Cardinality(Before(i)) <= c
        /\ Cardinality(ids) = Cardinality(Before(i)) => ids = Before(i)
    BY <1>1, FS_Subset
  <2>2. Cardinality(Before(i)) \in Nat
    BY <2>1, FS_CardinalityType
  <2>3. i \notin Before(i)
    BY <1>1
  <2> QED BY <1>1, <2>1, <2>2, <2>3
<1>3. \A i, k \in ids : i < k => Cardinality(Before(i)) < Cardinality(Before(k))
  <2> SUFFICES ASSUME NEW i \in ids, NEW k \in ids, i < k
               PROVE  Cardinality(Before(i)) < Cardinality(Before(k))
    OBVIOUS
  <2>0. i \in Nat /\ k \in Nat
    BY <1>1
  <2>1. Before(i) \in SUBSET Before(k)
    <3>1. ASSUME NEW j \in ids, j < i PROVE j < k
      <4>1. j \in Nat
        BY <1>1
      <4> QED BY <2>0, <3>1, <4>1
    <3> QED BY <3>1
  <2>a. i \in Before(k) /\ i \notin Before(i)
    BY <2>0
  <2>2. /\ Cardinality(Before(i)) <= Cardinality(Before(k))
        /\ Cardinality(Before(k)) = Cardinality(Before(i)) => Before(k) = Before(i)
    BY <1>2, <2>1, FS_Subset
  <2> QED BY <1>2, <2>1, <2>a, <2>2
<1>4. f \in [ids -> 1..c]
  BY <1>1, <1>2
<1>5. f \in Injection(ids, 1..c)
  <2>1. ASSUME NEW i \in ids, NEW k \in ids, f[i] = f[k] PROVE i = k
    <3>0. f[i] = Cardinality(Before(i)) + 1 /\ f[k] = Cardinality(Before(k)) + 1
      OBVIOUS
    <3>1. Cardinality(Before(i)) = Cardinality(Before(k))
      <4>1. \A a, b \in Nat : a + 1 = b + 1 => a = b
        OBVIOUS
      <4> HIDE DEF f
      <4> QED BY <1>2, <2>1, <3>0, <4>1
    <3>2. ~(i < k) /\ ~(k < i)
      BY <1>2, <1>3, <3>1
    <3> QED BY <1>1, <3>2
  <2>2. IsInjective(f)
    BY <2>1 DEF IsInjective
  <2> QED BY <1>4, <2>2 DEF Injection
<1>6. f \in Surjection(ids, 1..c)
  <2>1. IsFiniteSet(1..c) /\ Cardinality(1..c) = c
    BY <1>1, FS_Interval
  <2> QED BY <1>5, <2>1, FS_Injection
<1>7. \A n \in 1..c : \E i \in ids : Cardinality({j \in ids : j < i}) = n - 1
  <2> SUFFICES ASSUME NEW n \in 1..c
               PROVE  \E i \in ids : Cardinality({j \in ids : j < i}) = n - 1
    OBVIOUS
  <2>1. PICK i \in ids : f[i] = n
    BY <1>6 DEF Surjection
  <2>2. Cardinality(Before(i)) + 1 = n
    BY <2>1
  <2> QED BY <1>1, <1>2, <2>2
<1>8. \A n \in 1..c : Nth(n) \in ids
  BY <1>7
<1>9. \A id \in ids : f[id] \in 1..c /\ Nth(f[id]) = id
  <2> SUFFICES ASSUME NEW id \in ids
               PROVE  f[id] \in 1..c /\ Nth(f[id]) = id
    OBVIOUS
  <2>1. f[id] \in 1..c /\ f[id] = Cardinality(Before(id)) + 1
    BY <1>4
  <2>2. PICK i \in ids : i = Nth(f[id]) /\ Cardinality({j \in ids : j < i}) = f[id] - 1
    BY <1>7, <2>1
  <2>3. f[i] = f[id]
    BY <1>1, <1>2, <2>1, <2>2
  <2>4. i = id
    BY <1>5, <2>3 DEF Injection, IsInjective
  <2> QED BY <2>1, <2>2, <2>4
<1>10. Rejections(ids) = [n \in 1..c |-> Answer(Nth(n), "transport")]
  BY DEF Rejections
<1> HIDE DEF Nth, f, c
<1>11. \A n \in 1..c : Answer(Nth(n), "transport") \in Messages
  BY <1>1, <1>8 DEF Answer, Messages, Results
<1>12. Rejections(ids) \in Seq(Messages)
  BY <1>1, <1>10, <1>11
<1>13. ASSUME NEW id \in ids
       PROVE  \E n \in DOMAIN Rejections(ids) :
                Rejections(ids)[n].kind = "answer" /\ Rejections(ids)[n].id = id
  <2>1. f[id] \in DOMAIN Rejections(ids) /\ Rejections(ids)[f[id]] = Answer(id, "transport")
    BY <1>9, <1>10
  <2> QED BY <2>1 DEF Answer
<1> QED BY <1>12, <1>13

LEMMA RejectAllFacts ==
  ASSUME toWeb \in Seq(Messages), posted \in [RequestIds -> {0, 1}],
         NEW ids \in SUBSET RequestIds, RejectAll(ids)
  PROVE  /\ toWeb' \in Seq(Messages)
         /\ \A id : Told(id) => Told(id)'
         /\ \A id \in ids : Told(id)'
         /\ \A id \in RequestIds : posted'[id] = posted[id] + (IF id \in ids THEN 1 ELSE 0)
         /\ DOMAIN posted' = RequestIds
<1> DEFINE r == Rejections(ids)
           s == toWeb \o r
<1>1. r \in Seq(Messages) /\ TransportStatus \in Messages
  BY RejectionsFacts DEF TransportStatus, Messages, Results
<1>2. toWeb' = s \o <<TransportStatus>>
  BY DEF RejectAll
<1>3. /\ s \in Seq(Messages) /\ Len(s) = Len(toWeb) + Len(r)
      /\ \A i \in 1..Len(toWeb) + Len(r) : s[i] = IF i <= Len(toWeb) THEN toWeb[i] ELSE r[i - Len(toWeb)]
  BY <1>1, ConcatProperties
<1>4. /\ Len(toWeb) \in Nat /\ DOMAIN toWeb = 1..Len(toWeb)
      /\ Len(r) \in Nat /\ DOMAIN r = 1..Len(r) /\ DOMAIN s = 1..Len(s) /\ Len(s) \in Nat
  BY <1>1, <1>3, LenProperties
<1> HIDE DEF s, r
<1>5. /\ toWeb' \in Seq(Messages) /\ Len(toWeb') = Len(s) + 1
      /\ \A i \in 1..Len(s) : toWeb'[i] = s[i]
  <2>1. <<TransportStatus>> \in Seq(Messages) /\ Len(<<TransportStatus>>) = 1
    BY <1>1
  <2> QED BY <1>2, <1>3, <1>4, <2>1, ConcatProperties
<1>6. DOMAIN toWeb' = 1..Len(s) + 1
  BY <1>5, LenProperties
<1>7. \A i \in DOMAIN toWeb : i \in DOMAIN toWeb' /\ toWeb'[i] = toWeb[i]
  BY <1>3, <1>4, <1>5, <1>6, SMTT(30)
<1>8. \A i \in DOMAIN r : i + Len(toWeb) \in DOMAIN toWeb' /\ toWeb'[i + Len(toWeb)] = r[i]
  <2> SUFFICES ASSUME NEW i \in DOMAIN r
               PROVE  i + Len(toWeb) \in DOMAIN toWeb' /\ toWeb'[i + Len(toWeb)] = r[i]
    OBVIOUS
  <2> DEFINE j == i + Len(toWeb)
  <2>1. /\ j \in 1..Len(toWeb) + Len(r) /\ ~(j <= Len(toWeb)) /\ j - Len(toWeb) = i
        /\ j \in 1..Len(s) /\ j \in 1..Len(s) + 1
    BY <1>3, <1>4
  <2> HIDE DEF j
  <2>2. s[j] = r[i]
    BY <1>3, <2>1
  <2>3. j \in DOMAIN toWeb' /\ toWeb'[j] = r[i]
    BY <1>5, <1>6, <2>1, <2>2
  <2> QED BY <2>3 DEF j
<1>9. \A id \in ids : Told(id)'
  <2> SUFFICES ASSUME NEW id \in ids PROVE Told(id)'
    OBVIOUS
  <2>1. PICK n \in DOMAIN r : r[n].kind = "answer" /\ r[n].id = id
    BY RejectionsFacts DEF r
  <2> QED BY <1>8, <2>1 DEF Told
<1>10. \A id : Told(id) => Told(id)'
  BY <1>7 DEF Told
<1> QED BY <1>5, <1>9, <1>10 DEF RejectAll

-----------------------------------------------------------------------------
(* What travels between the webview and the bridge *)

LEMMA CallSent ==
  ASSUME BridgeTypeOK, NEW call \in Calls, toHost' = Append(toHost, call)
  PROVE  /\ toHost' \in Seq(Calls)
         /\ \A id : Asked(id)' <=> Asked(id) \/ id = call.id
         /\ AskedOnce /\ ~Asked(call.id) => AskedOnce'
<1> DEFINE n == Len(toHost) + 1
<1>1. /\ toHost' \in Seq(Calls)
      /\ \A i \in DOMAIN toHost : i \in DOMAIN toHost' /\ toHost'[i] = toHost[i]
      /\ n \in DOMAIN toHost' /\ toHost'[n] = call
      /\ \A i \in DOMAIN toHost' : i \in DOMAIN toHost \/ i = n
  BY AppendFacts DEF BridgeTypeOK
<1> HIDE DEF n
<1>2. \A id : Asked(id)' <=> Asked(id) \/ id = call.id
  BY <1>1 DEF Asked
<1>3. ASSUME AskedOnce, ~Asked(call.id) PROVE AskedOnce'
  <2> SUFFICES ASSUME NEW i \in DOMAIN toHost', NEW j \in DOMAIN toHost', i # j
               PROVE  toHost'[i].id # toHost'[j].id
    BY DEF AskedOnce
  <2>1. CASE i \in DOMAIN toHost /\ j \in DOMAIN toHost
    BY <1>1, <1>3, <2>1 DEF AskedOnce
  <2>2. CASE i \in DOMAIN toHost /\ j = n
    BY <1>1, <1>3, <2>2 DEF Asked
  <2>3. CASE i = n /\ j \in DOMAIN toHost
    BY <1>1, <1>3, <2>3 DEF Asked
  <2> QED BY <1>1, <2>1, <2>2, <2>3
<1> QED BY <1>1, <1>2, <1>3

LEMMA CallTaken ==
  ASSUME BridgeTypeOK, AskedOnce, toHost # << >>, toHost' = Tail(toHost)
  PROVE  /\ toHost' \in Seq(Calls) /\ Head(toHost) \in Calls /\ AskedOnce'
         /\ Asked(Head(toHost).id)
         /\ \A id : Asked(id)' <=> Asked(id) /\ id # Head(toHost).id
<1>1. /\ toHost' \in Seq(Calls) /\ Head(toHost) \in Calls
      /\ 1 \in DOMAIN toHost /\ Head(toHost) = toHost[1]
      /\ \A i \in DOMAIN toHost' : i + 1 \in DOMAIN toHost /\ i + 1 # 1 /\ toHost'[i] = toHost[i + 1]
      /\ \A i \in DOMAIN toHost : i # 1 => \E j \in DOMAIN toHost' : j + 1 = i /\ toHost'[j] = toHost[i]
      /\ \A i, j \in DOMAIN toHost' : i # j => i + 1 # j + 1
  BY TailFacts DEF BridgeTypeOK
<1>2. AskedOnce'
  BY <1>1 DEF AskedOnce
<1>3. Asked(Head(toHost).id)
  BY <1>1 DEF Asked
<1>4. ASSUME NEW id, Asked(id)' PROVE Asked(id) /\ id # Head(toHost).id
  <2>1. PICK i \in DOMAIN toHost' : toHost'[i].id = id
    BY <1>4 DEF Asked
  <2>2. i + 1 \in DOMAIN toHost /\ i + 1 # 1 /\ toHost[i + 1].id = id
    BY <1>1, <2>1
  <2> HIDE DEF AskedOnce
  <2>3. toHost[i + 1].id # toHost[1].id
    BY <1>1, <2>2 DEF AskedOnce
  <2> QED BY <1>1, <2>2, <2>3 DEF Asked
<1>5. ASSUME NEW id, Asked(id), id # Head(toHost).id PROVE Asked(id)'
  <2>1. PICK i \in DOMAIN toHost : toHost[i].id = id
    BY <1>5 DEF Asked
  <2> QED BY <1>1, <1>5, <2>1 DEF Asked
<1> QED BY <1>1, <1>2, <1>3, <1>4, <1>5

LEMMA MessageSent ==
  ASSUME BridgeTypeOK, NEW m \in Messages, toWeb' = Append(toWeb, m)
  PROVE  /\ toWeb' \in Seq(Messages)
         /\ \A id : Told(id) => Told(id)'
         /\ m.kind = "answer" => Told(m.id)'
<1> DEFINE n == Len(toWeb) + 1
<1>1. /\ toWeb' \in Seq(Messages)
      /\ \A i \in DOMAIN toWeb : i \in DOMAIN toWeb' /\ toWeb'[i] = toWeb[i]
      /\ n \in DOMAIN toWeb' /\ toWeb'[n] = m
  BY AppendFacts DEF BridgeTypeOK
<1> HIDE DEF n
<1> QED BY <1>1 DEF Told

LEMMA MessageTaken ==
  ASSUME BridgeTypeOK, toWeb # << >>, toWeb' = Tail(toWeb)
  PROVE  /\ toWeb' \in Seq(Messages) /\ Head(toWeb) \in Messages
         /\ \A id : Told(id) => Told(id)' \/ (Head(toWeb).kind = "answer" /\ Head(toWeb).id = id)
<1>1. /\ toWeb' \in Seq(Messages) /\ Head(toWeb) \in Messages
      /\ 1 \in DOMAIN toWeb /\ Head(toWeb) = toWeb[1]
      /\ \A i \in DOMAIN toWeb : i # 1 => \E j \in DOMAIN toWeb' : j + 1 = i /\ toWeb'[j] = toWeb[i]
  BY TailFacts DEF BridgeTypeOK
<1>2. ASSUME NEW id, Told(id)
      PROVE  Told(id)' \/ (Head(toWeb).kind = "answer" /\ Head(toWeb).id = id)
  <2>1. PICK i \in DOMAIN toWeb : toWeb[i].kind = "answer" /\ toWeb[i].id = id
    BY <1>2 DEF Told
  <2> QED BY <1>1, <2>1 DEF Told
<1> QED BY <1>1, <1>2

-----------------------------------------------------------------------------
(* The webview's steps keep every request in somebody's hands *)

\* A call of its own id joins what the webview waits for.
LEMMA AnotherCall ==
  ASSUME RequestsInv, NEW call \in Calls, call.id = web.last + 1,
         toHost' = Append(toHost, call), web'.last = call.id, UNCHANGED <<host, posted>>,
         \A w \in web'.waits : w = call \/ (w \in web.waits /\ (Told(w.id) => Told(w.id)'))
  PROVE  HandsOK'
<1>1. call.id \in RequestIds /\ web.last \in Nat
  BY BridgeAssumption DEF RequestsInv, BridgeTypeOK, Calls
<1>3. ~Asked(call.id) /\ posted[call.id] = 0 /\ call.id \notin host.pending
  BY <1>1 DEF RequestsInv, HandsOK
<1>4. /\ AskedOnce'
      /\ \A id : Asked(id)' <=> Asked(id) \/ id = call.id
  BY <1>3, CallSent DEF RequestsInv, HandsOK
<1>5. ASSUME NEW id \in RequestIds
      PROVE  /\ Asked(id)' => posted'[id] = 0 /\ id \notin host'.pending /\ id <= web'.last
             /\ id \in host'.pending => posted'[id] = 0 /\ id <= web'.last
             /\ posted'[id] # 0 => id <= web'.last
  <2>1. id \in Nat
    BY DEF RequestIds
  <2> QED BY <1>1, <1>3, <1>4, <2>1 DEF RequestsInv, HandsOK
<1>6. ASSUME NEW w \in web'.waits PROVE w.id <= web'.last /\ InHands(w.id)'
  <2>1. CASE w = call
    BY <1>1, <1>4, <2>1 DEF InHands
  <2>2. CASE w \in web.waits /\ (Told(w.id) => Told(w.id)')
    <3>1. w.id \in Nat
      BY <2>2 DEF RequestsInv, BridgeTypeOK, Calls, RequestIds
    <3> QED BY <1>1, <1>4, <2>2, <3>1 DEF RequestsInv, HandsOK, InHands
  <2> QED BY <2>1, <2>2
<1>7. ASSUME NEW v \in web'.waits, NEW w \in web'.waits, v.id = w.id PROVE v = w
  <2>1. \A u \in web.waits : u.id # call.id
    BY <1>1 DEF RequestsInv, HandsOK
  <2> QED BY <1>7, <2>1 DEF RequestsInv, HandsOK
<1> QED BY <1>4, <1>5, <1>6, <1>7 DEF HandsOK

\* Nothing is asked; what was waited for and is still, is in somebody's hands.
LEMMA NoCall ==
  ASSUME RequestsInv, toHost' = toHost, web'.last = web.last, UNCHANGED <<host, posted>>,
         \A w \in web'.waits : w \in web.waits /\ (Told(w.id) => Told(w.id)')
  PROVE  HandsOK'
<1>1. /\ AskedOnce'
      /\ \A id : Asked(id)' <=> Asked(id)
  BY DEF RequestsInv, HandsOK, AskedOnce, Asked
<1>2. ASSUME NEW id \in RequestIds
      PROVE  /\ Asked(id)' => posted'[id] = 0 /\ id \notin host'.pending /\ id <= web'.last
             /\ id \in host'.pending => posted'[id] = 0 /\ id <= web'.last
             /\ posted'[id] # 0 => id <= web'.last
  BY <1>1 DEF RequestsInv, HandsOK
<1>3. ASSUME NEW w \in web'.waits PROVE w.id <= web'.last /\ InHands(w.id)'
  BY <1>1 DEF RequestsInv, HandsOK, InHands
<1>4. ASSUME NEW v \in web'.waits, NEW w \in web'.waits, v.id = w.id PROVE v = w
  BY <1>4 DEF RequestsInv, HandsOK
<1> QED BY <1>1, <1>2, <1>3, <1>4 DEF HandsOK

LEMMA SearchKeepsRequests ==
  ASSUME RequestsInv, Search
  PROVE  RequestsInv'
<1> DEFINE call == [id |-> web.last + 1, kind |-> "search", gen |-> web.gen + 1]
<1> USE BridgeAssumption
<1>1. /\ web.last \in 0..MaxRequests /\ web.last < MaxRequests /\ web.gen \in Nat
      /\ web' = [gen |-> web.gen + 1, shown |-> [what |-> "loading", of |-> web.gen + 1],
                 waits |-> web.waits \cup {call}, last |-> web.last + 1]
      /\ toHost' = Append(toHost, call)
      /\ UNCHANGED <<toWeb, host, proc, posted>>
  BY DEF RequestsInv, BridgeTypeOK, Search, Later, Unchanged
<1>2. call \in Calls /\ call.id = web.last + 1
  BY <1>1 DEF Calls, RequestIds
<1> HIDE DEF call
<1>3. BridgeTypeOK'
  BY <1>1, <1>2, CallSent DEF RequestsInv, BridgeTypeOK
<1>4. \A w \in web'.waits : w = call \/ (w \in web.waits /\ (Told(w.id) => Told(w.id)'))
  BY <1>1 DEF Told
<1> QED BY <1>1, <1>2, <1>3, <1>4, AnotherCall DEF RequestsInv

LEMMA CloseKeepsRequests ==
  ASSUME RequestsInv, Close
  PROVE  RequestsInv'
<1> DEFINE call == [id |-> web.last + 1, kind |-> "cancel", gen |-> web.gen + 1]
<1> USE BridgeAssumption
<1>1. CASE web.shown.what = "loading"
  <2>1. /\ web.last \in 0..MaxRequests /\ web.last < MaxRequests /\ web.gen \in Nat
        /\ web' = [gen |-> web.gen + 1, shown |-> NoShow,
                   waits |-> web.waits \cup {call}, last |-> web.last + 1]
        /\ toHost' = Append(toHost, call)
        /\ UNCHANGED <<toWeb, host, proc, posted>>
    BY <1>1 DEF RequestsInv, BridgeTypeOK, Close, Later, Unchanged
  <2>2. call \in Calls /\ call.id = web.last + 1
    BY <2>1 DEF Calls, RequestIds
  <2> HIDE DEF call
  <2>3. BridgeTypeOK'
    BY <2>1, <2>2, CallSent DEF RequestsInv, BridgeTypeOK, NoShow
  <2>4. \A w \in web'.waits : w = call \/ (w \in web.waits /\ (Told(w.id) => Told(w.id)'))
    BY <2>1 DEF Told
  <2> QED BY <2>1, <2>2, <2>3, <2>4, AnotherCall DEF RequestsInv
<1>2. CASE web.shown.what # "loading"
  <2>1. /\ web' = [web EXCEPT !.gen = @ + 1, !.shown = NoShow]
        /\ UNCHANGED <<toHost, toWeb, host, proc, posted>>
    BY <1>2 DEF Close, Unchanged
  <2>2. BridgeTypeOK'
    <3>1. web.gen + 1 \in Nat /\ NoShow \in [what : {"graph", "loading"} \cup Results, of : Nat]
      BY DEF RequestsInv, BridgeTypeOK, NoShow
    <3> QED BY <2>1, <3>1 DEF RequestsInv, BridgeTypeOK
  <2>3. /\ web'.last = web.last
        /\ \A w \in web'.waits : w \in web.waits /\ (Told(w.id) => Told(w.id)')
    BY <2>1 DEF RequestsInv, BridgeTypeOK, Told
  <2> QED BY <2>1, <2>2, <2>3, NoCall DEF RequestsInv
<1> QED BY <1>1, <1>2

\* The call an answer belongs to is the only one of its id.
LEMMA CallFacts ==
  ASSUME RequestsInv, NEW id, Waits(id)
  PROVE  /\ Call(id) \in web.waits /\ Call(id).id = id
         /\ \A w \in web.waits : w # Call(id) => w.id # id
<1>1. Call(id) \in web.waits /\ Call(id).id = id
  BY DEF Waits, Call
<1> HIDE DEF Call
<1> QED BY <1>1 DEF RequestsInv, HandsOK

LEMMA ReceiveKeepsRequests ==
  ASSUME RequestsInv, Receive
  PROVE  RequestsInv'
<1> DEFINE m == Head(toWeb)
           call == Call(m.id)
<1> USE BridgeAssumption
<1>1. /\ toWeb' \in Seq(Messages) /\ m \in Messages
      /\ \A id : Told(id) => Told(id)' \/ (m.kind = "answer" /\ m.id = id)
  BY MessageTaken DEF RequestsInv, Receive
<1>2. UNCHANGED <<host, proc, posted>>
  BY DEF Receive
<1>3. CASE m.kind = "answer" /\ ~Waits(m.id) /\ UNCHANGED <<web, toHost>>
  <2>1. BridgeTypeOK'
    BY <1>1, <1>2, <1>3 DEF RequestsInv, BridgeTypeOK
  <2>2. \A w \in web'.waits : w \in web.waits /\ (Told(w.id) => Told(w.id)')
    BY <1>1, <1>3 DEF Waits
  <2> QED BY <1>2, <1>3, <2>1, <2>2, NoCall DEF RequestsInv
<1>4. CASE m.kind = "answer" /\ Waits(m.id) /\ web' = Shows(call, m.result) /\ UNCHANGED toHost
  <2>1. /\ call \in web.waits
        /\ \A w \in web.waits : w # call => w.id # m.id
    BY <1>4, CallFacts
  <2>2. m.result \in Results /\ call.gen \in Nat
    BY <1>1, <2>1 DEF Messages, Calls, RequestsInv, BridgeTypeOK
  <2> HIDE DEF m, call
  <2>3. web' \in [gen : Nat, shown : [what : {"graph", "loading"} \cup Results, of : Nat],
              waits : SUBSET Calls, last : 0..MaxRequests]
    BY <1>4, <2>2 DEF Shows, RequestsInv, BridgeTypeOK
  <2>4. BridgeTypeOK'
    BY <1>1, <1>2, <1>4, <2>3 DEF RequestsInv, BridgeTypeOK
  <2>5. web'.last = web.last /\ web'.waits = web.waits \ {call}
    BY <1>4 DEF Shows, RequestsInv, BridgeTypeOK
  <2>6. \A w \in web'.waits : w \in web.waits /\ (Told(w.id) => Told(w.id)')
    BY <1>1, <2>1, <2>5
  <2> QED BY <1>2, <1>4, <2>4, <2>5, <2>6, NoCall DEF RequestsInv
<1>5. CASE m.kind = "answer" /\ Waits(m.id) /\ NextPage(call)
  <2> DEFINE next == [call EXCEPT !.id = web.last + 1]
  <2>1. /\ call \in web.waits
        /\ \A w \in web.waits : w # call => w.id # m.id
    BY <1>5, CallFacts
  <2>2. call \in Calls
    BY <2>1 DEF RequestsInv, BridgeTypeOK
  <2> HIDE DEF m, call
  <2>a. /\ web.last \in 0..MaxRequests /\ web.last < MaxRequests
        /\ web.last + 1 \in RequestIds /\ web.last + 1 \in 0..MaxRequests
    BY <1>5 DEF NextPage, Later, RequestIds, RequestsInv, BridgeTypeOK
  <2>b. next \in Calls /\ next.id = web.last + 1
    BY <2>2, <2>a DEF Calls
  <2>3. /\ web' = [web EXCEPT !.waits = (@ \ {call}) \cup {next}, !.last = next.id]
        /\ toHost' = Append(toHost, next)
    BY <1>5 DEF NextPage
  <2> HIDE DEF next
  <2>c. (web.waits \ {call}) \cup {next} \in SUBSET Calls /\ next.id \in 0..MaxRequests
    BY <2>a, <2>b DEF RequestsInv, BridgeTypeOK
  <2>4. /\ web' \in [gen : Nat, shown : [what : {"graph", "loading"} \cup Results, of : Nat],
                     waits : SUBSET Calls, last : 0..MaxRequests]
        /\ web'.last = next.id /\ web'.waits = (web.waits \ {call}) \cup {next}
    BY <2>3, <2>c DEF RequestsInv, BridgeTypeOK
  <2>5. BridgeTypeOK'
    BY <1>1, <1>2, <2>b, <2>3, <2>4, CallSent DEF RequestsInv, BridgeTypeOK
  <2>6. \A w \in web'.waits : w = next \/ (w \in web.waits /\ (Told(w.id) => Told(w.id)'))
    BY <1>1, <2>1, <2>4
  <2> QED BY <1>2, <2>b, <2>3, <2>4, <2>5, <2>6, AnotherCall DEF RequestsInv
<1>6. CASE /\ m.kind = "status" /\ UNCHANGED toHost
           /\ web' = [web EXCEPT !.waits = {},
                        !.shown = IF \E w \in web.waits : IsCurrent(w)
                                  THEN [what |-> "transport", of |-> web.gen] ELSE @]
  <2>1. /\ web' \in [gen : Nat, shown : [what : {"graph", "loading"} \cup Results, of : Nat],
                     waits : SUBSET Calls, last : 0..MaxRequests]
        /\ web'.last = web.last /\ web'.waits = {}
    BY <1>6 DEF RequestsInv, BridgeTypeOK, Results
  <2>2. BridgeTypeOK'
    BY <1>1, <1>2, <1>6, <2>1 DEF RequestsInv, BridgeTypeOK
  <2> QED BY <1>2, <1>6, <2>1, <2>2, NoCall DEF RequestsInv
<1> QED BY <1>3, <1>4, <1>5, <1>6 DEF Receive

-----------------------------------------------------------------------------
(* So do the bridge's and the sidecar's *)

\* Every request of `ids` is rejected: it was not answered before, and is nowhere else.
LEMMA Rejected ==
  ASSUME RequestsInv, NEW ids \in SUBSET RequestIds, RejectAll(ids), web' = web,
         \A id \in host.pending : id \in ids, host'.pending = {},
         AskedOnce', \A id : Asked(id)' <=> Asked(id) /\ id \notin ids,
         \A id \in ids : posted[id] = 0 /\ id <= web.last
  PROVE  HandsOK' /\ toWeb' \in Seq(Messages) /\ posted' \in [RequestIds -> {0, 1}]
<1>1. /\ toWeb' \in Seq(Messages)
      /\ \A id : Told(id) => Told(id)'
      /\ \A id \in ids : Told(id)'
      /\ \A id \in RequestIds : posted'[id] = posted[id] + (IF id \in ids THEN 1 ELSE 0)
  BY RejectAllFacts DEF RequestsInv, BridgeTypeOK
<1>2. \A id \in RequestIds : posted'[id] = (IF id \in ids THEN 1 ELSE posted[id])
  BY <1>1 DEF RequestsInv, BridgeTypeOK
<1>3. posted' \in [RequestIds -> {0, 1}]
  <2>1. posted' = [id \in RequestIds |-> posted[id] + (IF id \in ids THEN 1 ELSE 0)]
    BY DEF RejectAll
  <2>2. posted \in [RequestIds -> {0, 1}]
    BY DEF RequestsInv, BridgeTypeOK
  <2> QED BY <2>1, <2>2
<1>4. ASSUME NEW id \in RequestIds
      PROVE  /\ Asked(id)' => posted'[id] = 0 /\ id \notin host'.pending /\ id <= web'.last
             /\ id \in host'.pending => posted'[id] = 0 /\ id <= web'.last
             /\ posted'[id] # 0 => id <= web'.last
  BY <1>2 DEF RequestsInv, HandsOK
<1>5. ASSUME NEW w \in web'.waits PROVE w.id <= web'.last /\ InHands(w.id)'
  BY <1>1 DEF RequestsInv, HandsOK, InHands
<1>6. ASSUME NEW v \in web'.waits, NEW w \in web'.waits, v.id = w.id PROVE v = w
  BY <1>6 DEF RequestsInv, HandsOK
<1> QED BY <1>1, <1>3, <1>4, <1>5, <1>6 DEF HandsOK

\* What nobody took from the way to the bridge is still there.
LEMMA NothingTaken ==
  ASSUME RequestsInv, toHost' = toHost
  PROVE  /\ AskedOnce' /\ \A id : Asked(id)' <=> Asked(id) /\ id \notin host.pending
         /\ \A id \in host.pending : posted[id] = 0 /\ id <= web.last
<1>1. AskedOnce' /\ \A id : Asked(id)' <=> Asked(id)
  BY DEF RequestsInv, HandsOK, AskedOnce, Asked
<1>2. \A id \in host.pending : id \in RequestIds
  BY DEF RequestsInv, BridgeTypeOK
<1> QED BY <1>1, <1>2 DEF RequestsInv, HandsOK

LEMMA WrittenType ==
  ASSUME NEW p \in Sidecars, NEW calls \in SUBSET Calls
  PROVE  Written(p, calls) \in Sidecars
<1>1. \A c \in calls : Thread(c) \in Threads
  BY DEF Calls, Thread, Threads, AllIds, Results
<1>2. {Thread(c) : c \in calls} \in SUBSET Threads
  BY <1>1
<1> HIDE DEF Threads
<1> DEFINE more == {Thread(c) : c \in calls}
<1> HIDE DEF more
<1>3. more \in SUBSET Threads
  BY <1>2 DEF more
<1>4. [p EXCEPT !.threads = @ \cup more] \in Sidecars
  BY <1>3 DEF Sidecars
<1> QED BY <1>4 DEF Written, more

LEMMA NewProcType == NoProc \in Sidecars /\ NewProc \in Sidecars
<1>1. << >> \in Seq(AllIds) /\ << >> \in Seq([id : AllIds, result : Results])
  OBVIOUS
<1> QED BY <1>1 DEF NoProc, NewProc, Sidecars

LEMMA InternalType ==
  /\ Internal(ListId, "list") \in Threads
  /\ Internal(OpenId, "open") \in Threads
BY DEF Internal, Thread, Threads, AllIds, Results

LEMMA HandleKeepsRequests ==
  ASSUME RequestsInv, Handle
  PROVE  RequestsInv'
<1> DEFINE call == Head(toHost)
           ids == host.pending \cup {call.id}
<1>1. /\ toHost' \in Seq(Calls) /\ call \in Calls /\ AskedOnce'
      /\ Asked(call.id)
      /\ \A id : Asked(id)' <=> Asked(id) /\ id # call.id
  BY CallTaken DEF RequestsInv, HandsOK, Handle
<1> HIDE DEF call
<1>2. /\ call.id \in RequestIds /\ ids \in SUBSET RequestIds
      /\ posted[call.id] = 0 /\ call.id \notin host.pending /\ call.id <= web.last
  BY <1>1 DEF Calls, RequestsInv, BridgeTypeOK, HandsOK
<1>3. \A id \in ids : posted[id] = 0 /\ id <= web.last
  BY <1>2 DEF RequestsInv, HandsOK
<1>4. web' = web
  BY DEF Handle
<1>a. \A id : Asked(id)' <=> Asked(id) /\ id \notin ids
  <2>1. \A id \in host.pending : id \in RequestIds /\ ~Asked(id)
    BY DEF RequestsInv, BridgeTypeOK, HandsOK
  <2> QED BY <1>1, <2>1
<1>b. (\A id \in host.pending : id \in ids) /\ ids = host.pending \cup {call.id}
  OBVIOUS
<1> HIDE DEF ids
<1>5. ASSUME RejectAll(ids), host'.pending = {}
      PROVE  HandsOK' /\ toWeb' \in Seq(Messages) /\ posted' \in [RequestIds -> {0, 1}]
  BY <1>1, <1>2, <1>3, <1>4, <1>5, <1>a, <1>b, Rejected
<1>6. ASSUME host'.pending = ids, UNCHANGED <<toWeb, posted>> PROVE HandsOK'
  <2>1. \A id : Told(id)' <=> Told(id)
    BY <1>6 DEF Told
  <2>2. ASSUME NEW id \in RequestIds
        PROVE  /\ Asked(id)' => posted'[id] = 0 /\ id \notin host'.pending /\ id <= web'.last
               /\ id \in host'.pending => posted'[id] = 0 /\ id <= web'.last
               /\ posted'[id] # 0 => id <= web'.last
    BY <1>1, <1>3, <1>4, <1>6, <1>a DEF RequestsInv, HandsOK
  <2>3. ASSUME NEW w \in web'.waits PROVE w.id <= web'.last /\ InHands(w.id)'
    BY <1>1, <1>4, <1>6, <1>b, <2>1 DEF RequestsInv, HandsOK, InHands
  <2>4. ASSUME NEW v \in web'.waits, NEW w \in web'.waits, v.id = w.id PROVE v = w
    BY <1>4, <2>4 DEF RequestsInv, HandsOK
  <2> QED BY <1>1, <2>2, <2>3, <2>4 DEF HandsOK
<1>7. CASE host.disposed /\ RejectAll(ids) /\ host' = [host EXCEPT !.pending = {}] /\ UNCHANGED proc
  <2>1. host'.pending = {}
    BY <1>7 DEF RequestsInv, BridgeTypeOK
  <2>2. HandsOK' /\ toWeb' \in Seq(Messages) /\ posted' \in [RequestIds -> {0, 1}]
    BY <1>5, <1>7, <2>1
  <2> QED BY <1>1, <1>4, <1>7, <2>2 DEF RequestsInv, BridgeTypeOK
<1>8. CASE /\ host' = [host EXCEPT !.pending = ids]
           /\ proc' = Written(proc, {call}) /\ UNCHANGED <<toWeb, posted>>
  <2>1. host'.pending = ids
    BY <1>8 DEF RequestsInv, BridgeTypeOK
  <2>2. proc' \in Sidecars
    BY <1>1, <1>8, WrittenType DEF RequestsInv, BridgeTypeOK
  <2> QED BY <1>1, <1>2, <1>4, <1>6, <1>8, <2>1, <2>2 DEF RequestsInv, BridgeTypeOK
<1>9. CASE /\ host' = [host EXCEPT !.pending = ids, !.joined = @ \cup {call}]
           /\ UNCHANGED <<proc, toWeb, posted>>
  <2>1. host'.pending = ids
    BY <1>9 DEF RequestsInv, BridgeTypeOK
  <2> QED BY <1>1, <1>2, <1>4, <1>6, <1>9, <2>1 DEF RequestsInv, BridgeTypeOK
<1>10. CASE /\ host' = [host EXCEPT !.pending = ids, !.joined = {call}, !.startup = "list"]
            /\ proc' = [NewProc EXCEPT !.threads = {Internal(ListId, "list")}]
            /\ UNCHANGED <<toWeb, posted>>
  <2>1. host'.pending = ids
    BY <1>10 DEF RequestsInv, BridgeTypeOK
  <2>2. proc' \in Sidecars
    BY <1>10, NewProcType, InternalType DEF Sidecars
  <2> QED BY <1>1, <1>2, <1>4, <1>6, <1>10, <2>1, <2>2 DEF RequestsInv, BridgeTypeOK
<1>11. CASE RejectAll(ids) /\ UNCHANGED proc /\ host' = [host EXCEPT !.pending = {}, !.state = "failed"]
  <2>1. host'.pending = {}
    BY <1>11 DEF RequestsInv, BridgeTypeOK
  <2>2. HandsOK' /\ toWeb' \in Seq(Messages) /\ posted' \in [RequestIds -> {0, 1}]
    BY <1>5, <1>11, <2>1
  <2> QED BY <1>1, <1>4, <1>11, <2>2 DEF RequestsInv, BridgeTypeOK
<1> QED BY <1>7, <1>8, <1>9, <1>10, <1>11 DEF Handle, call, ids

\* What the bridge reads off the sidecar's output.
LEMMA LineRead ==
  ASSUME proc \in Sidecars, proc.out # << >>
  PROVE  /\ Head(proc.out).id \in AllIds /\ Head(proc.out).result \in Results
         /\ [proc EXCEPT !.out = Tail(@)] \in Sidecars
<1> DEFINE S == [id : AllIds, result : Results]
<1>1. proc.out \in Seq(S)
  BY DEF Sidecars
<1>2. Tail(proc.out) \in Seq(S) /\ Head(proc.out) \in S
  BY <1>1, TailFacts
<1>3. [proc EXCEPT !.out = Tail(@)] \in Sidecars
  BY <1>2 DEF Sidecars
<1> QED BY <1>2, <1>3

LEMMA RelayKeepsRequests ==
  ASSUME RequestsInv, Relay
  PROVE  RequestsInv'
<1> DEFINE m == Head(proc.out)
           read == [proc EXCEPT !.out = Tail(@)]
<1>1. m.result \in Results /\ read \in Sidecars
  BY LineRead DEF RequestsInv, BridgeTypeOK, Relay
<1>2. web' = web /\ toHost' = toHost
  BY DEF Relay
<1>3. /\ AskedOnce'
      /\ \A id : Asked(id)' <=> Asked(id) /\ id \notin host.pending
      /\ \A id \in host.pending : posted[id] = 0 /\ id <= web.last
  BY <1>2, NothingTaken
<1>4. ASSUME host'.pending = host.pending, UNCHANGED <<toWeb, posted>> PROVE HandsOK'
  <2>1. \A id : Told(id)' <=> Told(id)
    BY <1>4 DEF Told
  <2>2. ASSUME NEW w \in web'.waits PROVE w.id <= web'.last /\ InHands(w.id)'
    BY <1>2, <1>3, <1>4, <2>1 DEF RequestsInv, HandsOK, InHands
  <2> QED BY <1>2, <1>3, <1>4, <2>2 DEF RequestsInv, HandsOK
<1>5. CASE /\ host' = [host EXCEPT !.startup = "open"] /\ UNCHANGED <<toWeb, posted>>
           /\ proc' = IF proc.alive THEN [read EXCEPT !.threads = @ \cup {Internal(OpenId, "open")}]
                      ELSE read
  <2> HIDE DEF read
  <2>1. proc' \in Sidecars
    BY <1>1, <1>5, InternalType DEF Sidecars
  <2>2. host'.pending = host.pending
    BY <1>5 DEF RequestsInv, BridgeTypeOK
  <2> QED BY <1>2, <1>4, <1>5, <2>1, <2>2 DEF RequestsInv, BridgeTypeOK
<1>6. CASE /\ RejectAll(host.pending) /\ proc' = NoProc
           /\ host' = [host EXCEPT !.pending = {}, !.joined = {}, !.startup = "none",
                                   !.state = "failed"]
  <2>1. host'.pending = {} /\ host.pending \in SUBSET RequestIds
    BY <1>6 DEF RequestsInv, BridgeTypeOK
  <2>2. HandsOK' /\ toWeb' \in Seq(Messages) /\ posted' \in [RequestIds -> {0, 1}]
    BY <1>2, <1>3, <1>6, <2>1, Rejected
  <2> QED BY <1>2, <1>6, <2>2, NewProcType DEF RequestsInv, BridgeTypeOK
<1>7. CASE /\ UNCHANGED <<toWeb, posted>>
           /\ host' = [host EXCEPT !.startup = "none", !.joined = {}, !.state = "running"]
           /\ proc' = Written(read, Resumed)
  <2> HIDE DEF read
  <2>1. proc' \in Sidecars
    <3>1. Resumed \in SUBSET Calls
      BY DEF Resumed, RequestsInv, BridgeTypeOK
    <3> QED BY <1>1, <1>7, <3>1, WrittenType
  <2>2. host'.pending = host.pending
    BY <1>7 DEF RequestsInv, BridgeTypeOK
  <2> QED BY <1>2, <1>4, <1>7, <2>1, <2>2 DEF RequestsInv, BridgeTypeOK
<1>8. CASE /\ m.id \in RequestIds /\ proc' = read /\ m.id \in host.pending
           /\ host' = [host EXCEPT !.pending = @ \ {m.id}]
           /\ toWeb' = Append(toWeb, Answer(m.id, m.result))
           /\ posted' = [posted EXCEPT ![m.id] = @ + 1]
  <2> DEFINE a == Answer(m.id, m.result)
  <2>0. BridgeAssumption
    BY BridgeAssumption
  <2>1. a \in Messages /\ a.kind = "answer" /\ a.id = m.id
    BY <1>1, <1>8, <2>0 DEF Answer, Messages, RequestIds, BridgeAssumption
  <2> HIDE DEF read
  <2>a. PICK n : n = m.id
    OBVIOUS
  <2>b. PICK b \in Messages : b = a
    BY <2>1
  <2>2. toWeb' = Append(toWeb, b) /\ b.kind = "answer" /\ b.id = n
    BY <1>8, <2>1, <2>a, <2>b
  <2> HIDE DEF a
  <2>3. /\ toWeb' \in Seq(Messages) /\ Told(n)'
        /\ \A id : Told(id) => Told(id)'
    BY <2>2, MessageSent DEF RequestsInv
  <2> HIDE DEF m
  <2>4. posted[m.id] = 0 /\ m.id <= web.last
    BY <1>3, <1>8
  <2>5. /\ host'.pending = host.pending \ {m.id}
        /\ posted' = [posted EXCEPT ![m.id] = 1]
    BY <1>8, <2>4 DEF RequestsInv, BridgeTypeOK
  <2>6. BridgeTypeOK'
    BY <1>1, <1>2, <1>8, <2>3, <2>5 DEF RequestsInv, BridgeTypeOK
  <2>7. ASSUME NEW id \in RequestIds
        PROVE  /\ Asked(id)' => posted'[id] = 0 /\ id \notin host'.pending /\ id <= web'.last
               /\ id \in host'.pending => posted'[id] = 0 /\ id <= web'.last
               /\ posted'[id] # 0 => id <= web'.last
    <3>1. posted'[id] = (IF id = m.id THEN 1 ELSE posted[id])
      BY <2>5 DEF RequestsInv, BridgeTypeOK
    <3> QED BY <1>2, <1>3, <1>8, <2>4, <2>5, <3>1 DEF RequestsInv, HandsOK
  <2>8. ASSUME NEW w \in web'.waits PROVE w.id <= web'.last /\ InHands(w.id)'
    <3>1. w.id <= web.last /\ InHands(w.id)
      BY <1>2 DEF RequestsInv, HandsOK
    <3>2. CASE w.id = n
      BY <1>2, <2>3, <3>1, <3>2 DEF InHands
    <3>3. CASE w.id # n /\ w.id \in host.pending
      BY <1>2, <2>a, <2>5, <3>1, <3>3 DEF InHands
    <3>4. CASE w.id # n /\ w.id \notin host.pending
      BY <1>2, <1>3, <2>3, <3>1, <3>4 DEF InHands
    <3> QED BY <3>2, <3>3, <3>4
  <2>9. HandsOK'
    BY <1>2, <1>3, <2>7, <2>8 DEF RequestsInv, HandsOK
  <2> QED BY <2>6, <2>9 DEF RequestsInv
<1>9. CASE proc' = read /\ UNCHANGED <<toWeb, posted, host>>
  BY <1>1, <1>2, <1>4, <1>9 DEF RequestsInv, BridgeTypeOK
<1> QED BY <1>5, <1>6, <1>7, <1>8, <1>9 DEF Relay

LEMMA LossKeepsRequests ==
  ASSUME RequestsInv, Loss
  PROVE  RequestsInv'
<1>1. /\ RejectAll(host.pending) /\ proc' = NoProc /\ web' = web /\ toHost' = toHost
      /\ host' = [host EXCEPT !.pending = {}, !.joined = {}, !.startup = "none",
                              !.state = "reconnecting"]
  BY DEF Loss, LostCalls, PendingAfterLoss, StateAfterLoss
<1>2. host'.pending = {} /\ host.pending \in SUBSET RequestIds
  BY <1>1 DEF RequestsInv, BridgeTypeOK
<1>3. HandsOK' /\ toWeb' \in Seq(Messages) /\ posted' \in [RequestIds -> {0, 1}]
  BY <1>1, <1>2, NothingTaken, Rejected
<1> QED BY <1>1, <1>3, NewProcType DEF RequestsInv, BridgeTypeOK

LEMMA DisposeKeepsRequests ==
  ASSUME RequestsInv, Dispose
  PROVE  RequestsInv'
<1>1. /\ proc' = NoProc /\ web' = web /\ toHost' = toHost
      /\ host' = [host EXCEPT !.disposed = TRUE, !.pending = {}, !.joined = {}, !.startup = "none",
                              !.state = "idle"]
  BY DEF Dispose
<1>2. host'.pending = {} /\ host.pending \in SUBSET RequestIds
  BY <1>1 DEF RequestsInv, BridgeTypeOK
<1>3. CASE RejectAll(host.pending)
  <2>1. HandsOK' /\ toWeb' \in Seq(Messages) /\ posted' \in [RequestIds -> {0, 1}]
    BY <1>1, <1>2, <1>3, NothingTaken, Rejected
  <2> QED BY <1>1, <2>1, NewProcType DEF RequestsInv, BridgeTypeOK
<1>4. CASE host.pending = {} /\ UNCHANGED <<toWeb, posted>>
  <2>1. BridgeTypeOK'
    BY <1>1, <1>4, NewProcType DEF RequestsInv, BridgeTypeOK
  <2>2. /\ AskedOnce' /\ \A id : Asked(id)' <=> Asked(id)
        /\ \A id : Told(id)' <=> Told(id)
    BY <1>1, <1>4 DEF RequestsInv, HandsOK, AskedOnce, Asked, Told
  <2>3. HandsOK'
    BY <1>1, <1>2, <1>4, <2>2 DEF RequestsInv, HandsOK, InHands
  <2> QED BY <2>1, <2>3 DEF RequestsInv
<1> QED BY <1>3, <1>4 DEF Dispose

LEMMA SidecarKeepsRequests ==
  ASSUME RequestsInv, proc' \in Sidecars, SidecarOnly
  PROVE  RequestsInv'
<1>1. UNCHANGED <<web, toHost, toWeb, host, posted>>
  BY DEF SidecarOnly
<1>2. /\ AskedOnce' /\ \A id : Asked(id)' <=> Asked(id)
      /\ \A id : Told(id)' <=> Told(id)
  BY <1>1 DEF RequestsInv, HandsOK, AskedOnce, Asked, Told
<1>3. HandsOK'
  BY <1>1, <1>2 DEF RequestsInv, HandsOK, InHands
<1> QED BY <1>1, <1>3 DEF RequestsInv, BridgeTypeOK

\* The thread that moves is replaced, or gone with its answer written.
LEMMA ThreadType ==
  ASSUME proc \in Sidecars, NEW t \in proc.threads,
         Claim(t) \/ Enqueue(t) \/ Serve(t) \/ Walk(t) \/ WriteAnswer(t)
  PROVE  proc' \in Sidecars
<1>1. t \in Threads /\ proc.current + 1 \in Nat
  BY DEF Sidecars
<1>2. /\ [t EXCEPT !.pc = "claimed", !.gen = proc.current + 1] \in Threads
      /\ [t EXCEPT !.pc = "queued"] \in Threads
      /\ \A result \in Results : [t EXCEPT !.pc = "reply", !.result = result] \in Threads
  BY <1>1 DEF Threads
<1>3. \A u \in Threads : (proc.threads \ {t}) \cup {u} \in SUBSET Threads
  BY DEF Sidecars
<1> HIDE DEF Threads
<1>4. CASE Claim(t)
  <2>1. "not open" \in Results
    BY DEF Results
  <2> QED BY <1>1, <1>2, <1>3, <1>4, <2>1, ZenonT(40) DEF Claim, Replies, Update, Sidecars
<1>5. CASE Enqueue(t)
  <2>1. Append(proc.queue, t.id) \in Seq(AllIds)
    BY <1>1, AppendFacts DEF Threads, Sidecars
  <2> QED BY <1>2, <1>3, <1>5, <2>1 DEF Enqueue, Sidecars
<1>6. CASE Serve(t)
  <2>1. "not open" \in Results /\ "ok" \in Results /\ "error" \in Results
    BY DEF Results
  <2> DEFINE With(r) == (proc.threads \ {t}) \cup {[t EXCEPT !.pc = "reply", !.result = r]}
  <2>2. With("not open") \in SUBSET Threads /\ With("ok") \in SUBSET Threads
        /\ With("error") \in SUBSET Threads
    BY <1>2, <1>3, <2>1
  <2>3. \/ proc' = [proc EXCEPT !.threads = With("not open")]
        \/ proc' = [proc EXCEPT !.current = @ + 1, !.threads = With("ok")]
        \/ proc' = [proc EXCEPT !.threads = With("ok")]
        \/ proc' = [proc EXCEPT !.threads = With("error")]
        \/ proc' = [proc EXCEPT !.open = TRUE, !.threads = With("ok")]
        \/ proc' = [proc EXCEPT !.openFailed = TRUE, !.threads = With("error")]
    BY <1>6 DEF Serve, Replies, Update
  <2> HIDE DEF With
  <2> QED BY <1>1, <2>2, <2>3 DEF Sidecars
<1>7. CASE Walk(t)
  <2> DEFINE result == IF t.gen = proc.current THEN "page" ELSE "cancelled"
             u == [t EXCEPT !.pc = "reply", !.result = result]
  <2>1. result \in Results
    BY DEF Results
  <2>2. u \in Threads
    BY <1>2, <2>1
  <2>3. Tail(proc.queue) \in Seq(AllIds)
    BY <1>7, TailFacts DEF Walk, Sidecars
  <2>4. (proc.threads \ {t}) \cup {u} \in SUBSET Threads
    BY <1>3, <2>2
  <2> QED BY <1>7, <2>3, <2>4 DEF Walk, Sidecars
<1>8. CASE WriteAnswer(t)
  <2>1. Append(proc.out, [id |-> t.id, result |-> t.result]) \in Seq([id : AllIds, result : Results])
    <3>1. [id |-> t.id, result |-> t.result] \in [id : AllIds, result : Results]
      BY <1>1 DEF Threads
    <3> QED BY <3>1, AppendFacts DEF Sidecars
  <2> QED BY <1>8, <2>1 DEF WriteAnswer, Sidecars
<1> QED BY <1>4, <1>5, <1>6, <1>7, <1>8

LEMMA DieType ==
  ASSUME proc \in Sidecars, Die
  PROVE  proc' \in Sidecars
<1>1. << >> \in Seq(AllIds)
  OBVIOUS
<1> QED BY <1>1 DEF Die, Sidecars

-----------------------------------------------------------------------------
(* What the webview sees, and of which repositories *)

Usable == proc.open \/ proc.openFailed

(* A search, and a cancellation, is written to a sidecar whose repositories were opened again, *)
(* if that was possible; it does not find them closed.                                         *)
ThreadOK(t) ==
  /\ t.kind \in {"search", "cancel"} => Usable
  /\ t.kind = "list" => t.id = ListId
  /\ t.pc \in {"claimed", "queued"} => t.kind = "search"
  /\ t.id = OpenId /\ t.pc = "reply" => Usable
  /\ t.result = "not open" => proc.openFailed

ServedOK ==
  /\ web.shown.what # "graph" => web.shown.of = web.gen
  /\ proc.alive /\ host.state = "running" => Usable
  /\ \A t \in proc.threads : ThreadOK(t)
  /\ \A i \in DOMAIN proc.out : proc.out[i].id = OpenId => Usable

ServedInv == BridgeTypeOK /\ ServedOK

LEMMA WebKeepsServed ==
  ASSUME ServedInv, Search \/ Close \/ Receive
  PROVE  ServedOK'
<1>1. UNCHANGED <<host, proc>>
  BY DEF Search, Close, Receive, Unchanged
<1>2. ASSUME web'.shown.what # "graph" => web'.shown.of = web'.gen
      PROVE  ServedOK'
  <2>1. Usable' <=> Usable
    BY <1>1 DEF Usable
  <2>2. \A t : ThreadOK(t)' <=> ThreadOK(t)
    BY <1>1, <2>1 DEF ThreadOK
  <2> QED BY <1>1, <1>2, <2>1, <2>2 DEF ServedInv, ServedOK
<1>3. CASE Search
  BY <1>2, <1>3 DEF Search
<1>4. CASE Close
  <2>1. web'.shown = NoShow
    <3>1. CASE web.shown.what = "loading"
      BY <1>4, <3>1 DEF Close
    <3>2. CASE web.shown.what # "loading"
      BY <1>4, <3>2 DEF Close, ServedInv, BridgeTypeOK
    <3> QED BY <3>1, <3>2
  <2> QED BY <1>2, <2>1 DEF NoShow
<1>5. CASE Receive
  <2>1. CASE web' = web
    BY <1>2, <2>1 DEF ServedInv, ServedOK
  <2>2. ASSUME NEW call, NEW result, web' = Shows(call, result)
        PROVE  web'.shown.what # "graph" => web'.shown.of = web'.gen
    BY <2>2 DEF Shows, IsCurrent, ServedInv, BridgeTypeOK, ServedOK
  <2>3. ASSUME NEW call, NextPage(call)
        PROVE  web'.shown.what # "graph" => web'.shown.of = web'.gen
    BY <2>3 DEF NextPage, ServedInv, BridgeTypeOK, ServedOK
  <2>4. CASE web' = [web EXCEPT !.waits = {},
                       !.shown = IF \E w \in web.waits : IsCurrent(w)
                                 THEN [what |-> "transport", of |-> web.gen] ELSE @]
    <3>1. web'.shown.what # "graph" => web'.shown.of = web'.gen
      BY <2>4 DEF ServedInv, BridgeTypeOK, ServedOK
    <3> QED BY <1>2, <3>1
  <2>5. \/ UNCHANGED web
        \/ web' = Shows(Call(Head(toWeb).id), Head(toWeb).result)
        \/ NextPage(Call(Head(toWeb).id))
        \/ web' = [web EXCEPT !.waits = {},
                       !.shown = IF \E w \in web.waits : IsCurrent(w)
                                 THEN [what |-> "transport", of |-> web.gen] ELSE @]
    BY <1>5 DEF Receive
  <2> QED BY <1>2, <2>1, <2>2, <2>3, <2>4, <2>5
<1> QED BY <1>3, <1>4, <1>5

\* Only what may reach an opened repository is written.
LEMMA WrittenServed ==
  ASSUME NEW p \in Sidecars, NEW calls \in SUBSET Calls, proc' = Written(p, calls),
         web' = web, ServedInv, p.open = proc.open, p.openFailed = proc.openFailed,
         p.threads = proc.threads, p.alive = proc.alive,
         proc.alive => Usable,
         \A i \in DOMAIN p.out : p.out[i].id = OpenId => Usable
  PROVE  ServedOK'
<1> DEFINE more == {Thread(c) : c \in calls}
<1>1. \A t \in more : t.kind \in {"search", "cancel"} /\ t.pc = "new" /\ t.result = "none"
  BY DEF Thread, Calls
<1> HIDE DEF more
<1>2. CASE p.alive
  <2>1. proc' = [p EXCEPT !.threads = @ \cup more]
    BY <1>2 DEF Written, more
  <2>2. /\ proc'.threads = proc.threads \cup more /\ proc'.out = p.out
        /\ proc'.open = proc.open /\ proc'.openFailed = proc.openFailed /\ proc'.alive = proc.alive
    BY <2>1 DEF Sidecars
  <2>3. Usable /\ Usable'
    BY <1>2, <2>2 DEF Usable
  <2>4. ASSUME NEW t \in proc'.threads PROVE ThreadOK(t)'
    <3>1. CASE t \in proc.threads
      <4>1. ThreadOK(t)
        BY <3>1 DEF ServedInv, ServedOK
      <4> QED BY <2>2, <2>3, <4>1 DEF ThreadOK
    <3>2. CASE t \in more
      BY <1>1, <2>3, <3>2 DEF ThreadOK
    <3> QED BY <2>2, <3>1, <3>2
  <2> QED BY <2>2, <2>3, <2>4 DEF ServedInv, ServedOK
<1>3. CASE ~p.alive
  <2>1. proc' = p
    BY <1>3 DEF Written
  <2>2. Usable' <=> Usable
    BY <2>1 DEF Usable
  <2>3. \A t : ThreadOK(t)' <=> ThreadOK(t)
    BY <2>1, <2>2 DEF ThreadOK
  <2> QED BY <1>3, <2>1, <2>2, <2>3 DEF ServedInv, ServedOK
<1> QED BY <1>2, <1>3

\* A sidecar that is gone, or was only just started, has promised nothing.
LEMMA NewServed ==
  ASSUME ServedInv, web' = web, proc' = NoProc
  PROVE  ServedOK'
<1>1. /\ proc'.threads = {} /\ proc'.out = << >> /\ proc'.alive = FALSE
  BY DEF NoProc
<1> QED BY <1>1 DEF ServedInv, ServedOK

LEMMA SameServed ==
  ASSUME ServedInv, web' = web, proc' = proc,
         host'.state = "running" => host.state = "running"
  PROVE  ServedOK'
<1>1. Usable' <=> Usable
  BY DEF Usable
<1>2. \A t : ThreadOK(t)' <=> ThreadOK(t)
  BY <1>1 DEF ThreadOK
<1> QED BY <1>1, <1>2 DEF ServedInv, ServedOK

LEMMA HandleKeepsServed ==
  ASSUME ServedInv, Handle
  PROVE  ServedOK'
<1> DEFINE call == Head(toHost)
           ids == host.pending \cup {call.id}
<1>1. call \in Calls
  BY TailFacts DEF Handle, ServedInv, BridgeTypeOK
<1>2. web' = web
  BY DEF Handle
<1> HIDE DEF call, ids
<1>3. CASE host' = [host EXCEPT !.pending = {}] /\ UNCHANGED proc
  BY <1>2, <1>3, SameServed DEF ServedInv, BridgeTypeOK
<1>4. CASE /\ host.state = "running" /\ host' = [host EXCEPT !.pending = ids]
           /\ proc' = Written(proc, {call})
  <2>1. proc \in Sidecars /\ {call} \in SUBSET Calls
    BY <1>1 DEF ServedInv, BridgeTypeOK
  <2>2. /\ proc.alive => Usable
        /\ \A i \in DOMAIN proc.out : proc.out[i].id = OpenId => Usable
    BY <1>4 DEF ServedInv, ServedOK
  <2> QED BY <1>2, <1>4, <2>1, <2>2, WrittenServed
<1>5. CASE /\ host' = [host EXCEPT !.pending = ids, !.joined = @ \cup {call}]
           /\ UNCHANGED proc
  BY <1>2, <1>5, SameServed DEF ServedInv, BridgeTypeOK
<1>6. CASE /\ host.state # "running"
           /\ host' = [host EXCEPT !.pending = ids, !.joined = {call}, !.startup = "list"]
           /\ proc' = [NewProc EXCEPT !.threads = {Internal(ListId, "list")}]
  <2>1. /\ proc'.threads = {Internal(ListId, "list")} /\ proc'.out = << >>
        /\ host'.state # "running"
    BY <1>6 DEF NewProc, NoProc, ServedInv, BridgeTypeOK
  <2>2. ListId # OpenId
    BY BridgeAssumption DEF ListId, OpenId
  <2>3. ThreadOK(Internal(ListId, "list"))'
    BY <2>2 DEF ThreadOK, Internal, Thread
  <2> QED BY <1>2, <2>1, <2>3 DEF ServedInv, ServedOK
<1>7. CASE UNCHANGED proc /\ host' = [host EXCEPT !.pending = {}, !.state = "failed"]
  BY <1>2, <1>7, SameServed DEF ServedInv, BridgeTypeOK
<1> QED BY <1>3, <1>4, <1>5, <1>6, <1>7 DEF Handle, call, ids, Joins

LEMMA RelayKeepsServed ==
  ASSUME ServedInv, Relay
  PROVE  ServedOK'
<1> DEFINE m == Head(proc.out)
           read == [proc EXCEPT !.out = Tail(@)]
<1>1. read \in Sidecars
  BY LineRead DEF ServedInv, BridgeTypeOK, Relay
<1>2. /\ read.open = proc.open /\ read.openFailed = proc.openFailed
      /\ read.threads = proc.threads /\ read.alive = proc.alive /\ read.out = Tail(proc.out)
  BY DEF ServedInv, BridgeTypeOK, Sidecars
<1>3. /\ m.id = OpenId => Usable
      /\ \A i \in DOMAIN read.out : read.out[i].id = OpenId => Usable
  <2>1. proc.out \in Seq([id : AllIds, result : Results]) /\ proc.out # << >>
    BY DEF ServedInv, BridgeTypeOK, Sidecars, Relay
  <2>2. /\ 1 \in DOMAIN proc.out /\ Head(proc.out) = proc.out[1]
        /\ \A i \in DOMAIN Tail(proc.out) : i + 1 \in DOMAIN proc.out /\ Tail(proc.out)[i] = proc.out[i + 1]
    BY <2>1, TailFacts
  <2> QED BY <1>2, <2>2 DEF ServedInv, ServedOK
<1>4. web' = web
  BY DEF Relay
<1> HIDE DEF m, read
<1>5. ASSUME proc' = read, host'.state = host.state PROVE ServedOK'
  <2>1. Usable' <=> Usable
    BY <1>2, <1>5 DEF Usable
  <2>2. \A t : ThreadOK(t)' <=> ThreadOK(t)
    BY <1>2, <1>5, <2>1 DEF ThreadOK
  <2> QED BY <1>2, <1>3, <1>4, <1>5, <2>1, <2>2 DEF ServedInv, ServedOK
<1>6. CASE /\ host' = [host EXCEPT !.startup = "open"]
           /\ proc' = IF proc.alive THEN [read EXCEPT !.threads = @ \cup {Internal(OpenId, "open")}]
                      ELSE read
  <2>1. host'.state = host.state
    BY <1>6 DEF ServedInv, BridgeTypeOK
  <2>2. CASE ~proc.alive
    BY <1>5, <1>6, <2>1, <2>2
  <2>3. CASE proc.alive
    <3>1. /\ proc'.threads = proc.threads \cup {Internal(OpenId, "open")} /\ proc'.out = read.out
          /\ proc'.open = proc.open /\ proc'.openFailed = proc.openFailed /\ proc'.alive = proc.alive
      BY <1>1, <1>2, <1>6, <2>3 DEF Sidecars
    <3>2. Usable' <=> Usable
      BY <3>1 DEF Usable
    <3>3. \A t : ThreadOK(t)' <=> ThreadOK(t)
      BY <3>1, <3>2 DEF ThreadOK
    <3>4. ThreadOK(Internal(OpenId, "open"))'
      BY DEF ThreadOK, Internal, Thread
    <3> QED BY <1>3, <1>4, <2>1, <3>1, <3>2, <3>3, <3>4 DEF ServedInv, ServedOK
  <2> QED BY <2>2, <2>3
<1>7. CASE proc' = NoProc
  BY <1>4, <1>7, NewServed
<1>8. CASE /\ m.id = OpenId /\ proc' = Written(read, Resumed)
  <2>1. Resumed \in SUBSET Calls
    BY DEF Resumed, ServedInv, BridgeTypeOK
  <2> QED BY <1>1, <1>2, <1>3, <1>4, <1>8, <2>1, WrittenServed
<1>9. CASE proc' = read /\ (host' = host \/ host' = [host EXCEPT !.pending = @ \ {m.id}])
  <2>1. host'.state = host.state
    BY <1>9 DEF ServedInv, BridgeTypeOK
  <2> QED BY <1>5, <1>9, <2>1
<1> QED BY <1>6, <1>7, <1>8, <1>9 DEF Relay, m, read

LEMMA LossKeepsServed ==
  ASSUME ServedInv, Loss \/ Dispose
  PROVE  ServedOK'
BY NewServed DEF Loss, Dispose

\* A step of one thread leaves what the others rely on.
LEMMA ThreadKeepsServed ==
  ASSUME ServedInv, NEW t \in proc.threads, SidecarOnly, proc' \in Sidecars,
         Claim(t) \/ Enqueue(t) \/ Serve(t) \/ Walk(t) \/ WriteAnswer(t)
  PROVE  ServedOK'
<1>1. t \in Threads /\ ThreadOK(t) /\ web' = web /\ host' = host
  BY DEF ServedInv, BridgeTypeOK, ServedOK, Sidecars, SidecarOnly
<1>2. ASSUME NEW u \in Threads, proc'.threads = (proc.threads \ {t}) \cup {u},
             proc'.out = proc.out, proc'.alive = proc.alive,
             Usable => Usable', proc.openFailed => proc'.openFailed, ThreadOK(u)'
      PROVE  ServedOK'
  <2>1. ASSUME NEW v \in proc.threads PROVE ThreadOK(v)'
    <3>1. ThreadOK(v)
      BY DEF ServedInv, ServedOK
    <3> QED BY <1>2, <3>1 DEF ThreadOK
  <2> QED BY <1>1, <1>2, <2>1 DEF ServedInv, ServedOK
<1>3. ASSUME NEW u \in Threads, proc'.threads = (proc.threads \ {t}) \cup {u},
             proc'.out = proc.out, proc'.alive = proc.alive,
             proc'.open = proc.open, proc'.openFailed = proc.openFailed, ThreadOK(u)
      PROVE  ServedOK'
  <2>1. Usable' <=> Usable
    BY <1>3 DEF Usable
  <2>2. ThreadOK(u)'
    BY <1>3, <2>1 DEF ThreadOK
  <2> QED BY <1>2, <1>3, <2>1, <2>2
<1>4. CASE Claim(t)
  <2>1. t.kind = "search" /\ t.pc = "new" /\ Usable
    BY <1>1, <1>4 DEF Claim, ThreadOK
  <2>2. CASE ~proc.open /\ Replies(t, "not open")
    <3> DEFINE u == [t EXCEPT !.pc = "reply", !.result = "not open"]
    <3>1. u \in Threads /\ ThreadOK(u)
      BY <1>1, <2>1, <2>2 DEF Threads, Results, ThreadOK, Usable
    <3>2. proc' = [proc EXCEPT !.threads = (@ \ {t}) \cup {u}]
      BY <2>2 DEF Replies, Update
    <3> HIDE DEF u
    <3> QED BY <1>3, <3>1, <3>2 DEF ServedInv, BridgeTypeOK, Sidecars
  <2>3. CASE proc' = [proc EXCEPT !.current = @ + 1,
               !.threads = (@ \ {t}) \cup {[t EXCEPT !.pc = "claimed", !.gen = proc.current + 1]}]
    <3> DEFINE u == [t EXCEPT !.pc = "claimed", !.gen = proc.current + 1]
    <3>a. proc.current + 1 \in Nat
      BY DEF ServedInv, BridgeTypeOK, Sidecars
    <3>1. u \in Threads /\ ThreadOK(u)
      BY <1>1, <2>1, <3>a DEF Threads, ThreadOK
    <3>2. proc' = [proc EXCEPT !.current = @ + 1, !.threads = (@ \ {t}) \cup {u}]
      BY <2>3
    <3> HIDE DEF u
    <3> QED BY <1>3, <3>1, <3>2 DEF ServedInv, BridgeTypeOK, Sidecars
  <2> QED BY <1>4, <2>2, <2>3 DEF Claim
<1>5. CASE Enqueue(t)
  <2> DEFINE u == [t EXCEPT !.pc = "queued"]
  <2>1. u \in Threads /\ ThreadOK(u)
    BY <1>1, <1>5 DEF Enqueue, Threads, ThreadOK
  <2>2. proc' = [proc EXCEPT !.queue = Append(@, t.id), !.threads = (@ \ {t}) \cup {u}]
    BY <1>5 DEF Enqueue
  <2> HIDE DEF u
  <2> QED BY <1>3, <2>1, <2>2 DEF ServedInv, BridgeTypeOK, Sidecars
<1>6. CASE Serve(t)
  <2> DEFINE WithAnswer(r) == [t EXCEPT !.pc = "reply", !.result = r]
  <2>1. \A r \in {"not open", "ok", "error"} : WithAnswer(r) \in Threads /\ WithAnswer(r).result = r
                                               /\ WithAnswer(r).id = t.id /\ WithAnswer(r).kind = t.kind
                                               /\ WithAnswer(r).pc = "reply"
    BY <1>1 DEF Threads, Results
  <2>2. ListId # OpenId
    BY BridgeAssumption DEF ListId, OpenId
  <2> HIDE DEF WithAnswer
  <2>3. CASE t.kind = "cancel"
    <3>1. Usable
      BY <1>1, <2>3 DEF ThreadOK
    <3>2. CASE ~proc.open /\ Replies(t, "not open")
      <4>1. proc' = [proc EXCEPT !.threads = (@ \ {t}) \cup {WithAnswer("not open")}]
        BY <3>2 DEF Replies, Update, WithAnswer
      <4>2. ThreadOK(WithAnswer("not open"))
        BY <1>1, <2>1, <2>3, <3>1, <3>2 DEF ThreadOK, Usable
      <4> QED BY <1>3, <2>1, <4>1, <4>2 DEF ServedInv, BridgeTypeOK, Sidecars
    <3>3. CASE proc' = [proc EXCEPT !.current = @ + 1,
                 !.threads = (@ \ {t}) \cup {[t EXCEPT !.pc = "reply", !.result = "ok"]}]
      <4>1. proc' = [proc EXCEPT !.current = @ + 1, !.threads = (@ \ {t}) \cup {WithAnswer("ok")}]
        BY <3>3 DEF WithAnswer
      <4>2. ThreadOK(WithAnswer("ok"))
        BY <1>1, <2>1, <2>3, <3>1 DEF ThreadOK
      <4> QED BY <1>3, <2>1, <4>1, <4>2 DEF ServedInv, BridgeTypeOK, Sidecars
    <3> QED BY <1>6, <2>3, <3>2, <3>3 DEF Serve
  <2>4. CASE t.kind = "list"
    <3>1. PICK r \in {"ok", "error"} : Replies(t, r)
      BY <1>6, <2>4 DEF Serve
    <3>2. proc' = [proc EXCEPT !.threads = (@ \ {t}) \cup {WithAnswer(r)}]
      BY <3>1 DEF Replies, Update, WithAnswer
    <3>a. /\ WithAnswer(r).id = ListId /\ WithAnswer(r).kind = "list" /\ WithAnswer(r).pc = "reply"
          /\ WithAnswer(r).result = r /\ r # "not open"
      BY <1>1, <2>1, <2>4 DEF ThreadOK
    <3>3. ThreadOK(WithAnswer(r))
      BY <2>2, <3>a DEF ThreadOK
    <3> QED BY <1>3, <2>1, <3>2, <3>3 DEF ServedInv, BridgeTypeOK, Sidecars
  <2>5. CASE t.kind = "open"
    <3>1. CASE proc' = [proc EXCEPT !.open = TRUE,
                 !.threads = (@ \ {t}) \cup {[t EXCEPT !.pc = "reply", !.result = "ok"]}]
      <4>1. proc' = [proc EXCEPT !.open = TRUE, !.threads = (@ \ {t}) \cup {WithAnswer("ok")}]
        BY <3>1 DEF WithAnswer
      <4>2. /\ proc'.open = TRUE /\ proc'.openFailed = proc.openFailed /\ proc'.alive = proc.alive
            /\ proc'.threads = (proc.threads \ {t}) \cup {WithAnswer("ok")} /\ proc'.out = proc.out
        BY <4>1 DEF ServedInv, BridgeTypeOK, Sidecars
      <4>3. Usable' /\ ThreadOK(WithAnswer("ok"))'
        BY <1>1, <2>1, <2>5, <4>2 DEF ThreadOK, Usable
      <4> QED BY <1>2, <2>1, <4>2, <4>3
    <3>2. CASE proc' = [proc EXCEPT !.openFailed = TRUE,
                 !.threads = (@ \ {t}) \cup {[t EXCEPT !.pc = "reply", !.result = "error"]}]
      <4>1. proc' = [proc EXCEPT !.openFailed = TRUE, !.threads = (@ \ {t}) \cup {WithAnswer("error")}]
        BY <3>2 DEF WithAnswer
      <4>2. /\ proc'.openFailed = TRUE /\ proc'.open = proc.open /\ proc'.alive = proc.alive
            /\ proc'.threads = (proc.threads \ {t}) \cup {WithAnswer("error")} /\ proc'.out = proc.out
        BY <4>1 DEF ServedInv, BridgeTypeOK, Sidecars
      <4>3. Usable' /\ ThreadOK(WithAnswer("error"))'
        BY <1>1, <2>1, <2>5, <4>2 DEF ThreadOK, Usable
      <4> QED BY <1>2, <2>1, <4>2, <4>3
    <3> QED BY <1>6, <2>5, <3>1, <3>2 DEF Serve
  <2> QED BY <1>6, <2>3, <2>4, <2>5 DEF Serve
<1>7. CASE Walk(t)
  <2> DEFINE r == IF t.gen = proc.current THEN "page" ELSE "cancelled"
             u == [t EXCEPT !.pc = "reply", !.result = r]
  <2>1. t.kind = "search" /\ Usable
    BY <1>1, <1>7 DEF Walk, ThreadOK
  <2>2. u \in Threads /\ ThreadOK(u)
    BY <1>1, <2>1 DEF Threads, Results, ThreadOK
  <2>3. proc' = [proc EXCEPT !.queue = Tail(@), !.threads = (@ \ {t}) \cup {u}]
    BY <1>7 DEF Walk
  <2> HIDE DEF u
  <2> QED BY <1>3, <2>2, <2>3 DEF ServedInv, BridgeTypeOK, Sidecars
<1>8. CASE WriteAnswer(t)
  <2> DEFINE a == [id |-> t.id, result |-> t.result]
             S == [id : AllIds, result : Results]
  <2>1. t.pc = "reply" /\ proc' = [proc EXCEPT !.threads = @ \ {t}, !.out = Append(@, a)]
    BY <1>8 DEF WriteAnswer
  <2>2. a \in S /\ a.id = t.id /\ proc.out \in Seq(S)
    BY <1>1 DEF Threads, ServedInv, BridgeTypeOK, Sidecars
  <2> HIDE DEF a, S
  <2>3. /\ proc'.threads = proc.threads \ {t} /\ proc'.out = Append(proc.out, a)
        /\ proc'.alive = proc.alive /\ proc'.open = proc.open /\ proc'.openFailed = proc.openFailed
    BY <2>1 DEF ServedInv, BridgeTypeOK, Sidecars
  <2>4. Usable' <=> Usable
    BY <2>3 DEF Usable
  <2>5. \A u : ThreadOK(u)' <=> ThreadOK(u)
    BY <2>3, <2>4 DEF ThreadOK
  <2>6. t.id = OpenId => Usable
    BY <1>1, <2>1 DEF ThreadOK
  <2>7. /\ \A i \in DOMAIN proc.out : Append(proc.out, a)[i] = proc.out[i]
        /\ \A i \in DOMAIN Append(proc.out, a) :
             i \in DOMAIN proc.out \/ Append(proc.out, a)[i] = a
    BY <2>2, AppendFacts
  <2>8. ASSUME NEW i \in DOMAIN proc'.out, proc'.out[i].id = OpenId PROVE Usable'
    BY <2>2, <2>3, <2>4, <2>6, <2>7, <2>8 DEF ServedInv, ServedOK
  <2> QED BY <1>1, <2>3, <2>4, <2>5, <2>8 DEF ServedInv, ServedOK
<1> QED BY <1>4, <1>5, <1>6, <1>7, <1>8

LEMMA DieKeepsServed ==
  ASSUME ServedInv, Die
  PROVE  ServedOK'
<1>1. /\ web' = web /\ proc'.threads = {} /\ proc'.alive = FALSE /\ proc'.out = proc.out
      /\ proc'.open = proc.open /\ proc'.openFailed = proc.openFailed
  BY DEF Die, SidecarOnly, ServedInv, BridgeTypeOK, Sidecars
<1>2. Usable' <=> Usable
  BY <1>1 DEF Usable
<1> QED BY <1>1, <1>2 DEF ServedInv, ServedOK

-----------------------------------------------------------------------------
LEMMA BridgeHoldsAtFirst == BridgeInit => RequestsInv /\ ServedInv
<1> SUFFICES ASSUME BridgeInit PROVE RequestsInv /\ ServedInv
  OBVIOUS
<1>1. /\ web = [gen |-> 0, shown |-> NoShow, waits |-> {}, last |-> 0]
      /\ toHost = << >> /\ toWeb = << >>
      /\ host = [state |-> "running", startup |-> "none", pending |-> {}, joined |-> {},
                 disposed |-> FALSE]
      /\ proc = [NewProc EXCEPT !.open = TRUE]
      /\ posted = [id \in RequestIds |-> 0]
  BY DEF BridgeInit
<1>2. proc \in Sidecars /\ proc.open = TRUE /\ proc.threads = {} /\ proc.out = << >>
  BY <1>1, NewProcType DEF NewProc, NoProc, Sidecars
<1>3. BridgeTypeOK
  BY <1>1, <1>2, BridgeAssumption DEF BridgeTypeOK, NoShow
<1>4. DOMAIN toHost = {} /\ DOMAIN proc.out = {}
  BY <1>1, <1>2, EmptySeq
<1>5. AskedOnce /\ \A id : ~Asked(id)
  BY <1>4 DEF AskedOnce, Asked
<1>6. HandsOK
  BY <1>1, <1>5 DEF HandsOK
<1>7. ServedOK
  BY <1>1, <1>2, <1>4 DEF ServedOK, Usable, NoShow
<1> QED BY <1>3, <1>6, <1>7 DEF RequestsInv, ServedInv

LEMMA RequestsStep == RequestsInv /\ [BridgeNext]_bridgeVars => RequestsInv'
<1> SUFFICES ASSUME RequestsInv, [BridgeNext]_bridgeVars PROVE RequestsInv'
  OBVIOUS
<1>1. proc \in Sidecars
  BY DEF RequestsInv, BridgeTypeOK
<1>2. CASE UNCHANGED bridgeVars
  BY <1>1, <1>2, SidecarKeepsRequests DEF bridgeVars, SidecarOnly
<1>3. ASSUME NEW id \in AllIds, ThreadStep(id) PROVE RequestsInv'
  BY <1>1, <1>3, ThreadType, SidecarKeepsRequests DEF ThreadStep
<1>4. CASE Die
  BY <1>1, <1>4, DieType, SidecarKeepsRequests DEF Die
<1> QED
  BY <1>2, <1>3, <1>4, SearchKeepsRequests, CloseKeepsRequests, ReceiveKeepsRequests,
     HandleKeepsRequests, RelayKeepsRequests, LossKeepsRequests, DisposeKeepsRequests
  DEF BridgeNext

LEMMA ServedStep == RequestsInv /\ ServedInv /\ [BridgeNext]_bridgeVars => ServedInv'
<1> SUFFICES ASSUME RequestsInv, ServedInv, [BridgeNext]_bridgeVars PROVE ServedInv'
  OBVIOUS
<1>1. BridgeTypeOK' /\ proc \in Sidecars
  BY RequestsStep DEF RequestsInv, BridgeTypeOK
<1>2. CASE UNCHANGED bridgeVars
  BY <1>1, <1>2, SameServed DEF bridgeVars, ServedInv
<1>3. ASSUME NEW id \in AllIds, ThreadStep(id) PROVE ServedOK'
  BY <1>1, <1>3, ThreadType, ThreadKeepsServed DEF ThreadStep
<1> QED
  BY <1>1, <1>2, <1>3, WebKeepsServed, HandleKeepsServed, RelayKeepsServed, LossKeepsServed,
     DieKeepsServed
  DEF BridgeNext, ServedInv

\* A request is answered once and then no more, as `posted` counts.
LEMMA RequestsInvIsThePromise == RequestsInv => RequestsAreKept
<1> SUFFICES ASSUME RequestsInv PROVE RequestsAreKept
  OBVIOUS
<1>1. AnsweredOnce
  BY DEF RequestsInv, BridgeTypeOK, AnsweredOnce
<1>2. NoRequestLost
  BY DEF RequestsInv, HandsOK, InHands, Asked, Told, NoRequestLost
<1> QED BY <1>1, <1>2 DEF RequestsAreKept

LEMMA OpsStepsOfTheBridge == [OpsNext]_opsVars => [BridgeNext]_bridgeVars
BY DEF OpsNext, opsVars

(* Whatever sidecars die, or do not start, and whenever the webview asks again, each of its   *)
(* requests is answered at most once, and until then it is on its way, pending in the bridge  *)
(* or its answer is on its way (relaySidecarLine, rejectPendingAndNotify, ensureSidecar).     *)
THEOREM RequestsStayKept == OpsSpec => []RequestsAreKept
<1>1. OpsInit => RequestsInv
  BY BridgeHoldsAtFirst DEF OpsInit
<1>2. RequestsInv /\ [OpsNext]_opsVars => RequestsInv'
  BY RequestsStep, OpsStepsOfTheBridge
<1> QED
  BY <1>1, <1>2, RequestsInvIsThePromise, PTL DEF OpsSpec

(* The results on screen are those of the last search, and no search finds its repository    *)
(* closed unless opening it again failed: calls wait until a new sidecar's repositories are   *)
(* restored (useCommitSearch.runRound, ensureSidecar, restorePersistedRepositories).          *)
THEOREM SearchesStayServed == OpsSpec => []SearchesAreServed
<1>1. OpsInit => RequestsInv /\ ServedInv
  BY BridgeHoldsAtFirst DEF OpsInit
<1>2. RequestsInv /\ ServedInv /\ [OpsNext]_opsVars => (RequestsInv /\ ServedInv)'
  BY RequestsStep, ServedStep, OpsStepsOfTheBridge
<1>3. ServedInv => SearchesAreServed
  BY DEF ServedInv, ServedOK, ThreadOK, SearchesAreServed
<1> QED
  BY <1>1, <1>2, <1>3, PTL DEF OpsSpec

-----------------------------------------------------------------------------
(* The transfers: the worker's operation, its Cancel and its hook *)

Pcs == {"new", "queued", "fetch", "merge", "move", "post hook", "reply", "connect", "negotiate",
        "pre hook", "send", "landed", "completed", "done"}
TResults == {"none", "ok", "failed", "died", "refused", "cancelled", "dirty", "up to date", "diverged",
             "non-fast-forward", "stale lease", "hook failed", "rejected"}
CommitSets == SUBSET Int
Reserved == {"new", "queued", "done"}

OpStates ==
  [kind : Kinds \cup {"none"}, pc : Pcs, hooked : BOOLEAN,
   adv : CommitSets, new : CommitSets, expected : CommitSets,
   todo : Seq(RemoteNames), got : SUBSET RemoteNames, failed : SUBSET RemoteNames, result : TResults,
   landed : BOOLEAN, pressed : SUBSET Pcs, before : Seq(CommitSets), spoilt : BOOLEAN]
HookStates ==
  [phase : {"none", "poll", "kill", "sweep", "drain", "back"},
   prog : {"none", "running", "exited", "dead", "reaped"},
   child : {"none", "forking", "alive", "gone", "left"}, ok : BOOLEAN, late : BOOLEAN,
   why : {"none", "exit", "cancel", "limit"}]

TTypeOK ==
  /\ op \in [Ids -> OpStates] /\ reg \in [Ids -> {"unknown", "live", "cancelled"}]
  /\ queue \in Seq(Ids) /\ cur \in Ids \cup {0}

EndsTypeOK ==
  /\ repo \in [tip : CommitSets, tree : CommitSets, tracking : [RemoteNames -> CommitSets]]
  /\ server \in [RemoteNames -> CommitSets] /\ fresh \in Nat

(* An operation and what the registry knows of it: a Cancel pressed before a push sends      *)
(* anything is still there when the push looks for it, and a push that goes on was not        *)
(* cancelled; the lease was looked at before anything is sent.                               *)
OpOK(o, r) ==
  /\ o.kind = "none" <=> o.pc = "new"
  /\ r # "unknown" <=> o.pc \notin {"new", "done"}
  /\ o.pc = "fetch" => o.kind \notin Pushes
  /\ o.pc \in {"merge", "move", "post hook", "reply"} => o.kind = "pull"
  /\ o.pc \in {"connect", "negotiate", "pre hook", "send", "landed"} => o.kind \in Pushes
  /\ o.pc \notin {"completed", "done"} => o.result = "none"
  /\ o.landed => /\ o.pc \in {"post hook", "reply", "landed", "completed", "done"}
                 /\ o.result \in {"none", "ok", "failed", "died"}
  /\ o.pc \in {"new", "queued"} => o.pressed = {}
  /\ o.pc \in {"connect", "negotiate"} /\ ("connect" \in o.pressed \/ "negotiate" \in o.pressed) =>
       r = "cancelled"
  /\ o.kind \in Pushes /\ (o.pc \in {"pre hook", "send", "landed"} \/ o.landed) =>
       "connect" \notin o.pressed /\ "negotiate" \notin o.pressed
  /\ o.pc = "post hook" /\ r = "cancelled" => "post hook" \in o.pressed
  /\ o.kind = "push" /\ o.pc \in {"negotiate", "pre hook", "send"} => o.adv \subseteq o.new
  /\ o.kind = "force" /\ o.pc \in {"pre hook", "send"} => o.adv = o.expected

(* The worker runs one operation; what is queued waits once. *)
OrderOK ==
  /\ \A id \in Ids : op[id].pc \notin Reserved <=> id = cur
  /\ \A i \in DOMAIN queue : op[queue[i]].pc = "queued"
  /\ \A i, j \in DOMAIN queue : i # j => queue[i] # queue[j]

(* Only a program that runs forks; the second sweep ends what the first one missed. *)
HookOK ==
  /\ hook.phase = "none" => hook = NoHook
  /\ hook.prog # "running" => hook.child # "forking"
  /\ hook.phase = "poll" => hook.why = "none"
  /\ hook.phase = "sweep" => hook.prog = "dead"
  /\ hook.phase \in {"drain", "back"} =>
       hook.prog = "reaped" /\ (hook.why \in {"cancel", "limit"} => hook.child # "alive")

HookAtWork ==
  /\ hook.phase # "none" => cur # 0 /\ op[cur].pc \in {"pre hook", "post hook"}
  /\ cur # 0 /\ hook.why = "cancel" /\ op[cur].kind = "pull" => "post hook" \in op[cur].pressed

MergeOK == \A id \in Ids : op[id].pc = "merge" => op[id].before = <<repo.tip, repo.tree>>

OpsOK == TTypeOK /\ (\A id \in Ids : OpOK(op[id], reg[id])) /\ OrderOK
TransferInv ==
  OpsOK /\ EndsTypeOK /\ hook \in HookStates /\ HookOK /\ HookAtWork /\ MergeOK

-----------------------------------------------------------------------------
(* The hook and the operation that waits for it *)

LEMMA NoHookType == NoHook \in HookStates /\ Spawned \in HookStates
BY DEF NoHook, Spawned, HookStates

LEMMA ProgramKeepsHook ==
  ASSUME hook \in HookStates, HookOK, OutsideStep
  PROVE  hook' \in HookStates /\ HookOK' /\ hook'.phase = hook.phase /\ hook'.why = hook.why
<1>1. CASE ProgramStep
  <2>1. Runs /\ hook.prog = "running"
    BY <1>1 DEF ProgramStep, Runs
  <2>2. hook.phase # "none"
    BY <2>1 DEF HookOK, NoHook
  <2>3. CASE hook' = [hook EXCEPT !.child = "forking"]
    BY <2>1, <2>2, <2>3 DEF HookStates, HookOK
  <2>4. CASE hook' = [hook EXCEPT !.child = "alive"]
    BY <2>1, <2>2, <2>4 DEF HookStates, HookOK
  <2>5. ASSUME NEW ok \in BOOLEAN, hook.child # "forking",
               hook' = [hook EXCEPT !.prog = "exited", !.ok = ok]
        PROVE  hook' \in HookStates /\ HookOK' /\ hook'.phase = hook.phase /\ hook'.why = hook.why
    BY <2>1, <2>2, <2>5 DEF HookStates, HookOK
  <2> QED BY <1>1, <2>3, <2>4, <2>5 DEF ProgramStep
<1>2. CASE ChildStep
  <2>1. PICK s \in {"gone", "left"} : hook' = [hook EXCEPT !.child = s]
    BY <1>2 DEF ChildStep
  <2>2. hook.phase # "none"
    BY <1>2 DEF ChildStep, HookOK, NoHook
  <2> QED BY <2>1, <2>2 DEF HookStates, HookOK
<1>3. CASE TimePasses
  BY <1>3 DEF TimePasses, HookStates, HookOK
<1> QED BY <1>1, <1>2, <1>3 DEF OutsideStep

LEMMA WaiterKeepsHook ==
  ASSUME hook \in HookStates, HookOK, NEW cancelled \in BOOLEAN, WaiterStep(cancelled)
  PROVE  /\ hook' \in HookStates /\ HookOK' /\ hook.phase # "none"
         /\ hook'.why = "cancel" => hook.why = "cancel" \/ cancelled
<1>1. CASE Poll(cancelled)
  <2>1. CASE hook' = [hook EXCEPT !.phase = "drain", !.prog = "reaped", !.why = "exit"]
    <3>1. hook.prog = "exited"
      BY <1>1, <2>1 DEF Poll, HookStates
    <3> QED BY <1>1, <2>1, <3>1 DEF Poll, HookStates, HookOK
  <2>2. CASE hook' = [hook EXCEPT !.phase = "kill", !.why = IF cancelled THEN "cancel" ELSE "limit"]
    BY <1>1, <2>2 DEF Poll, HookStates, HookOK
  <2> QED BY <1>1, <2>1, <2>2 DEF Poll
<1>2. CASE KillGroup
  <2>1. PICK child \in {"none", "alive", "gone", "left"} :
          hook' = [hook EXCEPT !.phase = "sweep", !.prog = "dead", !.child = child]
    <3>1. PICK missed \in BOOLEAN :
            hook' = [hook EXCEPT !.phase = "sweep", !.prog = "dead",
                       !.child = IF hook.child = "forking"
                                 THEN IF missed /\ Runs THEN "alive" ELSE "gone"
                                 ELSE Swept(@)]
      BY <1>2 DEF KillGroup
    <3> QED BY <3>1 DEF Swept, HookStates
  <2> QED BY <1>2, <2>1 DEF KillGroup, HookStates, HookOK
<1>3. CASE Reap
  <2>1. hook.prog = "dead" /\ hook.child # "forking" /\ hook.phase = "sweep"
    BY <1>3 DEF Reap, HookOK
  <2>2. PICK child \in {"none", "gone", "left"}, phase \in {"back", "drain"} :
          hook' = [hook EXCEPT !.phase = phase, !.prog = "reaped", !.child = child]
    BY <1>3, <2>1 DEF Reap, SecondSweep, Swept, HookStates
  <2> QED BY <2>1, <2>2 DEF HookStates, HookOK
<1>4. CASE Drain
  BY <1>4 DEF Drain, HookStates, HookOK
<1> QED BY <1>1, <1>2, <1>3, <1>4 DEF WaiterStep

-----------------------------------------------------------------------------
(* What a step of the worker on its operation keeps *)

LEMMA RemoteFacts == Origin \in RemoteNames /\ Remotes \in Seq(RemoteNames) /\ <<Origin>> \in Seq(RemoteNames)
<1>1. 1 \in DOMAIN Remotes
  BY TransfersAssumption, LenProperties
<1>2. Origin \in RemoteNames
  BY <1>1 DEF Origin, RemoteNames
<1> QED BY <1>2, TransfersAssumption

\* The worker's operation goes on, or completes; nobody else's moves.
LEMMA RememberKeeps ==
  ASSUME OpsOK, cur # 0, NEW o \in OpStates, NEW r \in {"live", "cancelled"},
         op' = [op EXCEPT ![cur] = o], reg' = [reg EXCEPT ![cur] = r],
         queue' = queue, cur' = cur, o.pc \notin Reserved, OpOK(o, r)
  PROVE  OpsOK'
<1>1. cur \in Ids /\ cur' = cur
  BY DEF OpsOK, TTypeOK
<1>2. TTypeOK'
  BY <1>1 DEF OpsOK, TTypeOK
<1>3. \A id \in Ids : /\ op'[id] = IF id = cur THEN o ELSE op[id]
                      /\ reg'[id] = IF id = cur THEN r ELSE reg[id]
  BY DEF OpsOK, TTypeOK
<1>4. ASSUME NEW id \in Ids PROVE OpOK(op'[id], reg'[id])
  <2>1. CASE id = cur
    BY <1>3, <2>1
  <2>2. CASE id # cur
    BY <1>3, <2>2 DEF OpsOK
  <2> QED BY <2>1, <2>2
<1>5. \A id \in Ids : OpOK(op[id], reg[id])'
  BY <1>4 DEF OpOK
<1>6. \A i \in DOMAIN queue : queue[i] \in Ids /\ queue[i] # cur
  <2>1. ASSUME NEW i \in DOMAIN queue PROVE queue[i] \in Ids
    BY ElementOfSeq, LenProperties DEF OpsOK, TTypeOK
  <2> QED BY <1>1, <2>1 DEF OpsOK, OrderOK, Reserved
<1>7. OrderOK'
  BY <1>1, <1>3, <1>6 DEF OpsOK, OrderOK
<1> QED BY <1>2, <1>5, <1>7 DEF OpsOK

LEMMA NowFacts ==
  ASSUME OpsOK, cur # 0
  PROVE  /\ cur \in Ids /\ Now \in OpStates /\ Now = op[cur] /\ OpOK(Now, reg[cur])
         /\ Now.pc \notin Reserved /\ reg[cur] \in {"live", "cancelled"}
         /\ Cancelled <=> reg[cur] = "cancelled"
         /\ reg = [reg EXCEPT ![cur] = reg[cur]]
<1>1. cur \in Ids /\ op[cur] \in OpStates /\ reg[cur] \in {"unknown", "live", "cancelled"}
  BY DEF OpsOK, TTypeOK
<1>2. OpOK(op[cur], reg[cur]) /\ op[cur].pc \notin Reserved
  BY <1>1 DEF OpsOK, OrderOK
<1>3. reg[cur] # "unknown"
  BY <1>2 DEF OpOK, Reserved
<1>4. reg = [reg EXCEPT ![cur] = reg[cur]]
  BY DEF OpsOK, TTypeOK
<1> QED BY <1>1, <1>2, <1>3, <1>4 DEF Now, Cancelled

(* The rest of the invariant when the hook is off and stays so. *)
LEMMA HookStaysOff ==
  ASSUME TransferInv, OpsOK', cur # 0, Now.pc \notin {"pre hook", "post hook"}, hook' = hook
  PROVE  hook' \in HookStates /\ HookOK' /\ HookAtWork'
<1>1. hook.phase = "none"
  BY DEF TransferInv, HookAtWork, Now
<1>2. hook = NoHook
  BY <1>1 DEF TransferInv, HookOK
<1>3. HookOK'
  BY DEF TransferInv, HookOK, NoHook
<1>4. hook.why = "none"
  BY <1>2 DEF NoHook
<1> QED BY <1>1, <1>3, <1>4 DEF TransferInv, HookAtWork

LEMMA WorkerStep ==
  ASSUME TransferInv, cur # 0, NEW o \in OpStates, NEW r \in {"live", "cancelled"},
         op' = [op EXCEPT ![cur] = o], reg' = [reg EXCEPT ![cur] = r],
         queue' = queue, cur' = cur, o.pc \notin Reserved, OpOK(o, r), EndsTypeOK',
         o.pc = "merge" => o.before = <<repo'.tip, repo'.tree>>,
         \/ Now.pc \notin {"pre hook", "post hook"} /\ hook' = hook
         \/ hook' = Spawned /\ o.pc \in {"pre hook", "post hook"}
         \/ hook' = NoHook
  PROVE  TransferInv'
<1>1. OpsOK' /\ cur \in Ids
  BY RememberKeeps, NowFacts DEF TransferInv
<1>2. \A id \in Ids : op'[id] = IF id = cur THEN o ELSE op[id]
  BY DEF TransferInv, OpsOK, TTypeOK
<1>3. MergeOK'
  BY <1>2 DEF MergeOK, TransferInv, OpsOK, OrderOK, Reserved
<1>4. hook' \in HookStates /\ HookOK' /\ HookAtWork'
  <2>1. CASE Now.pc \notin {"pre hook", "post hook"} /\ hook' = hook
    BY <1>1, <2>1, HookStaysOff
  <2>2. CASE hook' = Spawned /\ o.pc \in {"pre hook", "post hook"}
    <3>1. hook'.phase = "poll" /\ hook'.prog = "running" /\ hook'.why = "none"
      BY <2>2 DEF Spawned, NoHook
    <3> QED BY <1>1, <1>2, <2>2, <3>1, NoHookType DEF HookOK, HookAtWork
  <2>3. CASE hook' = NoHook
    <3>1. hook'.phase = "none" /\ hook'.prog = "none" /\ hook'.why = "none" /\ hook'.child = "none"
      BY <2>3 DEF NoHook
    <3> QED BY <1>1, <2>3, <3>1, NoHookType DEF HookOK, HookAtWork
  <2> QED BY <2>1, <2>2, <2>3
<1> QED BY <1>1, <1>3, <1>4 DEF TransferInv

\* A step to another point of the same operation, of which the registry keeps what it knows.
LEMMA EndsKeeps ==
  ASSUME TransferInv, cur # 0, NEW result \in TResults, Ends(result),
         queue' = queue, cur' = cur, EndsTypeOK',
         Now.landed => result \in {"ok", "failed"},
         \/ Now.pc \notin {"pre hook", "post hook"} /\ hook' = hook
         \/ hook' = NoHook
  PROVE  TransferInv'
<1> DEFINE o == [Now EXCEPT !.pc = "completed", !.result = result]
<1>1. /\ cur \in Ids /\ Now \in OpStates /\ OpOK(Now, reg[cur]) /\ Now.pc \notin Reserved
  BY NowFacts DEF TransferInv
<1>2. /\ o \in OpStates /\ o.pc = "completed" /\ o.result = result /\ o.kind = Now.kind
      /\ o.landed = Now.landed /\ o.pressed = Now.pressed
  BY <1>1 DEF OpStates, Pcs
<1>3. op' = [op EXCEPT ![cur] = o] /\ reg' = [reg EXCEPT ![cur] = "live"]
  BY DEF Ends, Remember
<1> HIDE DEF o
<1>4. OpOK(o, "live")
  BY <1>1, <1>2 DEF OpOK, Reserved
<1>5. o.pc \notin Reserved /\ o.pc # "merge"
  BY <1>2 DEF Reserved
<1> QED BY <1>2, <1>3, <1>4, <1>5, WorkerStep

LEMMA AfterFetchKeeps ==
  ASSUME TransferInv, cur # 0, Now.pc = "fetch", NEW o \in OpStates, o.pc = "fetch",
         o.kind = Now.kind, o.landed = Now.landed, o.result = Now.result,
         AfterFetch(o), queue' = queue, cur' = cur, EndsTypeOK', hook' = hook,
         repo'.tip = repo.tip, repo'.tree = repo.tree
  PROVE  TransferInv'
<1>1. /\ cur \in Ids /\ Now \in OpStates /\ OpOK(Now, reg[cur]) /\ Now.pc \notin Reserved
      /\ reg[cur] \in {"live", "cancelled"} /\ reg = [reg EXCEPT ![cur] = reg[cur]]
  BY NowFacts DEF TransferInv
<1>2. /\ o.kind \in Kinds /\ o.kind \notin Pushes /\ ~o.landed /\ o.result = "none"
  BY <1>1 DEF OpOK, OpStates
<1>3. PICK r : r = reg[cur]
  OBVIOUS
<1>4. ASSUME NEW p \in OpStates, NEW s \in {"live", "cancelled"}, p.kind = o.kind, ~p.landed,
             p.pc \in {"fetch", "completed"}, p.pc = "fetch" => p.result = "none"
      PROVE  OpOK(p, s) /\ p.pc \notin Reserved /\ p.pc # "merge"
  <2>1. p.kind # "none" /\ p.kind \notin Pushes
    BY <1>1, <1>2, <1>4 DEF OpOK, Reserved
  <2> QED BY <1>4, <2>1 DEF OpOK, Reserved
<1>5. CASE o.todo # << >>
  <2>1. op' = [op EXCEPT ![cur] = o] /\ reg' = [reg EXCEPT ![cur] = r]
    BY <1>1, <1>3, <1>5 DEF AfterFetch, Remember
  <2> QED BY <1>1, <1>2, <1>3, <1>4, <2>1, WorkerStep
<1>6. CASE o.todo = << >> /\ o.kind = "pull"
  <2> DEFINE p == [o EXCEPT !.pc = "merge", !.before = <<repo.tip, repo.tree>>]
  <2>1. op' = [op EXCEPT ![cur] = p] /\ reg' = [reg EXCEPT ![cur] = r]
    BY <1>1, <1>3, <1>6 DEF AfterFetch, Remember
  <2>2. <<repo.tip, repo.tree>> \in Seq(CommitSets)
    BY DEF TransferInv, EndsTypeOK
  <2>3. /\ p \in OpStates /\ p.pc = "merge" /\ p.kind = "pull" /\ p.landed = o.landed
        /\ p.result = o.result /\ p.before = <<repo'.tip, repo'.tree>>
    BY <1>6, <2>2 DEF OpStates, Pcs
  <2> HIDE DEF p
  <2>4. OpOK(p, r) /\ p.pc \notin Reserved
    BY <1>1, <1>2, <1>3, <2>3 DEF OpOK, Reserved, Pushes
  <2> QED BY <1>1, <1>3, <2>1, <2>3, <2>4, WorkerStep
<1>7. CASE o.todo = << >> /\ o.kind = "fetchAll"
  <2>1. PICK result \in {"ok", "failed"} :
          /\ op' = [op EXCEPT ![cur] = [o EXCEPT !.pc = "completed", !.result = result]]
          /\ reg' = [reg EXCEPT ![cur] = "live"]
    BY <1>7 DEF AfterFetch, Remember
  <2> DEFINE p == [o EXCEPT !.pc = "completed", !.result = result]
  <2>2. /\ p \in OpStates /\ p.pc = "completed" /\ p.kind = o.kind /\ p.landed = o.landed
    BY DEF OpStates, Pcs, TResults
  <2>3. op' = [op EXCEPT ![cur] = p]
    BY <2>1
  <2> HIDE DEF p
  <2> QED BY <1>1, <1>2, <1>4, <2>1, <2>2, <2>3, WorkerStep
<1>8. CASE o.todo = << >> /\ o.kind \notin {"pull", "fetchAll"}
  <2>1. Ends("ok") /\ "ok" \in TResults
    BY <1>8 DEF AfterFetch, TResults
  <2> QED BY <2>1, EndsKeeps
<1> QED BY <1>5, <1>6, <1>7, <1>8

\* The types of what the operations are about.
LEMMA TrackedType ==
  ASSUME EndsTypeOK, NEW r \in RemoteNames, NEW tips \in CommitSets, server' = server, fresh' = fresh,
         repo' = [repo EXCEPT !.tracking[r] = tips]
  PROVE  EndsTypeOK' /\ repo'.tip = repo.tip /\ repo'.tree = repo.tree
BY DEF EndsTypeOK

LEMMA FetchKeeps ==
  ASSUME TransferInv, Fetch
  PROVE  TransferInv'
<1> DEFINE r == Head(Now.todo)
           rest == [Now EXCEPT !.todo = Tail(@)]
<1>1. /\ cur # 0 /\ Now.pc = "fetch" /\ Now.todo # << >> /\ queue' = queue /\ cur' = cur
      /\ hook' = hook /\ server' = server /\ fresh' = fresh
  BY DEF Fetch, At, Worker, HookOff
<1>2. Now \in OpStates /\ ~Now.landed
  BY <1>1, NowFacts DEF TransferInv, OpOK
<1>3. r \in RemoteNames /\ Tail(Now.todo) \in Seq(RemoteNames)
  <2>1. Now.todo \in Seq(RemoteNames)
    BY <1>2 DEF OpStates
  <2> QED BY <1>1, <2>1, TailFacts
<1>4. EndsTypeOK
  BY DEF TransferInv
<1>5. ASSUME NEW got \in SUBSET RemoteNames, NEW failed \in SUBSET RemoteNames,
             AfterFetch([rest EXCEPT !.got = got, !.failed = failed]), EndsTypeOK',
             repo'.tip = repo.tip, repo'.tree = repo.tree
      PROVE  TransferInv'
  <2> DEFINE o == [rest EXCEPT !.got = got, !.failed = failed]
  <2>1. /\ o \in OpStates /\ o.pc = "fetch" /\ o.kind = Now.kind /\ o.landed = Now.landed
        /\ o.result = Now.result
    BY <1>1, <1>2, <1>3 DEF OpStates
  <2>2. AfterFetch(o)
    BY <1>5
  <2> HIDE DEF o, rest
  <2>3. PICK p \in OpStates : p = o
    BY <2>1
  <2> QED BY <1>1, <1>5, <2>1, <2>2, <2>3, AfterFetchKeeps
<1>6. ASSUME NEW tips \in CommitSets, repo' = [repo EXCEPT !.tracking[r] = tips]
      PROVE  EndsTypeOK' /\ repo'.tip = repo.tip /\ repo'.tree = repo.tree
  BY <1>1, <1>3, <1>4, <1>6, TrackedType
<1>7. server[r] \in CommitSets /\ repo.tracking[r] \in CommitSets
  BY <1>3, <1>4 DEF EndsTypeOK
<1>8. rest.got \in SUBSET RemoteNames /\ rest.failed \in SUBSET RemoteNames
  BY <1>2 DEF OpStates
<1>9. CASE /\ repo' = [repo EXCEPT !.tracking[r] = server[r]]
           /\ AfterFetch([rest EXCEPT !.got = @ \cup {r}])
  <2>1. [rest EXCEPT !.got = @ \cup {r}] = [rest EXCEPT !.got = rest.got \cup {r}, !.failed = rest.failed]
    BY <1>2 DEF OpStates
  <2>2. rest.got \cup {r} \in SUBSET RemoteNames
    BY <1>3, <1>8
  <2>3. AfterFetch([rest EXCEPT !.got = rest.got \cup {r}, !.failed = rest.failed])
    BY <1>9, <2>1
  <2> HIDE DEF rest, r
  <2> QED BY <1>5, <1>6, <1>7, <1>8, <1>9, <2>2, <2>3
<1>10. CASE /\ Ends("cancelled")
            /\ \E seen \in {repo.tracking[r], server[r]} : repo' = [repo EXCEPT !.tracking[r] = seen]
  <2>1. EndsTypeOK'
    <3> HIDE DEF r
    <3> QED BY <1>6, <1>7, <1>10
  <2>2. "cancelled" \in TResults
    BY DEF TResults
  <2> QED BY <1>1, <1>2, <1>10, <2>1, <2>2, EndsKeeps
<1>11. CASE UNCHANGED repo /\ AfterFetch([rest EXCEPT !.failed = @ \cup {r}])
  <2>1. [rest EXCEPT !.failed = @ \cup {r}] = [rest EXCEPT !.got = rest.got, !.failed = rest.failed \cup {r}]
    BY <1>2 DEF OpStates
  <2>2. rest.failed \cup {r} \in SUBSET RemoteNames
    BY <1>3, <1>8
  <2>3. AfterFetch([rest EXCEPT !.got = rest.got, !.failed = rest.failed \cup {r}])
    BY <1>11, <2>1
  <2>4. EndsTypeOK'
    BY <1>1, <1>4, <1>11 DEF EndsTypeOK
  <2> HIDE DEF rest, r
  <2> QED BY <1>5, <1>8, <1>11, <2>2, <2>3, <2>4
<1>12. CASE UNCHANGED repo /\ (Ends("cancelled") \/ Ends("failed"))
  <2>1. EndsTypeOK'
    BY <1>1, <1>4, <1>12 DEF EndsTypeOK
  <2>2. "cancelled" \in TResults /\ "failed" \in TResults
    BY DEF TResults
  <2> QED BY <1>1, <1>2, <1>12, <2>1, <2>2, EndsKeeps
<1> QED BY <1>9, <1>10, <1>11, <1>12 DEF Fetch

LEMMA MergeKeeps ==
  ASSUME TransferInv, Merge
  PROVE  TransferInv'
<1> DEFINE upstream == repo.tracking[Origin]
<1>1. /\ cur # 0 /\ Now.pc = "merge" /\ queue' = queue /\ cur' = cur
      /\ hook' = hook /\ server' = server /\ fresh' = fresh
  BY DEF Merge, At, Worker, HookOff
<1>2. /\ Now \in OpStates /\ ~Now.landed /\ Now.kind = "pull" /\ OpOK(Now, reg[cur])
      /\ reg[cur] \in {"live", "cancelled"} /\ reg = [reg EXCEPT ![cur] = reg[cur]]
  BY <1>1, NowFacts DEF TransferInv, OpOK
<1>3. upstream \in CommitSets /\ Untidy \in CommitSets
  BY RemoteFacts DEF TransferInv, EndsTypeOK, Untidy, CommitSets
<1>4. ASSUME NEW tree \in CommitSets, repo' = [repo EXCEPT !.tree = tree] PROVE EndsTypeOK'
  BY <1>1, <1>4 DEF TransferInv, EndsTypeOK
<1>5. CASE UNCHANGED repo /\ Standing(upstream) # "behind" /\ Ends(Standing(upstream))
  <2>1. Standing(upstream) \in TResults
    BY <1>5 DEF Standing, TResults
  <2>2. EndsTypeOK'
    BY <1>1, <1>5 DEF TransferInv, EndsTypeOK
  <2>3. PICK result \in TResults : result = Standing(upstream)
    BY <2>1
  <2> QED BY <1>1, <1>2, <1>5, <2>2, <2>3, EndsKeeps
<1>6. CASE repo' = [repo EXCEPT !.tree = upstream] /\ To("move") /\ UNCHANGED reg
  <2> DEFINE o == [Now EXCEPT !.pc = "move"]
  <2>1. /\ o \in OpStates /\ o.pc = "move" /\ o.kind = "pull" /\ o.landed = FALSE
        /\ o.result = Now.result
    BY <1>2 DEF OpStates, Pcs
  <2>2. op' = [op EXCEPT ![cur] = o]
    BY <1>6 DEF To, Remember
  <2>3. PICK r \in {"live", "cancelled"} : r = reg[cur]
    BY <1>2
  <2>4. OpOK(o, r) /\ o.pc \notin Reserved
    <3> HIDE DEF o
    <3> QED BY <1>1, <1>2, <2>1, <2>3 DEF OpOK, Reserved, Pushes
  <2>5. reg' = [reg EXCEPT ![cur] = r]
    BY <1>2, <1>6, <2>3
  <2>6. EndsTypeOK'
    BY <1>3, <1>4, <1>6
  <2> HIDE DEF o
  <2> QED BY <1>1, <2>1, <2>2, <2>4, <2>5, <2>6, WorkerStep
<1>7. CASE Ends("failed") /\ repo' = [repo EXCEPT !.tree = RollsBack(@)]
  <2>1. EndsTypeOK'
    BY <1>1, <1>7 DEF TransferInv, EndsTypeOK, RollsBack
  <2>2. "failed" \in TResults
    BY DEF TResults
  <2> QED BY <1>1, <1>2, <1>7, <2>1, <2>2, EndsKeeps
<1>8. CASE /\ repo' = [repo EXCEPT !.tree = Untidy]
           /\ Remember([Now EXCEPT !.pc = "completed", !.result = "failed", !.spoilt = TRUE])
           /\ reg' = [reg EXCEPT ![cur] = "live"]
  <2> DEFINE o == [Now EXCEPT !.pc = "completed", !.result = "failed", !.spoilt = TRUE]
  <2>1. /\ o \in OpStates /\ o.pc = "completed" /\ o.kind = "pull" /\ o.landed = FALSE
    BY <1>2 DEF OpStates, Pcs, TResults
  <2>2. op' = [op EXCEPT ![cur] = o]
    BY <1>8 DEF Remember
  <2> HIDE DEF o
  <2>3. OpOK(o, "live") /\ o.pc \notin Reserved
    BY <2>1 DEF OpOK, Reserved, Pushes
  <2>4. EndsTypeOK'
    BY <1>3, <1>4, <1>8
  <2> QED BY <1>1, <1>8, <2>1, <2>2, <2>3, <2>4, WorkerStep
<1> QED BY <1>5, <1>6, <1>7, <1>8 DEF Merge

LEMMA MoveKeeps ==
  ASSUME TransferInv, Move
  PROVE  TransferInv'
<1>1. /\ cur # 0 /\ Now.pc = "move" /\ queue' = queue /\ cur' = cur
      /\ server' = server /\ fresh' = fresh
  BY DEF Move, At, Worker
<1>2. /\ Now \in OpStates /\ ~Now.landed /\ Now.kind = "pull" /\ OpOK(Now, reg[cur])
      /\ Now.result = "none"
  BY <1>1, NowFacts DEF TransferInv, OpOK
<1>3. repo.tracking[Origin] \in CommitSets
  BY RemoteFacts DEF TransferInv, EndsTypeOK
<1>4. CASE /\ repo' = [repo EXCEPT !.tip = repo.tracking[Origin]] /\ BeforeHook
           /\ \/ hook' = Spawned /\ Remember([Now EXCEPT !.pc = "post hook", !.landed = TRUE])
              \/ HookOff /\ Remember([Now EXCEPT !.pc = "reply", !.landed = TRUE])
  <2>1. PICK pc \in {"post hook", "reply"} :
          /\ op' = [op EXCEPT ![cur] = [Now EXCEPT !.pc = pc, !.landed = TRUE]]
          /\ ((hook' = Spawned /\ pc = "post hook") \/ hook' = hook)
    BY <1>4 DEF Remember, HookOff
  <2> DEFINE o == [Now EXCEPT !.pc = pc, !.landed = TRUE]
  <2>2. /\ o \in OpStates /\ o.pc = pc /\ o.kind = "pull" /\ o.result = "none"
    BY <1>2 DEF OpStates, Pcs
  <2>3. op' = [op EXCEPT ![cur] = o] /\ reg' = [reg EXCEPT ![cur] = "live"]
    BY <1>4, <2>1 DEF BeforeHook
  <2> HIDE DEF o
  <2>4. OpOK(o, "live") /\ o.pc \notin Reserved /\ o.pc # "merge"
    BY <2>2 DEF OpOK, Reserved, Pushes
  <2>5. EndsTypeOK'
    BY <1>1, <1>3, <1>4 DEF TransferInv, EndsTypeOK
  <2> QED BY <1>1, <2>1, <2>2, <2>3, <2>4, <2>5, WorkerStep
<1>5. CASE /\ UNCHANGED repo /\ HookOff
           /\ Remember([Now EXCEPT !.pc = "completed", !.result = "failed", !.spoilt = TRUE])
           /\ reg' = [reg EXCEPT ![cur] = "live"]
  <2> DEFINE o == [Now EXCEPT !.pc = "completed", !.result = "failed", !.spoilt = TRUE]
  <2>1. /\ o \in OpStates /\ o.pc = "completed" /\ o.kind = "pull" /\ o.landed = FALSE
    BY <1>2 DEF OpStates, Pcs, TResults
  <2>2. op' = [op EXCEPT ![cur] = o] /\ hook' = hook
    BY <1>5 DEF Remember, HookOff
  <2> HIDE DEF o
  <2>3. OpOK(o, "live") /\ o.pc \notin Reserved
    BY <2>1 DEF OpOK, Reserved, Pushes
  <2>4. EndsTypeOK'
    BY <1>1, <1>5 DEF TransferInv, EndsTypeOK
  <2> QED BY <1>1, <1>5, <2>1, <2>2, <2>3, <2>4, WorkerStep
<1> QED BY <1>4, <1>5 DEF Move

LEMMA ReplyKeeps ==
  ASSUME TransferInv, Reply
  PROVE  TransferInv'
<1>1. /\ cur # 0 /\ Now.pc = "reply" /\ queue' = queue /\ cur' = cur /\ hook' = hook
      /\ server' = server /\ fresh' = fresh /\ repo' = repo /\ Ends("ok")
  BY DEF Reply, At, Worker, HookOff
<1>2. EndsTypeOK' /\ "ok" \in TResults
  BY <1>1 DEF TransferInv, EndsTypeOK, TResults
<1> QED BY <1>1, <1>2, EndsKeeps

-----------------------------------------------------------------------------
(* The pushes *)

LEMMA ConnectKeeps ==
  ASSUME TransferInv, Connect
  PROVE  TransferInv'
<1> DEFINE adv == server[Origin]
           new == IF Now.kind = "delete" THEN {} ELSE repo.tip
<1>1. /\ cur # 0 /\ Now.pc = "connect" /\ queue' = queue /\ cur' = cur /\ hook' = hook
      /\ server' = server /\ fresh' = fresh /\ repo' = repo
  BY DEF Connect, At, Worker, HookOff
<1>2. /\ Now \in OpStates /\ ~Now.landed /\ OpOK(Now, reg[cur]) /\ Now.kind \in Pushes
      /\ reg[cur] \in {"live", "cancelled"} /\ reg = [reg EXCEPT ![cur] = reg[cur]]
  BY <1>1, NowFacts DEF TransferInv, OpOK
<1>3. EndsTypeOK'
  BY <1>1 DEF TransferInv, EndsTypeOK
<1>4. CASE /\ (Forced \/ adv \subseteq new) /\ UNCHANGED reg
           /\ Remember([Now EXCEPT !.pc = "negotiate", !.adv = adv, !.new = new])
  <2> DEFINE o == [Now EXCEPT !.pc = "negotiate", !.adv = adv, !.new = new]
  <2>1. adv \in CommitSets /\ new \in CommitSets
    BY RemoteFacts DEF TransferInv, EndsTypeOK, CommitSets
  <2>2. Now.kind = "push" => adv \subseteq new
    BY <1>4 DEF Forced
  <2> HIDE DEF adv, new
  <2>3. /\ o \in OpStates /\ o.pc = "negotiate" /\ o.kind = Now.kind /\ o.landed = FALSE
        /\ o.result = Now.result /\ o.pressed = Now.pressed /\ o.adv = adv /\ o.new = new
    BY <1>2, <2>1 DEF OpStates, Pcs
  <2>4. op' = [op EXCEPT ![cur] = o]
    BY <1>4 DEF Remember
  <2> HIDE DEF o
  <2>5. PICK r \in {"live", "cancelled"} : r = reg[cur]
    BY <1>2
  <2>6. OpOK(o, r) /\ o.pc \notin Reserved
    BY <1>1, <1>2, <2>2, <2>3, <2>5 DEF OpOK, Reserved
  <2>7. reg' = [reg EXCEPT ![cur] = r]
    BY <1>2, <1>4, <2>5
  <2> QED BY <1>1, <1>3, <2>3, <2>4, <2>6, <2>7, WorkerStep
<1>5. CASE Ends("non-fast-forward") \/ Ends("failed")
  <2>1. "non-fast-forward" \in TResults /\ "failed" \in TResults
    BY DEF TResults
  <2> QED BY <1>1, <1>2, <1>3, <1>5, <2>1, EndsKeeps
<1> QED BY <1>4, <1>5 DEF Connect

LEMMA NegotiateKeeps ==
  ASSUME TransferInv, Negotiate
  PROVE  TransferInv'
<1>1. /\ cur # 0 /\ Now.pc = "negotiate" /\ queue' = queue /\ cur' = cur
      /\ server' = server /\ fresh' = fresh /\ repo' = repo
  BY DEF Negotiate, At, Worker
<1>2. /\ Now \in OpStates /\ ~Now.landed /\ OpOK(Now, reg[cur]) /\ Now.kind \in Pushes
      /\ reg[cur] \in {"live", "cancelled"} /\ reg = [reg EXCEPT ![cur] = reg[cur]]
      /\ Cancelled <=> reg[cur] = "cancelled"
  BY <1>1, NowFacts DEF TransferInv, OpOK
<1>3. EndsTypeOK'
  BY <1>1 DEF TransferInv, EndsTypeOK
<1>4. CASE HookOff /\ (Ends("cancelled") \/ Ends("stale lease") \/ Ends("hook failed"))
  <2>1. "cancelled" \in TResults /\ "stale lease" \in TResults /\ "hook failed" \in TResults
    BY DEF TResults
  <2> QED BY <1>1, <1>2, <1>3, <1>4, <2>1, EndsKeeps DEF HookOff
<1>5. ASSUME ~StopsHere, LeaseHolds, NEW pc \in {"send", "pre hook"}, To(pc), UNCHANGED reg,
             (pc = "send" /\ hook' = hook) \/ (pc = "pre hook" /\ hook' = Spawned)
      PROVE  TransferInv'
  <2> DEFINE o == [Now EXCEPT !.pc = pc]
  <2>1. /\ o \in OpStates /\ o.pc = pc /\ o.kind = Now.kind /\ o.landed = FALSE
        /\ o.result = Now.result /\ o.pressed = Now.pressed /\ o.adv = Now.adv /\ o.new = Now.new
        /\ o.expected = Now.expected
    BY <1>2 DEF OpStates, Pcs
  <2>2. op' = [op EXCEPT ![cur] = o]
    BY <1>5 DEF To, Remember
  <2> HIDE DEF o
  <2>3. PICK r \in {"live", "cancelled"} : r = reg[cur]
    BY <1>2
  <2>4. r = "live"
    BY <1>2, <1>5, <2>3 DEF StopsHere
  <2>5. OpOK(o, r) /\ o.pc \notin Reserved /\ o.pc # "merge"
    BY <1>1, <1>2, <1>5, <2>1, <2>3, <2>4 DEF OpOK, Reserved, LeaseHolds
  <2>6. reg' = [reg EXCEPT ![cur] = r]
    BY <1>2, <1>5, <2>3
  <2> QED BY <1>1, <1>3, <1>5, <2>1, <2>2, <2>5, <2>6, WorkerStep
<1>6. CASE ~StopsHere /\ LeaseHolds
  <2>1. \/ To("send") /\ HookOff /\ UNCHANGED reg
        \/ To("pre hook") /\ hook' = Spawned /\ UNCHANGED reg
        \/ Ends("hook failed") /\ HookOff
    BY <1>6 DEF Negotiate
  <2> QED BY <1>4, <1>5, <1>6, <2>1 DEF HookOff
<1>7. CASE StopsHere \/ ~LeaseHolds
  BY <1>4, <1>7 DEF Negotiate
<1> QED BY <1>6, <1>7

LEMMA HookBackKeeps ==
  ASSUME TransferInv, HookBack
  PROVE  TransferInv'
<1>1. /\ cur # 0 /\ queue' = queue /\ cur' = cur /\ hook' = NoHook
      /\ server' = server /\ fresh' = fresh /\ repo' = repo
  BY DEF HookBack, Worker
<1>2. /\ Now \in OpStates /\ OpOK(Now, reg[cur])
      /\ reg[cur] \in {"live", "cancelled"} /\ reg = [reg EXCEPT ![cur] = reg[cur]]
  BY <1>1, NowFacts DEF TransferInv
<1>3. EndsTypeOK'
  BY <1>1 DEF TransferInv, EndsTypeOK
<1>4. ASSUME NEW pc \in {"reply", "send"}, To(pc), UNCHANGED reg,
             pc = "reply" => Now.pc = "post hook", pc = "send" => Now.pc = "pre hook"
      PROVE  TransferInv'
  <2> DEFINE o == [Now EXCEPT !.pc = pc]
  <2>1. /\ o \in OpStates /\ o.pc = pc /\ o.kind = Now.kind /\ o.landed = Now.landed
        /\ o.result = Now.result /\ o.pressed = Now.pressed /\ o.adv = Now.adv /\ o.new = Now.new
        /\ o.expected = Now.expected
    BY <1>2 DEF OpStates, Pcs
  <2>2. op' = [op EXCEPT ![cur] = o]
    BY <1>4 DEF To, Remember
  <2> HIDE DEF o
  <2>3. PICK r \in {"live", "cancelled"} : r = reg[cur]
    BY <1>2
  <2>4. OpOK(o, r) /\ o.pc \notin Reserved /\ o.pc # "merge"
    <3>1. CASE pc = "reply"
      BY <1>2, <1>4, <2>1, <2>3, <3>1 DEF OpOK, Reserved, Pushes
    <3>2. CASE pc = "send"
      BY <1>2, <1>4, <2>1, <2>3, <3>2 DEF OpOK, Reserved
    <3> QED BY <3>1, <3>2
  <2>5. reg' = [reg EXCEPT ![cur] = r]
    BY <1>2, <1>4, <2>3
  <2> QED BY <1>1, <1>3, <2>1, <2>2, <2>4, <2>5, WorkerStep
<1>5. CASE Now.pc = "pre hook" /\ (Ends("cancelled") \/ Ends("hook failed"))
  <2>1. "cancelled" \in TResults /\ "hook failed" \in TResults
    BY DEF TResults
  <2>2. ~Now.landed
    BY <1>2, <1>5 DEF OpOK
  <2> QED BY <1>1, <1>3, <1>5, <2>1, <2>2, EndsKeeps
<1>6. CASE Now.pc = "post hook"
  BY <1>4, <1>6 DEF HookBack
<1>7. CASE Now.pc = "pre hook"
  <2>1. Outcome \in {"ran", "cancelled", "failed"}
    BY DEF Outcome
  <2> QED BY <1>4, <1>5, <1>7, <2>1 DEF HookBack
<1> QED BY <1>6, <1>7 DEF HookBack

LEMMA SendKeeps ==
  ASSUME TransferInv, Send
  PROVE  TransferInv'
<1>1. /\ cur # 0 /\ Now.pc = "send" /\ queue' = queue /\ cur' = cur /\ hook' = hook
      /\ fresh' = fresh /\ repo' = repo
  BY DEF Send, At, Worker, HookOff
<1>2. /\ Now \in OpStates /\ ~Now.landed /\ OpOK(Now, reg[cur]) /\ Now.kind \in Pushes
      /\ reg[cur] \in {"live", "cancelled"} /\ reg = [reg EXCEPT ![cur] = reg[cur]]
  BY <1>1, NowFacts DEF TransferInv, OpOK
<1>3. CASE UNCHANGED server /\ Ends("rejected")
  <2>1. "rejected" \in TResults /\ EndsTypeOK'
    BY <1>1, <1>3 DEF TResults, TransferInv, EndsTypeOK
  <2> QED BY <1>1, <1>2, <1>3, <2>1, EndsKeeps
<1>4. ASSUME server' = [server EXCEPT ![Origin] = Now.new], NEW landed \in BOOLEAN, NEW r \in {"live", "cancelled"},
             NEW pc \in {"landed", "completed"}, NEW result \in {"none", "failed"}, pc = "landed" => result = "none",
             op' = [op EXCEPT ![cur] = [Now EXCEPT !.pc = pc, !.result = result, !.landed = landed]],
             reg' = [reg EXCEPT ![cur] = r]
      PROVE  TransferInv'
  <2> DEFINE o == [Now EXCEPT !.pc = pc, !.result = result, !.landed = landed]
  <2>1. /\ o \in OpStates /\ o.pc = pc /\ o.kind = Now.kind /\ o.landed = landed
        /\ o.result = result /\ o.pressed = Now.pressed
    BY <1>2 DEF OpStates, Pcs, TResults
  <2>2. op' = [op EXCEPT ![cur] = o]
    BY <1>4
  <2> HIDE DEF o
  <2>3. "connect" \notin Now.pressed /\ "negotiate" \notin Now.pressed /\ Now.kind # "none"
    BY <1>1, <1>2 DEF OpOK
  <2>4. OpOK(o, r) /\ o.pc \notin Reserved /\ o.pc # "merge"
    BY <1>2, <1>4, <2>1, <2>3 DEF OpOK, Reserved
  <2>5. EndsTypeOK'
    BY <1>1, <1>2, <1>4 DEF TransferInv, EndsTypeOK, OpStates
  <2> QED BY <1>1, <1>4, <2>1, <2>2, <2>4, <2>5, WorkerStep
<1>5. PICK landed \in BOOLEAN : landed = (server[Origin] # Now.new)
  OBVIOUS
<1>6. CASE /\ server' = [server EXCEPT ![Origin] = Now.new] /\ UNCHANGED reg
           /\ Remember([Now EXCEPT !.pc = "landed", !.landed = server[Origin] # Now.new])
  <2>1. [Now EXCEPT !.pc = "landed", !.landed = landed]
          = [Now EXCEPT !.pc = "landed", !.result = "none", !.landed = landed]
    BY <1>1, <1>2 DEF OpStates, OpOK
  <2>2. op' = [op EXCEPT ![cur] = [Now EXCEPT !.pc = "landed", !.landed = landed]]
    BY <1>5, <1>6 DEF Remember
  <2>3. PICK r \in {"live", "cancelled"} : reg' = [reg EXCEPT ![cur] = r]
    BY <1>2, <1>6
  <2> QED BY <1>4, <1>6, <2>1, <2>2, <2>3
<1>7. CASE /\ server' = [server EXCEPT ![Origin] = Now.new] /\ reg' = [reg EXCEPT ![cur] = "live"]
           /\ Remember([Now EXCEPT !.pc = "completed", !.result = Broken,
                                   !.landed = server[Origin] # Now.new])
  BY <1>4, <1>5, <1>7 DEF Remember, Broken
<1> QED BY <1>3, <1>6, <1>7 DEF Send

LEMMA LandedKeeps ==
  ASSUME TransferInv, Landed
  PROVE  TransferInv'
<1>1. /\ cur # 0 /\ Now.pc = "landed" /\ queue' = queue /\ cur' = cur /\ hook' = hook
      /\ fresh' = fresh /\ server' = server /\ repo' = [repo EXCEPT !.tracking[Origin] = Now.new]
      /\ Ends("ok") \/ Ends("failed")
  BY DEF Landed, At, Worker, HookOff
<1>2. Now.new \in CommitSets
  BY <1>1, NowFacts DEF TransferInv, OpStates
<1>3. EndsTypeOK'
  BY <1>1, <1>2, RemoteFacts, TrackedType DEF TransferInv
<1>4. "ok" \in TResults /\ "failed" \in TResults
  BY DEF TResults
<1> QED BY <1>1, <1>3, <1>4, EndsKeeps

-----------------------------------------------------------------------------
(* The command's beginning and end, the user, the others and the hook *)

LEMMA NoOpType == NoOp \in OpStates /\ NoOp.landed = FALSE /\ NoOp.pressed = {} /\ NoOp.result = "none"
<1>1. << >> \in Seq(RemoteNames) /\ << >> \in Seq(CommitSets) /\ {} \in CommitSets
  BY DEF CommitSets
<1> QED BY <1>1 DEF NoOp, OpStates, Pcs, TResults

(* An operation begins, or ends, while the hook is off: only its own place changes. *)
LEMMA OneOpMoves ==
  ASSUME TransferInv, NEW id \in Ids, NEW o \in OpStates, NEW r \in {"unknown", "live", "cancelled"},
         op' = [op EXCEPT ![id] = o], reg' = [reg EXCEPT ![id] = r], OpOK(o, r)
  PROVE  /\ op' \in [Ids -> OpStates] /\ reg' \in [Ids -> {"unknown", "live", "cancelled"}]
         /\ \A i \in Ids : op'[i] = IF i = id THEN o ELSE op[i]
         /\ \A i \in Ids : OpOK(op[i], reg[i])'
<1>1. /\ op' \in [Ids -> OpStates] /\ reg' \in [Ids -> {"unknown", "live", "cancelled"}]
      /\ \A i \in Ids : /\ op'[i] = IF i = id THEN o ELSE op[i]
                        /\ reg'[i] = IF i = id THEN r ELSE reg[i]
  BY DEF TransferInv, OpsOK, TTypeOK
<1>2. ASSUME NEW i \in Ids PROVE OpOK(op'[i], reg'[i])
  <2>1. CASE i = id
    BY <1>1, <2>1
  <2>2. CASE i # id
    BY <1>1, <2>2 DEF TransferInv, OpsOK
  <2> QED BY <2>1, <2>2
<1>3. \A i \in Ids : OpOK(op[i], reg[i])'
  BY <1>2 DEF OpOK
<1> QED BY <1>1, <1>3

LEMMA QueuedFacts ==
  ASSUME OpsOK
  PROVE  \A i \in DOMAIN queue : queue[i] \in Ids /\ op[queue[i]].pc = "queued"
<1>1. ASSUME NEW i \in DOMAIN queue PROVE queue[i] \in Ids
  BY ElementOfSeq, LenProperties DEF OpsOK, TTypeOK
<1> QED BY <1>1 DEF OpsOK, OrderOK

LEMMA QuietHook ==
  ASSUME TransferInv, cur = 0
  PROVE  hook = NoHook /\ hook.phase = "none" /\ hook.why = "none"
<1>1. hook = NoHook
  BY DEF TransferInv, HookAtWork, HookOK
<1> QED BY <1>1 DEF NoHook

LEMMA GiveKeeps ==
  ASSUME TransferInv, NEW id \in Ids, NEW kind \in Kinds, NEW hooked \in BOOLEAN, Give(id, kind, hooked)
  PROVE  TransferInv'
<1> DEFINE o == [NoOp EXCEPT !.kind = kind, !.pc = "queued", !.hooked = hooked]
<1>1. /\ op[id].kind = "none" /\ op' = [op EXCEPT ![id] = o] /\ reg' = [reg EXCEPT ![id] = "live"]
      /\ queue' = Append(queue, id) /\ UNCHANGED <<cur, repo, server, fresh, hook>>
  BY DEF Give
<1>2. /\ o \in OpStates /\ o.kind = kind /\ o.pc = "queued" /\ o.landed = FALSE
      /\ o.pressed = {} /\ o.result = "none"
  BY NoOpType DEF OpStates, Pcs
<1> HIDE DEF o
<1>3. kind # "none"
  BY TransfersAssumption
<1>4. OpOK(o, "live")
  BY <1>2, <1>3 DEF OpOK
<1>5. /\ op' \in [Ids -> OpStates] /\ reg' \in [Ids -> {"unknown", "live", "cancelled"}]
      /\ \A i \in Ids : op'[i] = IF i = id THEN o ELSE op[i]
      /\ \A i \in Ids : OpOK(op[i], reg[i])'
  BY <1>1, <1>2, <1>4, OneOpMoves
<1>6. op[id].pc = "new"
  BY <1>1 DEF TransferInv, OpsOK, OpOK
<1>7. id # cur
  BY <1>6 DEF TransferInv, OpsOK, OrderOK, Reserved
<1>8. queue \in Seq(Ids)
  BY DEF TransferInv, OpsOK, TTypeOK
<1> DEFINE n == Len(queue) + 1
<1>9. /\ queue' \in Seq(Ids)
      /\ \A i \in DOMAIN queue : i \in DOMAIN queue' /\ queue'[i] = queue[i]
      /\ n \in DOMAIN queue' /\ queue'[n] = id
      /\ \A i \in DOMAIN queue' : i \in DOMAIN queue \/ i = n
  BY <1>1, <1>8, AppendFacts
<1> HIDE DEF n
<1>10. \A i \in DOMAIN queue : queue[i] \in Ids /\ queue[i] # id /\ op[queue[i]].pc = "queued"
  BY <1>6, QueuedFacts DEF TransferInv
<1>11. OrderOK'
  <2>1. \A i \in Ids : op'[i].pc \notin Reserved <=> i = cur'
    BY <1>1, <1>2, <1>5, <1>7 DEF TransferInv, OpsOK, OrderOK, Reserved
  <2>2. \A i \in DOMAIN queue' : op'[queue'[i]].pc = "queued"
    BY <1>2, <1>5, <1>9, <1>10
  <2>3. ASSUME NEW i \in DOMAIN queue', NEW j \in DOMAIN queue', i # j PROVE queue'[i] # queue'[j]
    <3>1. CASE i \in DOMAIN queue /\ j \in DOMAIN queue
      BY <1>9, <2>3, <3>1 DEF TransferInv, OpsOK, OrderOK
    <3>2. CASE i \in DOMAIN queue /\ j = n
      BY <1>9, <1>10, <3>2
    <3>3. CASE i = n /\ j \in DOMAIN queue
      BY <1>9, <1>10, <3>3
    <3> QED BY <1>9, <2>3, <3>1, <3>2, <3>3
  <2> QED BY <2>1, <2>2, <2>3 DEF OrderOK
<1>12. OpsOK'
  BY <1>1, <1>5, <1>9, <1>11 DEF TransferInv, OpsOK, TTypeOK
<1>13. HookAtWork' /\ MergeOK' /\ HookOK'
  <2>1. cur # 0 => cur \in Ids
    BY DEF TransferInv, OpsOK, TTypeOK
  <2>2. MergeOK'
    BY <1>1, <1>2, <1>5 DEF TransferInv, MergeOK
  <2>3. HookAtWork'
    BY <1>1, <1>5, <1>7, <2>1 DEF TransferInv, HookAtWork
  <2> QED BY <1>1, <2>2, <2>3 DEF TransferInv, HookOK
<1> QED BY <1>1, <1>12, <1>13 DEF TransferInv, EndsTypeOK

LEMMA CancelKeeps ==
  ASSUME TransferInv, NEW id \in Ids, Cancel(id)
  PROVE  TransferInv'
<1> DEFINE o == IF op[id].pc = "done" THEN op[id] ELSE [op[id] EXCEPT !.pressed = @ \cup {op[id].pc}]
           r == Heard(id)
<1>1. /\ op[id].pc \notin {"new", "queued"} /\ UNCHANGED <<queue, cur, repo, server, fresh, hook>>
      /\ op[id] \in OpStates /\ reg[id] \in {"unknown", "live", "cancelled"} /\ OpOK(op[id], reg[id])
  BY DEF Cancel, TransferInv, OpsOK, TTypeOK
<1>2. op' = [op EXCEPT ![id] = o] /\ reg' = [reg EXCEPT ![id] = r]
  <2>1. reg' = [reg EXCEPT ![id] = r]
    BY DEF Cancel
  <2>2. CASE op[id].pc = "done"
    <3>1. op' = op
      BY <2>2 DEF Cancel
    <3> QED BY <2>1, <2>2, <3>1 DEF TransferInv, OpsOK, TTypeOK
  <2>3. CASE op[id].pc # "done"
    BY <2>1, <2>3 DEF Cancel, TransferInv, OpsOK, TTypeOK
  <2> QED BY <2>2, <2>3
<1>3. /\ o \in OpStates /\ o.pc = op[id].pc /\ o.kind = op[id].kind /\ o.landed = op[id].landed
      /\ o.result = op[id].result /\ o.adv = op[id].adv /\ o.new = op[id].new
      /\ o.expected = op[id].expected /\ o.before = op[id].before
      /\ op[id].pc # "done" => o.pressed = op[id].pressed \cup {op[id].pc}
      /\ op[id].pc = "done" => o = op[id]
      /\ \A p \in op[id].pressed : p \in o.pressed
  BY <1>1 DEF OpStates
<1>4. /\ r \in {"unknown", "live", "cancelled"} /\ r = "unknown" <=> reg[id] = "unknown"
      /\ r # "unknown" => r = "cancelled"
  BY DEF Heard
<1> HIDE DEF o, r
<1>5. OpOK(o, r)
  <2>1. CASE op[id].pc = "done"
    BY <1>1, <1>3, <1>4, <2>1 DEF OpOK
  <2>2. CASE op[id].pc # "done"
    BY <1>1, <1>3, <1>4, <2>2 DEF OpOK
  <2> QED BY <2>1, <2>2
<1>6. /\ op' \in [Ids -> OpStates] /\ reg' \in [Ids -> {"unknown", "live", "cancelled"}]
      /\ \A i \in Ids : op'[i] = IF i = id THEN o ELSE op[i]
      /\ \A i \in Ids : OpOK(op[i], reg[i])'
  <2>1. PICK p \in OpStates : p = o
    BY <1>3
  <2>2. PICK s \in {"unknown", "live", "cancelled"} : s = r
    BY <1>4
  <2> QED BY <1>2, <1>5, <2>1, <2>2, OneOpMoves
<1>7. \A i \in Ids : /\ op'[i].pc = op[i].pc /\ op'[i].kind = op[i].kind /\ op'[i].before = op[i].before
                     /\ \A p \in op[i].pressed : p \in op'[i].pressed
  BY <1>3, <1>6
<1>8. \A i \in DOMAIN queue : queue[i] \in Ids
  BY QueuedFacts DEF TransferInv
<1>9. OpsOK'
  BY <1>1, <1>6, <1>7, <1>8 DEF TransferInv, OpsOK, TTypeOK, OrderOK
<1>10. cur # 0 => cur \in Ids
  BY DEF TransferInv, OpsOK, TTypeOK
<1>11. HookAtWork' /\ MergeOK' /\ HookOK'
  BY <1>1, <1>7, <1>10 DEF TransferInv, HookAtWork, MergeOK, HookOK
<1> QED BY <1>1, <1>9, <1>11 DEF TransferInv, EndsTypeOK

LEMMA TakeKeeps ==
  ASSUME TransferInv, Take
  PROVE  TransferInv'
<1> DEFINE id == Head(queue)
<1>1. /\ cur = 0 /\ queue # << >> /\ queue' = Tail(queue) /\ UNCHANGED <<repo, server, fresh, hook>>
  BY DEF Take
<1>2. queue \in Seq(Ids)
  BY DEF TransferInv, OpsOK, TTypeOK
<1>3. /\ queue' \in Seq(Ids) /\ id \in Ids /\ 1 \in DOMAIN queue /\ id = queue[1]
      /\ \A i \in DOMAIN queue' : i + 1 \in DOMAIN queue /\ i + 1 # 1 /\ queue'[i] = queue[i + 1]
      /\ \A i, j \in DOMAIN queue' : i # j => i + 1 # j + 1
  BY <1>1, <1>2, TailFacts
<1> HIDE DEF id
<1>4. /\ \A i \in DOMAIN queue : queue[i] \in Ids /\ op[queue[i]].pc = "queued"
      /\ \A i, j \in DOMAIN queue : i # j => queue[i] # queue[j]
  BY QueuedFacts DEF TransferInv, OpsOK, OrderOK
<1>5. /\ \A i \in DOMAIN queue' : queue'[i] \in Ids /\ queue'[i] # id /\ op[queue'[i]].pc = "queued"
      /\ \A i, j \in DOMAIN queue' : i # j => queue'[i] # queue'[j]
  BY <1>3, <1>4
<1>6. /\ op[id] \in OpStates /\ OpOK(op[id], reg[id]) /\ op[id].pc = "queued"
      /\ reg[id] \in {"live", "cancelled"}
  BY <1>3, <1>4, ZenonT(40) DEF TransferInv, OpsOK, TTypeOK, OpOK
<1>7. /\ op[id].kind # "none" /\ op[id].pressed = {} /\ ~op[id].landed /\ op[id].result = "none"
      /\ op[id].kind \in Kinds
  BY <1>6 DEF OpOK, OpStates
<1>8. hook' \in HookStates /\ HookOK' /\ hook'.phase = "none" /\ hook'.why = "none"
  BY <1>1, QuietHook DEF TransferInv, HookOK
<1>9. \A i \in Ids : op[i].pc \in Reserved
  BY <1>1, TransfersAssumption DEF TransferInv, OpsOK, OrderOK, Ids
<1>10. ASSUME NEW o \in OpStates, NEW r \in {"unknown", "live", "cancelled"},
              op' = [op EXCEPT ![id] = o], reg' = [reg EXCEPT ![id] = r], OpOK(o, r),
              cur' = (IF o.pc = "done" THEN cur ELSE id), o.pc \in {"done", "fetch", "connect"}
       PROVE  TransferInv'
  <2>1. /\ op' \in [Ids -> OpStates] /\ reg' \in [Ids -> {"unknown", "live", "cancelled"}]
        /\ \A i \in Ids : op'[i] = IF i = id THEN o ELSE op[i]
        /\ \A i \in Ids : OpOK(op[i], reg[i])'
    <3>1. PICK k \in Ids : k = id
      BY <1>3
    <3> QED BY <1>10, <3>1, OneOpMoves
  <2>2. \A i \in DOMAIN queue' : op'[queue'[i]].pc = "queued"
    BY <1>5, <2>1
  <2>3. \A i \in Ids : op'[i].pc \notin Reserved <=> i = cur'
    <3>1. 0 \notin Ids
      BY TransfersAssumption DEF Ids
    <3> QED BY <1>1, <1>3, <1>9, <1>10, <2>1, <3>1 DEF Reserved
  <2>4. cur' \in Ids \cup {0}
    BY <1>1, <1>3, <1>10
  <2>5. OpsOK'
    BY <1>3, <1>5, <2>1, <2>2, <2>3, <2>4 DEF OpsOK, TTypeOK, OrderOK
  <2>6. MergeOK'
    BY <1>1, <1>9, <1>10, <2>1 DEF MergeOK, Reserved
  <2>7. HookAtWork'
    BY <1>8 DEF HookAtWork
  <2> QED BY <1>1, <1>8, <2>5, <2>6, <2>7 DEF TransferInv, EndsTypeOK
<1>11. CASE /\ cur' = id /\ UNCHANGED reg
            /\ op' = [op EXCEPT ![id] = [op[id] EXCEPT
                 !.pc = FirstOf(op[id].kind), !.expected = repo.tracking[Origin],
                 !.todo = IF op[id].kind = "fetchAll" THEN Remotes ELSE <<Origin>>]]
  <2> DEFINE o == [op[id] EXCEPT
                 !.pc = FirstOf(op[id].kind), !.expected = repo.tracking[Origin],
                 !.todo = IF op[id].kind = "fetchAll" THEN Remotes ELSE <<Origin>>]
  <2>1. repo.tracking[Origin] \in CommitSets
    BY RemoteFacts DEF TransferInv, EndsTypeOK
  <2>2. op[id].kind \in {"fetch", "fetchAll", "pull"} \/ op[id].kind \in Pushes
    BY <1>7, TransfersAssumption DEF Pushes
  <2>3. /\ FirstOf(op[id].kind) \in {"fetch", "connect"}
        /\ FirstOf(op[id].kind) = "fetch" <=> op[id].kind \notin Pushes
    BY <2>2 DEF FirstOf, Pushes
  <2>4. /\ o \in OpStates /\ o.pc = FirstOf(op[id].kind) /\ o.kind = op[id].kind
        /\ o.pressed = {} /\ o.landed = FALSE /\ o.result = "none"
    <3>1. FirstOf(op[id].kind) \in Pcs
      BY <2>3 DEF Pcs
    <3>2. (IF op[id].kind = "fetchAll" THEN Remotes ELSE <<Origin>>) \in Seq(RemoteNames)
      BY RemoteFacts
    <3> QED BY <1>6, <1>7, <2>1, <3>1, <3>2 DEF OpStates
  <2>5. op' = [op EXCEPT ![id] = o]
    BY <1>11
  <2> HIDE DEF o
  <2>6. PICK r \in {"live", "cancelled"} : r = reg[id]
    BY <1>6
  <2>7. OpOK(o, r)
    BY <1>7, <2>3, <2>4, <2>6 DEF OpOK, Pushes
  <2>8. reg' = [reg EXCEPT ![id] = r]
    BY <1>11, <2>6 DEF TransferInv, OpsOK, TTypeOK
  <2> QED BY <1>10, <1>11, <2>3, <2>4, <2>5, <2>7, <2>8
<1>12. CASE /\ UNCHANGED cur /\ reg' = [reg EXCEPT ![id] = "unknown"]
            /\ op' = [op EXCEPT ![id] = [NoOp EXCEPT !.kind = op[id].kind, !.pc = "done",
                                               !.result = "refused"]]
  <2> DEFINE o == [NoOp EXCEPT !.kind = op[id].kind, !.pc = "done", !.result = "refused"]
  <2>1. /\ o \in OpStates /\ o.pc = "done" /\ o.kind = op[id].kind /\ o.landed = FALSE
        /\ o.pressed = {}
    BY <1>7, NoOpType DEF OpStates, Pcs, TResults
  <2>2. op' = [op EXCEPT ![id] = o]
    BY <1>12
  <2> HIDE DEF o
  <2>3. OpOK(o, "unknown")
    BY <1>7, <2>1 DEF OpOK
  <2> QED BY <1>10, <1>12, <2>1, <2>2, <2>3
<1> QED BY <1>11, <1>12 DEF Take, id

LEMMA DropIdKeeps ==
  ASSUME TransferInv, DropId
  PROVE  TransferInv'
<1> DEFINE o == [NoOp EXCEPT !.kind = Now.kind, !.pc = "done", !.result = Now.result,
                             !.landed = Now.landed]
<1>1. /\ cur # 0 /\ Now.pc = "completed" /\ cur' = 0 /\ op' = [op EXCEPT ![cur] = o]
      /\ reg' = [reg EXCEPT ![cur] = "unknown"] /\ UNCHANGED <<queue, repo, server, fresh, hook>>
  BY DEF DropId, At, Remember
<1>2. cur \in Ids /\ Now \in OpStates /\ OpOK(Now, reg[cur]) /\ Now = op[cur]
  BY <1>1, NowFacts DEF TransferInv
<1>3. /\ o \in OpStates /\ o.pc = "done" /\ o.kind = Now.kind /\ o.landed = Now.landed
      /\ o.pressed = {} /\ o.result = Now.result
  <2>1. Now.kind \in Kinds \cup {"none"} /\ Now.result \in TResults /\ Now.landed \in BOOLEAN
    BY <1>2 DEF OpStates
  <2> DEFINE q == [NoOp EXCEPT !.kind = Now.kind, !.pc = "done"]
  <2>2. q \in OpStates /\ q.pc = "done" /\ q.kind = Now.kind /\ q.pressed = {}
    BY <2>1, NoOpType DEF OpStates, Pcs
  <2>3. o = [q EXCEPT !.result = Now.result, !.landed = Now.landed]
    OBVIOUS
  <2> HIDE DEF o, q
  <2>4. PICK landed \in BOOLEAN : landed = Now.landed
    BY <2>1
  <2>5. o = [q EXCEPT !.result = Now.result, !.landed = landed]
    BY <2>3, <2>4
  <2> QED BY <2>1, <2>2, <2>4, <2>5 DEF OpStates
<1> HIDE DEF o
<1>4. OpOK(o, "unknown")
  BY <1>1, <1>2, <1>3 DEF OpOK
<1>5. /\ op' \in [Ids -> OpStates] /\ reg' \in [Ids -> {"unknown", "live", "cancelled"}]
      /\ \A i \in Ids : op'[i] = IF i = cur THEN o ELSE op[i]
      /\ \A i \in Ids : OpOK(op[i], reg[i])'
  <2>1. PICK k \in Ids : k = cur
    BY <1>2
  <2> QED BY <1>1, <1>3, <1>4, <2>1, OneOpMoves
<1>6. \A i \in DOMAIN queue : queue[i] \in Ids /\ queue[i] # cur
  BY <1>1, <1>2, QueuedFacts DEF TransferInv
<1>7. \A i \in Ids : op'[i].pc \notin Reserved <=> i = cur'
  <2>1. 0 \notin Ids
    BY TransfersAssumption DEF Ids
  <2> QED BY <1>1, <1>3, <1>5, <2>1 DEF TransferInv, OpsOK, OrderOK, Reserved
<1>8. OpsOK'
  BY <1>1, <1>5, <1>6, <1>7 DEF TransferInv, OpsOK, TTypeOK, OrderOK
<1>9. hook = NoHook
  BY <1>1, <1>2 DEF TransferInv, HookAtWork, HookOK
<1>10. hook'.phase = "none" /\ hook'.why = "none" /\ HookOK'
  BY <1>1, <1>9 DEF NoHook, TransferInv, HookOK
<1>11. HookAtWork' /\ MergeOK'
  BY <1>1, <1>3, <1>5, <1>10 DEF HookAtWork, TransferInv, MergeOK
<1> QED BY <1>1, <1>8, <1>10, <1>11 DEF TransferInv, EndsTypeOK

LEMMA DiesKeeps ==
  ASSUME TransferInv, Dies
  PROVE  TransferInv'
<1> DEFINE over(o) == [NoOp EXCEPT !.kind = o.kind, !.pc = "done", !.result = "died"]
<1>1. /\ cur' = 0 /\ queue' = << >> /\ hook' = NoHook /\ UNCHANGED <<repo, server, fresh>>
      /\ op' = [id \in Ids |-> IF op[id].kind # "none" /\ op[id].pc # "done" THEN over(op[id]) ELSE op[id]]
      /\ reg' = [id \in Ids |-> "unknown"]
  BY DEF Dies
<1>2. \A o \in OpStates : /\ over(o) \in OpStates /\ over(o).pc = "done" /\ over(o).kind = o.kind
                          /\ over(o).landed = FALSE /\ over(o).pressed = {}
  BY NoOpType, ZenonT(40) DEF OpStates, Pcs, TResults
<1> HIDE DEF over
<1>3. ASSUME NEW id \in Ids
      PROVE  op'[id] \in OpStates /\ OpOK(op'[id], "unknown") /\ op'[id].pc \in {"new", "done"}
  <2>1. op[id] \in OpStates /\ OpOK(op[id], reg[id])
    BY DEF TransferInv, OpsOK, TTypeOK
  <2>2. CASE op[id].kind # "none" /\ op[id].pc # "done"
    BY <1>1, <1>2, <2>1, <2>2 DEF OpOK
  <2>3. CASE op[id].kind = "none"
    BY <1>1, <2>1, <2>3 DEF OpOK
  <2>4. CASE op[id].pc = "done"
    BY <1>1, <2>1, <2>4 DEF OpOK
  <2> QED BY <2>2, <2>3, <2>4
<1>4. op' \in [Ids -> OpStates] /\ reg' \in [Ids -> {"unknown", "live", "cancelled"}]
  <2>1. DOMAIN op' = Ids /\ op' = [id \in Ids |-> op'[id]]
    BY <1>1
  <2> QED BY <1>1, <1>3, <2>1
<1>5. \A id \in Ids : OpOK(op[id], reg[id])'
  <2>1. ASSUME NEW id \in Ids PROVE OpOK(op'[id], reg'[id])
    BY <1>1, <1>3
  <2> QED BY <2>1 DEF OpOK
<1>6. OpsOK'
  <2>1. queue' \in Seq(Ids) /\ DOMAIN queue' = {}
    BY <1>1
  <2>2. \A id \in Ids : op'[id].pc \notin Reserved <=> id = cur'
    <3>1. 0 \notin Ids
      BY TransfersAssumption DEF Ids
    <3> QED BY <1>1, <1>3, <3>1 DEF Reserved
  <2>3. OrderOK'
    BY <2>1, <2>2 DEF OrderOK
  <2>4. cur' \in Ids \cup {0}
    BY <1>1
  <2> QED BY <1>4, <1>5, <2>1, <2>3, <2>4 DEF OpsOK, TTypeOK
<1>7. hook' \in HookStates /\ HookOK' /\ HookAtWork'
  BY <1>1, NoHookType DEF NoHook, HookOK, HookAtWork
<1>8. MergeOK'
  BY <1>3 DEF MergeOK
<1> QED BY <1>1, <1>6, <1>7, <1>8 DEF TransferInv, EndsTypeOK

(* The operations are left alone. *)
LEMMA OpsStay ==
  ASSUME TransferInv, UNCHANGED <<op, queue, cur, reg>>, EndsTypeOK',
         hook' \in HookStates, HookOK', HookAtWork',
         (\A id \in Ids : op[id].pc # "merge") \/ (repo'.tip = repo.tip /\ repo'.tree = repo.tree)
  PROVE  TransferInv'
<1>1. \A id : OpOK(op[id], reg[id])' <=> OpOK(op[id], reg[id])
  BY DEF OpOK
<1>2. OpsOK'
  BY <1>1 DEF TransferInv, OpsOK, TTypeOK, OrderOK
<1>3. MergeOK'
  BY DEF TransferInv, MergeOK
<1> QED BY <1>2, <1>3 DEF TransferInv

LEMMA OutsideKeeps ==
  ASSUME TransferInv, Outside \/ Edit
  PROVE  TransferInv'
<1>1. /\ UNCHANGED <<op, queue, cur, reg, hook>>
      /\ hook' \in HookStates /\ HookOK' /\ HookAtWork'
  BY DEF Outside, Edit, TransferInv, HookOK, HookAtWork
<1>2. CASE Outside
  <2>1. fresh' = fresh + 1 /\ fresh' \in Nat /\ fresh' \in Int
    BY <1>2 DEF Outside, TransferInv, EndsTypeOK
  <2>2. ASSUME Settled, NEW tip \in {repo.tip \cup {fresh'}, {0, fresh'}}, UNCHANGED server,
               repo' = [repo EXCEPT !.tip = tip, !.tree = IF @ = repo.tip THEN tip ELSE @]
        PROVE  TransferInv'
    <3>1. tip \in CommitSets
      BY <2>1, <2>2 DEF TransferInv, EndsTypeOK, CommitSets
    <3>2. EndsTypeOK'
      BY <2>1, <2>2, <3>1 DEF TransferInv, EndsTypeOK
    <3>3. \A id \in Ids : op[id].pc # "merge"
      BY <2>2 DEF Settled
    <3> QED BY <1>1, <3>2, <3>3, OpsStay
  <2>3. ASSUME NEW r \in RemoteNames, NEW tip \in {server[r] \cup {fresh'}, {0, fresh'}},
               server' = [server EXCEPT ![r] = tip], UNCHANGED repo
        PROVE  TransferInv'
    <3>1. tip \in CommitSets
      BY <2>1, <2>3 DEF TransferInv, EndsTypeOK, CommitSets
    <3>2. EndsTypeOK'
      BY <2>1, <2>3, <3>1 DEF TransferInv, EndsTypeOK
    <3> QED BY <1>1, <2>3, <3>2, OpsStay
  <2> QED BY <1>2, <2>2, <2>3 DEF Outside
<1>3. CASE Edit
  <2>1. PICK tree \in CommitSets : repo' = [repo EXCEPT !.tree = tree]
    <3>1. Untidy \in CommitSets /\ repo.tip \in CommitSets
      BY DEF Untidy, CommitSets, TransferInv, EndsTypeOK
    <3> QED BY <1>3, <3>1 DEF Edit
  <2>2. EndsTypeOK'
    BY <1>3, <2>1 DEF Edit, TransferInv, EndsTypeOK
  <2>3. \A id \in Ids : op[id].pc # "merge"
    BY <1>3 DEF Edit, Settled
  <2> QED BY <1>1, <2>2, <2>3, OpsStay
<1> QED BY <1>2, <1>3

LEMMA HookStepKeeps ==
  ASSUME TransferInv, OutsideHook \/ WaitForHook
  PROVE  TransferInv'
<1>1. /\ UNCHANGED <<op, queue, cur, reg, repo, server, fresh>> /\ EndsTypeOK'
      /\ hook \in HookStates /\ HookOK /\ OpsOK
  BY DEF OutsideHook, WaitForHook, TransferInv, EndsTypeOK
<1>2. CASE OutsideHook
  <2>1. hook' \in HookStates /\ HookOK' /\ hook'.phase = hook.phase /\ hook'.why = hook.why
    BY <1>1, <1>2, ProgramKeepsHook DEF OutsideHook
  <2>2. HookAtWork'
    BY <1>1, <2>1 DEF TransferInv, HookAtWork
  <2> QED BY <1>1, <2>1, <2>2, OpsStay
<1>3. CASE WaitForHook
  <2>1. cur # 0 /\ WaiterStep(Cancelled)
    BY <1>3 DEF WaitForHook
  <2>2. PICK c \in BOOLEAN : c = Cancelled
    BY DEF Cancelled
  <2>3. WaiterStep(c)
    BY <2>1, <2>2
  <2>4. /\ hook' \in HookStates /\ HookOK' /\ hook.phase # "none"
        /\ hook'.why = "cancel" => hook.why = "cancel" \/ c
    BY <1>1, <2>3, WaiterKeepsHook
  <2>5. /\ Now = op[cur] /\ OpOK(Now, reg[cur]) /\ Now.pc \in {"pre hook", "post hook"}
        /\ Cancelled <=> reg[cur] = "cancelled"
    BY <1>1, <2>1, <2>4, NowFacts DEF TransferInv, HookAtWork
  <2>6. Now.kind = "pull" => Now.pc = "post hook"
    BY <2>5 DEF OpOK, Pushes
  <2>7. Now.kind = "pull" /\ Cancelled => "post hook" \in Now.pressed
    BY <2>5, <2>6 DEF OpOK
  <2>8. HookAtWork'
    BY <1>1, <2>1, <2>2, <2>4, <2>5, <2>7 DEF TransferInv, HookAtWork
  <2> QED BY <1>1, <2>4, <2>8, OpsStay
<1> QED BY <1>2, <1>3

-----------------------------------------------------------------------------
LEMMA TransferInvAtFirst == TInit => TransferInv
<1> SUFFICES ASSUME TInit PROVE TransferInv
  OBVIOUS
<1>1. /\ op = [id \in Ids |-> NoOp] /\ queue = << >> /\ cur = 0 /\ reg = [id \in Ids |-> "unknown"]
      /\ repo = [tip |-> {0}, tree |-> {0}, tracking |-> [r \in RemoteNames |-> {0}]]
      /\ server = [r \in RemoteNames |-> {0}] /\ fresh = 0 /\ hook = NoHook
  BY DEF TInit
<1>2. /\ NoOp \in OpStates /\ NoOp.pc = "new" /\ OpOK(NoOp, "unknown")
  BY NoOpType DEF NoOp, OpOK
<1>3. 0 \notin Ids
  BY TransfersAssumption DEF Ids
<1>4. queue \in Seq(Ids) /\ DOMAIN queue = {}
  BY <1>1
<1>5. OpsOK
  <2>1. TTypeOK
    BY <1>1, <1>2, <1>4 DEF TTypeOK
  <2>2. \A id \in Ids : op[id] = NoOp /\ reg[id] = "unknown"
    BY <1>1
  <2>3. OrderOK
    BY <1>1, <1>2, <1>3, <1>4, <2>2 DEF OrderOK, Reserved
  <2> QED BY <1>2, <2>1, <2>2, <2>3 DEF OpsOK
<1>6. EndsTypeOK
  BY <1>1 DEF EndsTypeOK, CommitSets
<1>7. hook \in HookStates /\ HookOK /\ HookAtWork
  BY <1>1, NoHookType DEF NoHook, HookOK, HookAtWork
<1>8. MergeOK
  BY <1>1, <1>2 DEF MergeOK
<1> QED BY <1>5, <1>6, <1>7, <1>8 DEF TransferInv

LEMMA TransferStep == TransferInv /\ [TNext]_tvars => TransferInv'
<1> SUFFICES ASSUME TransferInv, [TNext]_tvars PROVE TransferInv'
  OBVIOUS
<1>1. CASE UNCHANGED tvars
  <2>1. UNCHANGED <<op, queue, cur, reg, repo, server, fresh, hook>>
    BY <1>1 DEF tvars
  <2>2. EndsTypeOK' /\ hook' \in HookStates /\ HookOK' /\ HookAtWork'
    BY <2>1 DEF TransferInv, EndsTypeOK, HookOK, HookAtWork
  <2> QED BY <2>1, <2>2, OpsStay
<1>2. CASE WorkerRuns
  BY <1>2, TakeKeeps, DropIdKeeps, FetchKeeps, MergeKeeps, MoveKeeps, ReplyKeeps, ConnectKeeps,
     NegotiateKeeps, HookBackKeeps, SendKeeps, LandedKeeps, HookStepKeeps DEF WorkerRuns
<1>3. ASSUME NEW id \in Ids, Cancel(id) PROVE TransferInv'
  BY <1>3, CancelKeeps
<1>4. ASSUME NEW id \in Ids, NEW kind \in Kinds, NEW hooked \in BOOLEAN, Give(id, kind, hooked)
      PROVE  TransferInv'
  BY <1>4, GiveKeeps
<1> QED BY <1>1, <1>2, <1>3, <1>4, DiesKeeps, OutsideKeeps, HookStepKeeps DEF TNext

LEMMA OpsStepsOfTransfers == [OpsNext]_opsVars => [TNext]_tvars
BY DEF OpsNext, opsVars

\* What the user is told of a cancelled or refused transfer follows from the invariant.
LEMMA TransferInvIsHonest == TransferInv => CancelIsHonest
<1> SUFFICES ASSUME TransferInv PROVE CancelIsHonest
  OBVIOUS
<1>1. UntouchedWhenSaid /\ RegistryIsItsOperations
  BY DEF TransferInv, OpsOK, OpOK, UntouchedWhenSaid, RegistryIsItsOperations
<1>2. NoHookSurvives
  BY DEF TransferInv, HookOK, NoHookSurvives
<1>3. ASSUME NEW id \in Ids, op[id].landed, op[id].kind \in Pushes
      PROVE  op[id].pressed \cap {"connect", "negotiate"} = {}
  <2>1. "connect" \notin op[id].pressed /\ "negotiate" \notin op[id].pressed
    BY <1>3 DEF TransferInv, OpsOK, OpOK
  <2> QED BY <2>1
<1>4. (cur # 0 /\ hook.why = "cancel" /\ op[cur].kind = "pull") => "post hook" \in op[cur].pressed
  BY DEF TransferInv, HookAtWork
<1> QED BY <1>1, <1>2, <1>3, <1>4 DEF CancelIsHonest, CancelCountsWhenPressed

(* Whatever is cancelled, whenever, and whatever a hook does: what is reported as cancelled   *)
(* or refused changed nothing, a Cancel pressed before a push sends anything stops it, the    *)
(* registry knows the running operations and no other, and a hook that is stopped is stopped  *)
(* as a whole (push_refs, cancellation_or, CancelRegistry, kill_tree).                       *)
THEOREM CancelStaysHonest == OpsSpec => []CancelIsHonest
<1>1. OpsInit => TransferInv
  BY TransferInvAtFirst DEF OpsInit
<1>2. TransferInv /\ [OpsNext]_opsVars => TransferInv'
  BY TransferStep, OpsStepsOfTransfers
<1> QED
  BY <1>1, <1>2, TransferInvIsHonest, PTL DEF OpsSpec

-----------------------------------------------------------------------------
(* What a push takes from the remote, and what a pull that fails leaves *)

\* An operation lands when it is sent, or when a pull's branch moves; nothing else lands.
LEMMA LandingSteps ==
  ASSUME TransferInv, TNext, NEW id \in Ids, op'[id].landed, ~op[id].landed,
         op[id].kind \in {"push", "force"}
  PROVE  id = cur /\ Send
<1>1. op[id] \in OpStates /\ OpOK(op[id], reg[id])
  BY DEF TransferInv, OpsOK, TTypeOK
<1>2. op \in [Ids -> OpStates] /\ NoOp.landed = FALSE /\ NoOp \in OpStates /\ (cur # 0 => cur \in Ids)
  BY NoOpType DEF TransferInv, OpsOK, TTypeOK
<1>3. op'[id] # op[id]
  BY <1>1
<1>4. ASSUME NEW o, op' = [op EXCEPT ![cur] = o], cur # 0 PROVE id = cur /\ op'[id] = o
  BY <1>2, <1>3, <1>4
<1>5. ASSUME NEW result, Ends(result), cur # 0 PROVE FALSE
  <2>1. id = cur /\ op'[id] = [Now EXCEPT !.pc = "completed", !.result = result]
    BY <1>4, <1>5 DEF Ends, Remember
  <2>2. op'[id].landed = op[id].landed
    BY <1>1, <2>1 DEF Now, OpStates
  <2> QED BY <2>2
<1>6. ASSUME NEW pc, To(pc), cur # 0 PROVE FALSE
  <2>1. id = cur /\ op'[id] = [Now EXCEPT !.pc = pc]
    BY <1>4, <1>6 DEF To, Remember
  <2>2. op'[id].landed = op[id].landed
    BY <1>1, <2>1 DEF Now, OpStates
  <2> QED BY <2>2
<1>7. ASSUME cur # 0, Now.pc \in {"fetch", "merge", "move", "reply"}, op' = op \/ \E o : op' = [op EXCEPT ![cur] = o]
      PROVE  FALSE
  <2>1. id = cur
    BY <1>3, <1>4, <1>7
  <2> QED BY <1>1, <1>7, <2>1 DEF OpOK, Now, Pushes
<1>8. ~Fetch
  <2> SUFFICES ASSUME Fetch PROVE FALSE
    OBVIOUS
  <2>1. cur # 0 /\ Now.pc = "fetch"
    BY DEF Fetch, At
  <2>2. \E o : op' = [op EXCEPT ![cur] = o]
    BY DEF Fetch, AfterFetch, Ends, Remember
  <2> QED BY <1>7, <2>1, <2>2
<1>9. ~Merge /\ ~Move /\ ~Reply
  <2>1. ASSUME Merge \/ Move \/ Reply PROVE cur # 0 /\ Now.pc \in {"merge", "move", "reply"}
    BY <2>1 DEF Merge, Move, Reply, At
  <2>2. ASSUME Merge PROVE \E o : op' = [op EXCEPT ![cur] = o]
    BY <2>2 DEF Merge, Ends, To, Remember
  <2>3. ASSUME Move PROVE \E o : op' = [op EXCEPT ![cur] = o]
    BY <2>3 DEF Move, Remember
  <2>4. ASSUME Reply PROVE \E o : op' = [op EXCEPT ![cur] = o]
    BY <2>4 DEF Reply, Ends, Remember
  <2> QED BY <1>7, <2>1, <2>2, <2>3, <2>4
<1>10. ~Connect
  <2> SUFFICES ASSUME Connect PROVE FALSE
    OBVIOUS
  <2>1. cur # 0
    BY DEF Connect, At
  <2>2. ASSUME NEW adv, NEW new, Remember([Now EXCEPT !.pc = "negotiate", !.adv = adv, !.new = new])
        PROVE  FALSE
    <3>1. id = cur /\ op'[id] = [Now EXCEPT !.pc = "negotiate", !.adv = adv, !.new = new]
      BY <1>4, <2>1, <2>2 DEF Remember
    <3>2. op'[id].landed = op[id].landed
      BY <1>1, <3>1 DEF Now, OpStates
    <3> QED BY <3>2
  <2>3. \/ \E adv, new : Remember([Now EXCEPT !.pc = "negotiate", !.adv = adv, !.new = new])
        \/ Ends("non-fast-forward") \/ Ends("failed")
    BY DEF Connect
  <2> QED BY <1>5, <2>1, <2>2, <2>3
<1>11. ~Negotiate /\ ~HookBack /\ ~Landed
  <2>1. ASSUME Negotiate PROVE FALSE
    <3>1. cur # 0 /\ ((\E pc : To(pc)) \/ (\E result : Ends(result)))
      BY <2>1 DEF Negotiate, At
    <3> QED BY <1>5, <1>6, <3>1
  <2>2. ASSUME HookBack PROVE FALSE
    <3>1. Outcome \in {"ran", "cancelled", "failed"}
      BY DEF Outcome
    <3>2. cur # 0 /\ ((\E pc : To(pc)) \/ (\E result : Ends(result)))
      BY <2>2, <3>1 DEF HookBack
    <3> QED BY <1>5, <1>6, <3>2
  <2>3. ASSUME Landed PROVE FALSE
    <3>1. cur # 0 /\ \E result : Ends(result)
      BY <2>3 DEF Landed, At
    <3> QED BY <1>5, <3>1
  <2> QED BY <2>1, <2>2, <2>3
<1>12. ~Take
  <2> SUFFICES ASSUME Take PROVE FALSE
    OBVIOUS
  <2> DEFINE h == Head(queue)
  <2>1. h \in Ids
    BY TailFacts DEF Take, TransferInv, OpsOK, TTypeOK
  <2> DEFINE pc == FirstOf(op[h].kind)
             expected == repo.tracking[Origin]
             todo == IF op[h].kind = "fetchAll" THEN Remotes ELSE <<Origin>>
             kind == op[h].kind
  <2>2. \/ op' = [op EXCEPT ![h] = [op[h] EXCEPT !.pc = pc, !.expected = expected, !.todo = todo]]
        \/ op' = [op EXCEPT ![h] = [NoOp EXCEPT !.kind = kind, !.pc = "done", !.result = "refused"]]
    BY DEF Take
  <2> HIDE DEF pc, expected, todo, kind
  <2> HIDE DEF h
  <2>3. CASE op' = [op EXCEPT ![h] = [op[h] EXCEPT !.pc = pc, !.expected = expected, !.todo = todo]]
    <3>1. id = h /\ op'[id] = [op[h] EXCEPT !.pc = pc, !.expected = expected, !.todo = todo]
      BY <1>2, <1>3, <2>1, <2>3
    <3> QED BY <1>1, <3>1 DEF OpStates
  <2>4. CASE op' = [op EXCEPT ![h] = [NoOp EXCEPT !.kind = kind, !.pc = "done", !.result = "refused"]]
    <3>1. id = h /\ op'[id] = [NoOp EXCEPT !.kind = kind, !.pc = "done", !.result = "refused"]
      BY <1>2, <1>3, <2>1, <2>4
    <3> QED BY <1>2, <3>1 DEF OpStates
  <2> QED BY <2>2, <2>3, <2>4
<1>13. ~DropId
  <2> SUFFICES ASSUME DropId PROVE FALSE
    OBVIOUS
  <2>1. cur # 0
    BY DEF DropId, At
  <2>2. op' = [op EXCEPT ![cur] = [NoOp EXCEPT !.kind = Now.kind, !.pc = "done", !.result = Now.result,
                                              !.landed = Now.landed]]
    BY DEF DropId, Remember
  <2>3. id = cur /\ op'[id] = [NoOp EXCEPT !.kind = Now.kind, !.pc = "done", !.result = Now.result,
                                         !.landed = Now.landed]
    BY <1>4, <2>1, <2>2
  <2>4. op'[id].landed = Now.landed /\ Now.landed = op[id].landed
    BY <1>2, <2>3 DEF OpStates, Now
  <2> QED BY <2>4
<1>14. ~Dies
  <2> SUFFICES ASSUME Dies PROVE FALSE
    OBVIOUS
  <2>1. op'[id] = [NoOp EXCEPT !.kind = op[id].kind, !.pc = "done", !.result = "died"]
    BY <1>3 DEF Dies
  <2> QED BY <1>2, <2>1 DEF OpStates
<1>15. ASSUME NEW k \in Ids, Cancel(k) PROVE FALSE
  <2>1. op' = [op EXCEPT ![k].pressed = @ \cup {op[k].pc}]
    BY <1>3, <1>15 DEF Cancel
  <2>2. id = k /\ op'[id] = [op[id] EXCEPT !.pressed = @ \cup {op[id].pc}]
    BY <1>2, <1>3, <2>1
  <2> QED BY <1>1, <2>2 DEF OpStates
<1>16. ASSUME NEW k \in Ids, NEW kind \in Kinds, NEW hooked \in BOOLEAN, Give(k, kind, hooked) PROVE FALSE
  <2>1. op' = [op EXCEPT ![k] = [NoOp EXCEPT !.kind = kind, !.pc = "queued", !.hooked = hooked]]
    BY <1>16 DEF Give
  <2>2. id = k /\ op'[id] = [NoOp EXCEPT !.kind = kind, !.pc = "queued", !.hooked = hooked]
    BY <1>2, <1>3, <2>1
  <2> QED BY <1>2, <2>2 DEF OpStates
<1>17. ~WaitForHook /\ ~OutsideHook /\ ~Outside /\ ~Edit
  BY <1>3 DEF WaitForHook, OutsideHook, Outside, Edit
<1>18. Send
  BY <1>8, <1>9, <1>10, <1>11, <1>12, <1>13, <1>14, <1>15, <1>16, <1>17 DEF TNext, WorkerRuns
<1>19. id = cur
  <2>1. cur # 0 /\ (\E o : op' = [op EXCEPT ![cur] = o])
    BY <1>18 DEF Send, At, Ends, Remember
  <2> QED BY <1>4, <2>1
<1> QED BY <1>18, <1>19

\* What is sent takes no commit away that was not seen: the remote has what it advertised.
LEMMA SendOverwritesTheSeen ==
  ASSUME TransferInv, Send, op'[cur].landed, op[cur].kind \in {"push", "force"}
  PROVE  server[Origin] \subseteq
           server'[Origin] \cup (IF op[cur].kind = "force" THEN op[cur].expected ELSE {})
<1>1. /\ cur # 0 /\ Now.pc = "send"
  BY DEF Send, At
<1>2. /\ cur \in Ids /\ Now \in OpStates /\ ~Now.landed /\ OpOK(Now, reg[cur]) /\ Now = op[cur]
  BY <1>1, NowFacts DEF TransferInv, OpOK
<1>3. server \in [RemoteNames -> CommitSets] /\ op \in [Ids -> OpStates] /\ Origin \in RemoteNames
  BY RemoteFacts DEF TransferInv, EndsTypeOK, OpsOK, TTypeOK
<1>4. ASSUME NEW result, Ends(result) PROVE FALSE
  <2>1. op'[cur] = [Now EXCEPT !.pc = "completed", !.result = result]
    BY <1>2, <1>3, <1>4 DEF Ends, Remember
  <2>2. op'[cur].landed = Now.landed
    BY <1>2, <2>1 DEF OpStates
  <2> QED BY <1>2, <2>2
<1>5. server[Origin] = Now.adv /\ server' = [server EXCEPT ![Origin] = Now.new]
  BY <1>4 DEF Send
<1>6. server'[Origin] = Now.new
  BY <1>3, <1>5
<1>7. CASE Now.kind = "push"
  <2>1. Now.adv \subseteq Now.new
    BY <1>1, <1>2, <1>7 DEF OpOK
  <2> QED BY <1>2, <1>5, <1>6, <1>7, <2>1
<1>8. CASE Now.kind = "force"
  <2>1. Now.adv = Now.expected
    BY <1>1, <1>2, <1>8 DEF OpOK
  <2> QED BY <1>2, <1>5, <1>6, <1>8, <2>1
<1> QED BY <1>2, <1>7, <1>8

\* Only the merge, and the branch's move after it, end a pull that got so far.
LEMMA PullSteps ==
  ASSUME TransferInv, TNext, NEW id \in Ids, op[id].pc \in {"merge", "move"}, op'[id].pc = "completed"
  PROVE  id = cur /\ (Merge \/ Move)
<1>1. op[id] \in OpStates /\ OpOK(op[id], reg[id]) /\ op \in [Ids -> OpStates] /\ NoOp \in OpStates
  BY NoOpType DEF TransferInv, OpsOK, TTypeOK
<1>2. id = cur /\ Now = op[id] /\ cur # 0 /\ Now.pc \in {"merge", "move"}
  <2>1. 0 \notin Ids
    BY TransfersAssumption DEF Ids
  <2> QED BY <2>1 DEF TransferInv, OpsOK, OrderOK, Reserved, Now
<1>3. op' # op
  OBVIOUS
<1>4. /\ ~Take /\ ~DropId /\ ~Fetch /\ ~Reply /\ ~Connect /\ ~Negotiate /\ ~Send /\ ~Landed
      /\ ~HookBack
  BY <1>2 DEF Take, DropId, Fetch, Reply, Connect, Negotiate, Send, Landed, HookBack, At
<1>5. ~WaitForHook /\ ~OutsideHook /\ ~Outside /\ ~Edit
  BY <1>3 DEF WaitForHook, OutsideHook, Outside, Edit
<1>6. ~Dies
  <2> SUFFICES ASSUME Dies PROVE FALSE
    OBVIOUS
  <2>1. op'[id] = [NoOp EXCEPT !.kind = op[id].kind, !.pc = "done", !.result = "died"]
    BY <1>1 DEF Dies, OpOK
  <2> QED BY <1>1, <2>1 DEF OpStates
<1>7. ASSUME NEW k \in Ids, Cancel(k) PROVE FALSE
  <2>1. op' = [op EXCEPT ![k] = [op[k] EXCEPT !.pressed = @ \cup {op[k].pc}]]
    BY <1>1, <1>3, <1>7 DEF Cancel
  <2>2. op'[id].pc = op[id].pc
    BY <1>1, <2>1 DEF OpStates
  <2> QED BY <2>2
<1>8. ASSUME NEW k \in Ids, NEW kind \in Kinds, NEW hooked \in BOOLEAN, Give(k, kind, hooked) PROVE FALSE
  <2>1. op' = [op EXCEPT ![k] = [NoOp EXCEPT !.kind = kind, !.pc = "queued", !.hooked = hooked]]
    BY <1>8 DEF Give
  <2>2. CASE id = k
    BY <1>1, <2>1, <2>2 DEF OpStates
  <2>3. CASE id # k
    BY <1>1, <2>1, <2>3
  <2> QED BY <2>2, <2>3
<1> QED BY <1>2, <1>4, <1>5, <1>6, <1>7, <1>8 DEF TNext, WorkerRuns

LEMMA MergeEndsWhole ==
  ASSUME TransferInv, Merge \/ Move, op'[cur].pc = "completed", ~op'[cur].spoilt
  PROVE  <<repo'.tip, repo'.tree>> = op[cur].before
<1>1. cur # 0 /\ Now.pc \in {"merge", "move"}
  BY DEF Merge, Move, At
<1>2. cur \in Ids /\ Now \in OpStates /\ Now = op[cur] /\ op \in [Ids -> OpStates]
  BY <1>1, NowFacts DEF TransferInv, OpsOK, TTypeOK
<1>3. \A o : op' = [op EXCEPT ![cur] = o] => op'[cur] = o
  BY <1>2
<1>4. ~Remember([Now EXCEPT !.pc = "completed", !.result = "failed", !.spoilt = TRUE])
  <2> SUFFICES ASSUME Remember([Now EXCEPT !.pc = "completed", !.result = "failed", !.spoilt = TRUE])
               PROVE  FALSE
    OBVIOUS
  <2>1. op'[cur] = [Now EXCEPT !.pc = "completed", !.result = "failed", !.spoilt = TRUE]
    BY <1>3 DEF Remember
  <2> QED BY <1>2, <2>1 DEF OpStates
<1>5. ASSUME NEW pc, To(pc) PROVE pc = "completed"
  <2>1. op'[cur] = [Now EXCEPT !.pc = pc]
    BY <1>3, <1>5 DEF To, Remember
  <2> QED BY <1>2, <2>1 DEF OpStates
<1>6. ASSUME NEW pc, Remember([Now EXCEPT !.pc = pc, !.landed = TRUE]) PROVE pc = "completed"
  <2>1. op'[cur] = [Now EXCEPT !.pc = pc, !.landed = TRUE]
    BY <1>3, <1>6 DEF Remember
  <2> QED BY <1>2, <2>1 DEF OpStates
<1>7. ~Move
  BY <1>4, <1>6 DEF Move
<1>8. repo'.tip = repo.tip /\ repo'.tree = repo.tree
  <2>1. \/ UNCHANGED repo
        \/ repo' = [repo EXCEPT !.tree = RollsBack(@)]
    BY <1>4, <1>5, <1>7 DEF Merge
  <2> QED BY <2>1 DEF RollsBack, TransferInv, EndsTypeOK
<1>9. Now.pc = "merge"
  BY <1>7 DEF Merge, At
<1> QED BY <1>2, <1>8, <1>9 DEF TransferInv, MergeOK

(* A push takes no commit from the remote that the user's side had not seen, and a pull that  *)
(* fails leaves branch and files as the merge found them, whatever others push and whenever   *)
(* the transfer is cancelled (push_negotiation's lease, pull_after_fetch, partial_checkout).  *)
THEOREM BothEndsStayKept == OpsSpec => BothEndsAreKept
<1> DEFINE Seen == \A id \in Ids :
                     LET o == op[id] IN
                     (op'[id].landed /\ ~o.landed /\ o.kind \in {"push", "force"}) =>
                       server[Origin] \subseteq
                         server'[Origin] \cup (IF o.kind = "force" THEN o.expected ELSE {})
           Whole == \A id \in Ids :
                      (op[id].pc \in {"merge", "move"} /\ op'[id].pc = "completed" /\ ~op'[id].spoilt) =>
                        <<repo'.tip, repo'.tree>> = op[id].before
<1>1. OpsInit => TransferInv
  BY TransferInvAtFirst DEF OpsInit
<1>2. TransferInv /\ [OpsNext]_opsVars => TransferInv'
  BY TransferStep, OpsStepsOfTransfers
<1>3. TransferInv /\ [OpsNext]_opsVars => [Seen]_tvars
  <2> SUFFICES ASSUME TransferInv, [OpsNext]_opsVars, tvars' # tvars PROVE Seen
    OBVIOUS
  <2>1. TNext
    BY OpsStepsOfTransfers
  <2> QED BY <2>1, LandingSteps, SendOverwritesTheSeen
<1>4. TransferInv /\ [OpsNext]_opsVars => [Whole]_tvars
  <2> SUFFICES ASSUME TransferInv, [OpsNext]_opsVars, tvars' # tvars PROVE Whole
    OBVIOUS
  <2>1. TNext
    BY OpsStepsOfTransfers
  <2> QED BY <2>1, PullSteps, MergeEndsWhole
<1>5. OpsSpec => [][Seen]_tvars /\ [][Whole]_tvars
  BY <1>1, <1>2, <1>3, <1>4, PTL DEF OpsSpec
<1> QED
  BY <1>5 DEF BothEndsAreKept, NothingUnseenOverwritten, PullIsWhole
=============================================================================
