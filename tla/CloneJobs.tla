------------------------------- MODULE CloneJobs -------------------------------
(***************************************************************************)
(* Clones (repo-service clone.rs, git-core clone.rs, frontend               *)
(* CloneDialog.tsx). A clone has no repository and so no worker: it runs on  *)
(* a thread of its own, and its ID is made up by the dialog, so its Cancel   *)
(* may reach the service before the clone is registered or after it is over. *)
(* The dialog runs one clone at a time, here all into one folder, and is     *)
(* used again after a failure.                                              *)
(***************************************************************************)
EXTENDS Integers, Sequences, FiniteSets

CONSTANTS
  EarlyCancels,   \* EARLY_CANCELS: cancels kept for clones that are not running
  MaxClones,      \* bound: clones asked for
  MaxSubmodules,  \* bound: submodules of the cloned repository
  MaxCloneFaults  \* bound: calls that fail

ASSUME CloneAssumption ==
  EarlyCancels \in Nat \ {0} /\ MaxClones \in Nat /\ MaxSubmodules \in Nat /\ MaxCloneFaults \in Nat

CloneIds == 1..MaxClones

VARIABLES
  clone,     \* the clones, by ID
  early,     \* sequence: cancels for IDs that were not running
  clicks,    \* the Cancel clicks on their way to the service
  folder,    \* the destination: absent, empty, ours (what a clone wrote) or taken
  saved,     \* the credential of a clone: its remote's profile, its keychain entry
  badCalls

cvars == <<clone, early, clicks, folder, saved, badCalls>>

NoClone == [pc |-> "new", token |-> FALSE, flag |-> FALSE, made |-> "none", offered |-> FALSE,
            accepted |-> FALSE, left |-> 0, result |-> "none",
            clicked |-> FALSE, inTime |-> FALSE, found |-> "none", spoilt |-> FALSE]   \* ghosts

CInit ==
  /\ clone = [id \in CloneIds |-> NoClone] /\ early = << >> /\ clicks = {}
  /\ folder \in {"absent", "empty", "taken"}
  /\ saved = [profile |-> {}, keychain |-> {}] /\ badCalls = 0

Works == UNCHANGED badCalls
Fails == badCalls < MaxCloneFaults /\ badCalls' = badCalls + 1

Running(id) == clone[id].pc \notin {"new", "asked", "profile", "keychain", "answered"}

-----------------------------------------------------------------------------
(* The dialog and the service's list of cancels *)

Submit(id, token) ==
  /\ clone[id].pc = "new" /\ \A j \in 1..(id - 1) : clone[j].pc = "answered" /\ clone[j].result # "ok"
  /\ clone' = [clone EXCEPT ![id].pc = "asked", ![id].token = token, ![id].found = folder]
  /\ UNCHANGED <<early, clicks, folder, saved, badCalls>>

(* Bound: no more clicks are on their way at once than the service keeps. *)
Click(id) ==
  /\ clone[id].pc \notin {"new", "answered"} /\ ~clone[id].clicked
  /\ Cardinality(clicks) < EarlyCancels
  /\ clicks' = clicks \cup {id} /\ clone' = [clone EXCEPT ![id].clicked = TRUE]
  /\ UNCHANGED <<early, folder, saved, badCalls>>

(* A deviation: a full list takes no more. *)
Kept_WhileRoom(id) == IF Len(early) = EarlyCancels THEN early ELSE Append(early, id)

Kept(id) == Append(IF Len(early) = EarlyCancels THEN Tail(early) ELSE early, id)

(* CloneService.cancel *)
Deliver(id) ==
  /\ id \in clicks /\ clicks' = clicks \ {id}
  /\ IF Running(id) THEN clone' = [clone EXCEPT ![id].flag = TRUE] /\ UNCHANGED early
     ELSE /\ early' = IF \E i \in DOMAIN early : early[i] = id THEN early ELSE Kept(id)
          /\ clone' = [clone EXCEPT ![id].inTime = @ \/ clone[id].pc = "asked"]
  /\ UNCHANGED <<folder, saved, badCalls>>

-----------------------------------------------------------------------------
(* The clone's thread *)

Goes(id, job) == clone' = [clone EXCEPT ![id] = job]

Answered(job) ==    \* what is no longer read is forgotten
  [job EXCEPT !.pc = "answered", !.token = FALSE, !.flag = FALSE, !.offered = FALSE, !.left = 0]
ServiceIdle == UNCHANGED <<early, clicks>>

(* register: a cancel that came before it is used up. *)
Register(id) ==
  /\ clone[id].pc = "asked"
  /\ \/ /\ \A i \in DOMAIN early : early[i] # id
        /\ Goes(id, [clone[id] EXCEPT !.pc = "prepare"]) /\ UNCHANGED early
     \/ \E i \in DOMAIN early :
          /\ early[i] = id /\ early' = SubSeq(early, 1, i - 1) \o SubSeq(early, i + 1, Len(early))
          /\ Goes(id, [clone[id] EXCEPT !.pc = "prepare", !.flag = TRUE])
  /\ UNCHANGED <<clicks, folder, saved, badCalls>>

(* The dialog is told nothing while the folder is cleaned up; then the flag is dropped. *)
Fail(id, result) ==
  Goes(id, [clone[id] EXCEPT !.pc = IF @ = "prepare" THEN "unregister" ELSE "cleanup",
                             !.result = result])

(* classify: a failure with the flag set is a cancellation. *)
FailedCall(id) == Fails /\ Fail(id, IF clone[id].flag THEN "cancelled" ELSE "failed")

(* The URL and the destination are checked, then the flag, then prepare_dest. *)
Prepare(id) ==
  /\ clone[id].pc = "prepare" /\ ServiceIdle /\ UNCHANGED saved
  /\ CASE clone[id].flag -> Works /\ Fail(id, "cancelled") /\ UNCHANGED folder
       [] ~clone[id].flag /\ folder \in {"taken", "ours"} ->
            Works /\ Fail(id, "not empty") /\ UNCHANGED folder
       [] OTHER ->
            \/ /\ Works /\ folder' = "ours"
               /\ Goes(id, [clone[id] EXCEPT !.pc = "fetch",
                              !.made = IF folder = "absent" THEN "created" ELSE "existing"])
            \/ Fails /\ Fail(id, "failed") /\ UNCHANGED folder

(* The server asks for credentials, again after each refusal. OneShotHttps has one answer.   *)
Challenge(id) ==
  /\ clone[id].pc = "fetch" /\ ~clone[id].accepted
  /\ ServiceIdle /\ Works /\ UNCHANGED <<folder, saved>>
  /\ \/ /\ clone[id].token /\ ~clone[id].offered
        /\ \E accepted \in BOOLEAN :
             Goes(id, [clone[id] EXCEPT !.offered = TRUE, !.accepted = accepted])
     \/ ~(clone[id].token /\ ~clone[id].offered) /\ Fail(id, "missing credential")

(* A public repository never asks; once asked the server wants an answer it takes. *)
FetchClone(id) ==
  /\ clone[id].pc = "fetch" /\ (clone[id].offered => clone[id].accepted)
  /\ ServiceIdle /\ UNCHANGED <<folder, saved>>
  /\ \/ Works /\ Goes(id, [clone[id] EXCEPT !.pc = "checkout"])
     \/ Works /\ clone[id].flag /\ Fail(id, "cancelled")
     \/ FailedCall(id)

(* The case check, then the checkout; either may stop the clone. *)
CheckoutClone(id) ==
  /\ clone[id].pc = "checkout" /\ ServiceIdle /\ UNCHANGED <<folder, saved>>
  /\ \/ /\ Works
        /\ \E n \in 0..MaxSubmodules :
             Goes(id, [clone[id] EXCEPT !.pc = "submodules", !.left = n])
     \/ Works /\ clone[id].flag /\ Fail(id, "cancelled")
     \/ FailedCall(id)

(* Cancel is looked at once more, then before each submodule, whose failures undo nothing. *)
Submodules(id) ==
  /\ clone[id].pc = "submodules" /\ ServiceIdle /\ Works /\ UNCHANGED <<folder, saved>>
  /\ CASE clone[id].flag -> Fail(id, "cancelled")
       [] ~clone[id].flag /\ clone[id].left > 0 -> Goes(id, [clone[id] EXCEPT !.left = @ - 1])
       [] OTHER -> Goes(id, [clone[id] EXCEPT !.pc = "unregister", !.result = "ok"])

(* A deviation: the folder the user picked goes too. *)
Cleaned_Always(made) == "absent"

Cleaned(made) == IF made = "created" THEN "absent" ELSE "empty"

(* cleanup is best effort. *)
Cleanup(id) ==
  /\ clone[id].pc = "cleanup" /\ ServiceIdle /\ UNCHANGED saved
  /\ \/ /\ Works /\ folder' = Cleaned(clone[id].made)
        /\ Goes(id, [clone[id] EXCEPT !.pc = "unregister"])
     \/ /\ Fails /\ UNCHANGED folder
        /\ Goes(id, [clone[id] EXCEPT !.pc = "unregister", !.spoilt = TRUE])

(* A deviation: a token the server never asked for is saved. *)
Saves_Typed(job) == job.token

Saves(job) == job.token /\ job.offered

Unregister(id) ==
  /\ clone[id].pc = "unregister" /\ ServiceIdle /\ Works /\ UNCHANGED <<folder, saved>>
  /\ Goes(id, IF clone[id].result = "ok" /\ Saves(clone[id])
              THEN [clone[id] EXCEPT !.pc = "profile"] ELSE Answered(clone[id]))

(* persist_https: the profile first, so that a failure (reported with the clone, which stays) *)
(* leaves no keychain entry behind.                                                          *)
Persist(id) ==
  /\ clone[id].pc \in {"profile", "keychain"} /\ ServiceIdle /\ UNCHANGED folder
  /\ LET what == clone[id].pc IN
     \/ /\ Works /\ saved' = [saved EXCEPT ![what] = @ \cup {id}]
        /\ Goes(id, IF what = "profile" THEN [clone[id] EXCEPT !.pc = "keychain"]
                    ELSE Answered(clone[id]))
     \/ Fails /\ UNCHANGED saved /\ Goes(id, Answered(clone[id]))

CloneRuns(id) ==
  \/ Register(id) \/ Prepare(id) \/ Challenge(id) \/ FetchClone(id) \/ CheckoutClone(id)
  \/ Submodules(id) \/ Cleanup(id) \/ Unregister(id) \/ Persist(id)

CNext ==
  \E id \in CloneIds :
    \/ \E token \in BOOLEAN : Submit(id, token)
    \/ Click(id) \/ Deliver(id) \/ CloneRuns(id)

CFair == \A id \in CloneIds : WF_cvars(CloneRuns(id))

-----------------------------------------------------------------------------
(* What a clone promises *)

(* A clone that fails or is cancelled leaves the folder as it found it, so that the dialog's  *)
(* next try does not find it taken (clone_repo_with, cleanup).                               *)
FailedCloneLeavesFolder ==
  \A id \in CloneIds :
    (/\ clone[id].pc = "answered" /\ clone[id].result # "ok" /\ ~clone[id].spoilt
     /\ id < MaxClones => clone[id + 1].pc = "new")
      => folder = clone[id].found

(* A Cancel that arrives before its clone is registered stops it before it touches the       *)
(* folder; no clone is cancelled by a click on another (CloneService.cancel, register).      *)
CancelFindsItsClone ==
  \A id \in CloneIds :
    /\ clone[id].inTime => clone[id].made = "none" /\ clone[id].result # "ok"
    /\ clone[id].result = "cancelled" => clone[id].clicked

(* A token is kept only after a clone that succeeded with it, and never without the profile   *)
(* that makes later transfers use it (OneShotHttps, persist_https).                           *)
TokenKeptIfUsed ==
  \A id \in saved.keychain \cup saved.profile :
    clone[id].result = "ok" /\ clone[id].accepted /\ id \in saved.profile

(* The three promises of a clone together (clone_repo). *)
CloneKeepsItsWord == FailedCloneLeavesFolder /\ CancelFindsItsClone /\ TokenKeptIfUsed
=============================================================================
