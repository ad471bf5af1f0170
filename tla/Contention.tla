----------------------------- MODULE Contention -----------------------------
(***************************************************************************)
(* How long one worker's commands wait for the state lock while another    *)
(* window holds it (worker/state_lock.rs, the wait policy of worker/mod.rs *)
(* around it).  The queue of the worker stands still while a command       *)
(* waits, so a long holder must not cost every command a full wait; yet a  *)
(* command that refuses when the lock is busy must not refuse at once.     *)
(*                                                                         *)
(* Time is a number of ticks; instants are kept as the time left.          *)
(***************************************************************************)
EXTENDS Integers

CONSTANTS LockWait, ContendedWait   \* LOCK_WAIT, CONTENDED_WAIT, in ticks

ASSUME WaitsAssumption ==
  LockWait \in Nat /\ ContendedWait \in Nat \ {0} /\ ContendedWait <= LockWait

VARIABLES
  contended, window,  \* Contention: window is None, or what is left of quick_until
  phase,              \* "idle", "waiting" for the lock, "running" a command
  refuses,            \* the waiting command refuses when the lock stays busy
  unrecorded,         \* the running command goes without the lock
  left,               \* what is left of the wait
  taken,              \* another window holds the lock
  granted,            \* ghost: the wait this command was given
  quiet,              \* ghost: time since a command last went without the lock
  cost                \* ghost: what the commands of one burst have waited in vain

contentionVars == <<contended, window, phase, refuses, unrecorded, left, taken, granted, quiet, cost>>

None == -1

ContentionTypeOK ==
  /\ contended \in BOOLEAN
  /\ window \in {None} \cup 0..ContendedWait
  /\ phase \in {"idle", "waiting", "running"}
  /\ refuses \in BOOLEAN /\ unrecorded \in BOOLEAN /\ taken \in BOOLEAN
  /\ left \in 0..granted /\ granted \in 0..LockWait
  /\ quiet \in 0..ContendedWait
  /\ cost \in Nat

ContentionInit ==
  /\ contended = FALSE
  /\ window = None
  /\ phase = "idle"
  /\ refuses = FALSE
  /\ unrecorded = FALSE
  /\ left = 0
  /\ taken \in BOOLEAN
  /\ granted = 0
  /\ quiet = ContendedWait
  /\ cost = 0

-----------------------------------------------------------------------------
(* A deviation: inside a burst a refusing command, too, tries only once. *)
Wait_RefusesAtOnce(r) ==
  IF ~contended THEN LockWait ELSE IF window > 0 THEN 0 ELSE ContendedWait

(* A deviation: the window, once opened, never closes. *)
Wait_NeverCloses(r) ==
  IF ~contended THEN LockWait ELSE IF ~r /\ window # None THEN 0 ELSE ContendedWait

Wait(r) ==
  IF ~contended THEN LockWait ELSE IF ~r /\ window > 0 THEN 0 ELSE ContendedWait

Held == contended' = FALSE /\ window' = None

(* The first Busy marks the lock contended, a later one opens the window. *)
Busy ==
  /\ contended' = TRUE
  /\ window' = IF contended THEN ContendedWait ELSE window

(* A deviation: the window runs from when the command was found busy. *)
Finished_Ignored == UNCHANGED <<contended, window>>

Finished ==
  /\ window' = IF window # None THEN ContendedWait ELSE None
  /\ UNCHANGED contended

-----------------------------------------------------------------------------
(* A command that locks arrives, and tries at once. *)
Lock(r) ==
  /\ phase = "idle"
  /\ phase' = "waiting"
  /\ refuses' = r
  /\ left' = Wait(r)
  /\ granted' = Wait(r)
  /\ UNCHANGED <<contended, window, unrecorded, taken, quiet, cost>>

(* A read, or any other command that takes no lock. *)
RunUnlocked ==
  /\ phase = "idle"
  /\ phase' = "running"
  /\ unrecorded' = FALSE
  /\ UNCHANGED <<contended, window, refuses, left, taken, granted, quiet, cost>>

(* The lock is polled: it may be free between two tries. *)
Acquire ==
  /\ phase = "waiting"
  /\ ~taken
  /\ Held
  /\ phase' = "running"
  /\ unrecorded' = FALSE
  /\ cost' = 0
  /\ UNCHANGED <<refuses, left, taken, granted, quiet>>

(* The last try finds it busy. *)
RefuseBusy ==
  /\ phase = "waiting"
  /\ left = 0 /\ taken /\ refuses
  /\ Busy
  /\ phase' = "idle"
  /\ quiet' = 0
  /\ UNCHANGED <<refuses, unrecorded, left, taken, granted, cost>>

RunUnrecorded ==
  /\ phase = "waiting"
  /\ left = 0 /\ taken /\ ~refuses
  /\ Busy
  /\ phase' = "running"
  /\ unrecorded' = TRUE
  /\ quiet' = 0
  /\ cost' = cost + granted
  /\ UNCHANGED <<refuses, left, taken, granted>>

End ==
  /\ phase = "running"
  /\ IF unrecorded THEN Finished /\ quiet' = 0 ELSE UNCHANGED <<contended, window, quiet>>
  /\ phase' = "idle"
  /\ unrecorded' = FALSE
  /\ UNCHANGED <<refuses, left, taken, granted, cost>>

OtherWindow ==
  /\ taken' = ~taken
  /\ UNCHANGED <<contended, window, phase, refuses, unrecorded, left, granted, quiet, cost>>

(* A wait in progress is not a quiet time. *)
Tick ==
  /\ phase = "waiting" => left > 0
  /\ left' = IF phase = "waiting" THEN left - 1 ELSE left
  /\ window' = IF window > 0 THEN window - 1 ELSE window
  /\ quiet' = IF unrecorded \/ phase = "waiting" \/ quiet = ContendedWait
              THEN quiet ELSE quiet + 1
  /\ cost' = IF quiet' = ContendedWait THEN 0 ELSE cost
  /\ UNCHANGED <<contended, phase, refuses, unrecorded, taken, granted>>

ContentionNext ==
  \/ \E r \in BOOLEAN : Lock(r)
  \/ RunUnlocked \/ Acquire \/ RefuseBusy \/ RunUnrecorded \/ End
  \/ OtherWindow \/ Tick

ContentionSpec == ContentionInit /\ [][ContentionNext]_contentionVars

-----------------------------------------------------------------------------
(* A burst of commands behind another window's long hold waits LOCK_WAIT   *)
(* and one CONTENDED_WAIT, not one each, however long each command takes   *)
(* and whatever refuses in between.                                        *)
BurstCostsOnce == cost <= LockWait + ContendedWait

(* A command that refuses has waited before it does. *)
NeverRefusesAtOnce ==
  [][RefuseBusy => granted >= ContendedWait]_contentionVars

(* A command gives up after one try only right behind another that went    *)
(* without the lock: a brief hold after a quiet time is waited out.        *)
OneTryOnlyInABurst ==
  [][\A r \in BOOLEAN : (Lock(r) /\ left' = 0) => contended /\ quiet < ContendedWait]_contentionVars
=============================================================================
