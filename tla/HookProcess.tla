------------------------------ MODULE HookProcess ------------------------------
(***************************************************************************)
(* A hook's program and the thread that waits for it (process.rs           *)
(* run_captured, wait_bounded, kill_tree). The program may start a          *)
(* background child that holds its pipe open, may leave it behind or may    *)
(* never end; the user may cancel; the time limit may pass.                 *)
(*                                                                         *)
(* The child is in the program's process group unless it left it (its own   *)
(* setsid). A fork under way when the group is killed may escape the first  *)
(* sweep (macOS), never the second.                                        *)
(***************************************************************************)

VARIABLE hook

NoHook == [phase |-> "none", prog |-> "none", child |-> "none", ok |-> FALSE,
           late |-> FALSE, why |-> "none"]

Spawned == [NoHook EXCEPT !.phase = "poll", !.prog = "running"]

Runs == hook.prog = "running"

(* The program, its child and the clock. *)
ProgramStep ==
  /\ Runs
  /\ \/ hook.child = "none" /\ hook' = [hook EXCEPT !.child = "forking"]
     \/ hook.child = "forking" /\ hook' = [hook EXCEPT !.child = "alive"]
     \/ \E ok \in BOOLEAN :
          /\ hook.child # "forking"
          /\ hook' = [hook EXCEPT !.prog = "exited", !.ok = ok]

ChildStep ==
  /\ hook.child = "alive"
  /\ \E s \in {"gone", "left"} : hook' = [hook EXCEPT !.child = s]

TimePasses == hook.phase = "poll" /\ ~hook.late /\ hook' = [hook EXCEPT !.late = TRUE]

(* A deviation: only the user ends a hook that does not end by itself. *)
Due_OnCancel(cancelled) == cancelled

Due(cancelled) == cancelled \/ hook.late

(* wait_bounded: the exit is looked for before the cancel, the cancel before the limit. *)
Poll(cancelled) ==
  /\ hook.phase = "poll"
  /\ IF hook.prog = "exited"
     THEN hook' = [hook EXCEPT !.phase = "drain", !.prog = "reaped", !.why = "exit"]
     ELSE /\ Due(cancelled)
          /\ hook' = [hook EXCEPT !.phase = "kill", !.why = IF cancelled THEN "cancel" ELSE "limit"]

(* killpg: whoever is in the group dies, but a fork under way may be missed. *)
Swept(child) == IF child = "alive" THEN "gone" ELSE child

KillGroup ==
  /\ hook.phase = "kill"
  /\ \E missed \in BOOLEAN :
       hook' = [hook EXCEPT !.phase = "sweep", !.prog = "dead",
                  !.child = IF hook.child = "forking"
                            THEN IF missed /\ Runs THEN "alive" ELSE "gone"
                            ELSE Swept(@)]

(* A deviation: the group is killed once. *)
SecondSweep_None(child) == child

SecondSweep(child) == Swept(child)

(* exited_unreaped, the second killpg, then wait: the pid stays taken until here. *)
Reap ==
  /\ hook.phase = "sweep"
  /\ hook' = [hook EXCEPT !.phase = IF hook.why = "cancel" THEN "back" ELSE "drain",
                          !.prog = "reaped", !.child = SecondSweep(@)]

(* The end of the output, or the grace period that a child still holding the pipe uses up. *)
Drain == hook.phase = "drain" /\ hook' = [hook EXCEPT !.phase = "back"]

Outcome ==
  IF hook.why = "cancel" THEN "cancelled"
  ELSE IF hook.why = "limit" \/ ~hook.ok THEN "failed" ELSE "ran"

WaiterStep(cancelled) == Poll(cancelled) \/ KillGroup \/ Reap \/ Drain

OutsideStep == ProgramStep \/ ChildStep \/ TimePasses
=============================================================================
