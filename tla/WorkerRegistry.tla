--------------------------- MODULE WorkerRegistry ---------------------------
(***************************************************************************)
(* The workers of one process (repo-service/src/worker/registry.rs) and    *)
(* the desktop app's gates beside them (tauri-app/src/commands/mod.rs).    *)
(*                                                                         *)
(* A repository has one worker however many spellings of its path are      *)
(* open, and one gate that lets one call at a time make a round trip to    *)
(* it.  Every access to the registry is atomic under its lock, and so is   *)
(* what happens to the gates (lock order: registry, then gates); but the   *)
(* file system is read before the lock is taken, a worker is spawned       *)
(* between two holds of it, and calls keep their worker and their gate     *)
(* after it.                                                               *)
(***************************************************************************)
EXTENDS Naturals, Functions

CONSTANTS
  Threads,      \* the threads that open repositories and make calls
  Spellings,    \* path strings
  Repos,        \* repository keys
  Nowhere,      \* what a spelling outside every repository names
  MaxWorkers,   \* bound: workers spawned altogether
  MaxGates      \* bound: gates created altogether

ASSUME ReposAssumption == Nowhere \notin Repos
ASSUME BoundsAssumption == MaxWorkers \in Nat /\ MaxGates \in Nat

VARIABLES
  names,             \* the file system: the repository each spelling names
  aliases, workers,  \* the registry: Spellings -> Repos, Repos -> Workers
  gates,             \* AppState.gates: Repos -> 1..MaxGates
  alive,             \* the workers that have not panicked
  spawned, gateCount, \* workers and gates made so far
  pc, job            \* what each thread does

vars == <<names, aliases, workers, gates, alive, spawned, gateCount, pc, job>>
registry == <<aliases, workers, gates>>

Workers == [repo : Repos, n : 1..MaxWorkers]

(* A thread's repository, the path it opens, the worker and gate it holds. *)
Jobs == [path : Spellings, key : Repos, worker : SUBSET Workers, gate : 0..MaxGates]

PCs == {"idle", "lookup", "spawn", "failed", "insert", "gate", "running"}

TypeOK ==
  /\ names \in [Spellings -> Repos \cup {Nowhere}]
  /\ DOMAIN aliases \subseteq Spellings /\ aliases \in [DOMAIN aliases -> Repos]
  /\ DOMAIN workers \subseteq Repos /\ workers \in [DOMAIN workers -> Workers]
  /\ \A k \in DOMAIN workers : workers[k].repo = k
  /\ DOMAIN gates \subseteq Repos /\ gates \in [DOMAIN gates -> 1..MaxGates]
  /\ alive \subseteq Workers
  /\ spawned \in 0..MaxWorkers /\ gateCount \in 0..MaxGates
  /\ pc \in [Threads -> PCs]
  /\ DOMAIN job = {t \in Threads : pc[t] # "idle"}
  /\ job \in [DOMAIN job -> Jobs]

Empty == [x \in {} |-> x]

Init ==
  /\ names \in [Spellings -> Repos \cup {Nowhere}]
  /\ aliases = Empty /\ workers = Empty /\ gates = Empty
  /\ alive = {}
  /\ spawned = 0 /\ gateCount = 0
  /\ pc = [t \in Threads |-> "idle"]
  /\ job = Empty

-----------------------------------------------------------------------------
Put(f, k, v) == [x \in DOMAIN f \cup {k} |-> IF x = k THEN v ELSE f[x]]
Without(f, K) == Restrict(f, DOMAIN f \ K)

Goto(t, to) == pc' = [pc EXCEPT ![t] = to]
Done(t) == Goto(t, "idle") /\ job' = Without(job, {t})

(* A deviation: only a repository that still has its worker is dropped. *)
Unreferenced_IfWorker(k, as) == k \in DOMAIN workers /\ k \notin Range(as)

(* drop_if_unreferenced: no spelling refers to the repository any more,    *)
(* whether its worker is still there or not.                               *)
Unreferenced(k, as) == k \notin Range(as)

(* The worker and, by on_drop, the gate go when the last spelling goes.    *)
Drop(K, ws) ==
  /\ workers' = Without(ws, K)
  /\ gates' = Without(gates, K)

(* record_alias: a spelling that named another repository leaves it. *)
RecordAlias(s, k, ws) ==
  /\ aliases' = Put(aliases, s, k)
  /\ Drop({p \in {aliases[x] : x \in {s} \cap DOMAIN aliases} \ {k} :
             Unreferenced(p, aliases')}, ws)

-----------------------------------------------------------------------------
(* WorkerRegistry::open_with, step by step.                                *)

(* discover reads the file system, before the lock. *)
Discover(t, s) ==
  /\ pc[t] = "idle"
  /\ names[s] # Nowhere
  /\ job' = Put(job, t, [path |-> s, key |-> names[s], worker |-> {}, gate |-> 0])
  /\ Goto(t, "lookup")
  /\ UNCHANGED <<names, registry, alive, spawned, gateCount>>

Reuse(t) ==
  LET k == job[t].key
  IN  /\ pc[t] = "lookup"
      /\ k \in DOMAIN workers /\ workers[k] \in alive
      /\ RecordAlias(job[t].path, k, workers)
      /\ Done(t)
      /\ UNCHANGED <<names, alive, spawned, gateCount>>

(* A worker whose thread has exited is evicted; its gate stays for now. *)
EvictDead(t) ==
  LET k == job[t].key
  IN  /\ pc[t] = "lookup"
      /\ k \in DOMAIN workers => workers[k] \notin alive
      /\ workers' = Without(workers, {k})
      /\ Goto(t, "spawn")
      /\ UNCHANGED <<names, aliases, gates, alive, spawned, gateCount, job>>

(* Worker::spawn, the registry unlocked. *)
Spawn(t) ==
  /\ pc[t] = "spawn"
  /\ spawned < MaxWorkers
  /\ spawned' = spawned + 1
  /\ LET w == [repo |-> job[t].key, n |-> spawned']
     IN  /\ alive' = alive \cup {w}
         /\ job' = [job EXCEPT ![t].worker = {w}]
  /\ Goto(t, "insert")
  /\ UNCHANGED <<names, registry, gateCount>>

SpawnFails(t) ==
  /\ pc[t] = "spawn"
  /\ Goto(t, "failed")
  /\ UNCHANGED <<names, registry, alive, spawned, gateCount, job>>

(* A deviation: the gate is dropped whoever else has opened it meanwhile. *)
Failed_DropsAlways(t) ==
  /\ pc[t] = "failed"
  /\ gates' = Without(gates, {job[t].key})
  /\ Done(t)
  /\ UNCHANGED <<names, aliases, workers, alive, spawned, gateCount>>

(* A deviation: a failed respawn leaves the gate where it was. *)
Failed_KeepsGate(t) ==
  /\ pc[t] = "failed"
  /\ Done(t)
  /\ UNCHANGED <<names, registry, alive, spawned, gateCount>>

Failed(t) ==
  /\ pc[t] = "failed"
  /\ gates' = Without(gates, {job[t].key} \ DOMAIN workers)
  /\ Done(t)
  /\ UNCHANGED <<names, aliases, workers, alive, spawned, gateCount>>

(* A deviation: the newer worker replaces the one another thread put in. *)
Insert_Replaces(t) ==
  /\ pc[t] = "insert"
  /\ \E w \in job[t].worker :
       RecordAlias(job[t].path, job[t].key, Put(workers, job[t].key, w))
  /\ Done(t)
  /\ UNCHANGED <<names, alive, spawned, gateCount>>

(* A worker that another thread has put in meanwhile is preferred. *)
Insert(t) ==
  LET k == job[t].key
  IN  /\ pc[t] = "insert"
      /\ \E w \in job[t].worker :
           RecordAlias(job[t].path, k,
                       IF k \in DOMAIN workers THEN workers ELSE Put(workers, k, w))
      /\ Done(t)
      /\ UNCHANGED <<names, alive, spawned, gateCount>>

(* WorkerRegistry::close_with, forget_repo. *)
Close(s) ==
  /\ s \in DOMAIN aliases
  /\ aliases' = Without(aliases, {s})
  /\ Drop({k \in {aliases[s]} : Unreferenced(k, aliases')}, workers)
  /\ UNCHANGED <<names, alive, spawned, gateCount, pc, job>>

-----------------------------------------------------------------------------
(* Calls.                                                                  *)

(* repo_worker: the handle and the gate, made on first use, in one hold of *)
(* the registry's lock (get_with).                                         *)
Call(t, s) ==
  /\ pc[t] = "idle"
  /\ s \in DOMAIN aliases /\ aliases[s] \in DOMAIN workers
  /\ LET k == aliases[s]
     IN  /\ IF k \in DOMAIN gates
            THEN UNCHANGED <<gates, gateCount>>
            ELSE /\ gateCount < MaxGates
                 /\ gateCount' = gateCount + 1
                 /\ gates' = Put(gates, k, gateCount')
         /\ job' = Put(job, t, [path |-> s, key |-> k, worker |-> {workers[k]},
                                gate |-> gates'[k]])
  /\ Goto(t, "gate")
  /\ UNCHANGED <<names, aliases, workers, alive, spawned>>

(* RepoWorker::call: its turn at the gate lasts as long as the round trip. *)
TakeTurn(t) ==
  /\ pc[t] = "gate"
  /\ \A u \in Threads : pc[u] = "running" => job[u].gate # job[t].gate
  /\ Goto(t, "running")
  /\ UNCHANGED <<names, registry, alive, spawned, gateCount, job>>

(* The worker's answer, or the error that it has stopped. *)
Answer(t) ==
  /\ pc[t] = "running"
  /\ Done(t)
  /\ UNCHANGED <<names, registry, alive, spawned, gateCount>>

(* A command panics. *)
Die(w) ==
  /\ alive' = alive \ {w}
  /\ UNCHANGED <<names, registry, spawned, gateCount, pc, job>>

(* A folder is replaced, removed, or made a repository. *)
Rename(s) ==
  /\ \E k \in Repos \cup {Nowhere} : names' = [names EXCEPT ![s] = k]
  /\ UNCHANGED <<registry, alive, spawned, gateCount, pc, job>>

Open(t) ==
  \/ \E s \in Spellings : Discover(t, s)
  \/ Reuse(t) \/ EvictDead(t) \/ Spawn(t) \/ SpawnFails(t) \/ Failed(t) \/ Insert(t)

Next ==
  \/ \E t \in Threads : Open(t) \/ TakeTurn(t) \/ Answer(t)
  \/ \E t \in Threads, s \in Spellings : Call(t, s)
  \/ \E s \in Spellings : Close(s) \/ Rename(s)
  \/ \E w \in alive : Die(w)

Spec == Init /\ [][Next]_vars

-----------------------------------------------------------------------------
(* Nothing is kept for a repository that no spelling has open: its worker  *)
(* and its gate went with the last one, even while another thread was      *)
(* respawning the worker.                                                  *)
NothingLeaks == DOMAIN workers \cup DOMAIN gates \subseteq Range(aliases)

(* No gate outlives its worker (ARCHITECTURE.md, #223), but for the time   *)
(* in which a thread tries to respawn it.                                  *)
NoGateWithoutWorker ==
  \A k \in DOMAIN gates \ DOMAIN workers :
    \E t \in Threads : pc[t] \in {"spawn", "failed", "insert"} /\ job[t].key = k

Calling(t) == pc[t] \in {"gate", "running"}

(* All calls to one worker wait at one gate, so that no two round trips    *)
(* queue behind each other in it (#181), though gates are dropped and made *)
(* anew while calls hold on to them.                                       *)
SameWorkerSameGate ==
  \A t, u \in Threads :
    (Calling(t) /\ Calling(u) /\ job[t].worker = job[u].worker)
      => job[t].gate = job[u].gate

(* Workers and gates go together: none is kept for what is closed, no gate *)
(* outlives its worker but for a respawn, and all calls to one worker wait *)
(* at one gate (drop_if_unreferenced, open_with, RepoWorker::call).        *)
WorkersAndGatesAgree == NothingLeaks /\ NoGateWithoutWorker /\ SameWorkerSameGate

(* A worker leaves the registry only dead or with the last spelling of its *)
(* repository: no race of two opens replaces one that is in use.           *)
LiveWorkersStay ==
  [][\A k \in DOMAIN workers :
       \/ k \in DOMAIN workers' /\ workers'[k] = workers[k]
       \/ workers[k] \notin alive
       \/ k \notin Range(aliases')]_vars

=============================================================================
