------------------------ MODULE WorkerRegistryProofs ------------------------
(***************************************************************************)
(* Proofs about WorkerRegistry.                                            *)
(***************************************************************************)
EXTENDS WorkerRegistry, TLAPS

Holding(t) == pc[t] \in {"insert", "gate", "running"}

(* A job with a worker has one, made before.  A worker about to be put in  *)
(* is known to nobody else.                                                *)
HandleOK ==
  /\ \A k \in DOMAIN workers : workers[k].n <= spawned
  /\ \A t \in Threads : Holding(t) =>
       \E w \in Workers : job[t].worker = {w} /\ w.repo = job[t].key /\ w.n <= spawned
  /\ \A t \in Threads : pc[t] = "insert" =>
       /\ \A k \in DOMAIN workers : job[t].worker # {workers[k]}
       /\ \A u \in Threads \ {t} : Holding(u) => job[u].worker # job[t].worker

(* A call to a registered worker has its repository's gate. *)
CurrentGate ==
  \A t \in Threads, k \in DOMAIN workers :
    (Calling(t) /\ job[t].worker = {workers[k]}) =>
      k \in DOMAIN gates /\ job[t].gate = gates[k]

IInv ==
  /\ TypeOK /\ HandleOK
  /\ NothingLeaks /\ NoGateWithoutWorker
  /\ CurrentGate /\ SameWorkerSameGate

(* Put and Without change one place of a partial function. *)
LEMMA PutFacts ==
  ASSUME NEW f, NEW k, NEW v
  PROVE  /\ DOMAIN Put(f, k, v) = DOMAIN f \cup {k}
         /\ Put(f, k, v)[k] = v
         /\ \A x \in DOMAIN f \ {k} : Put(f, k, v)[x] = f[x]
BY DEF Put

LEMMA WithoutFacts ==
  ASSUME NEW f, NEW K
  PROVE  /\ DOMAIN Without(f, K) = DOMAIN f \ K
         /\ \A x \in DOMAIN f \ K : Without(f, K)[x] = f[x]
BY DEF Without, Restrict

LEMMA PutType ==
  ASSUME NEW f, NEW k, NEW v, NEW S, f \in [DOMAIN f -> S], v \in S
  PROVE  Put(f, k, v) \in [DOMAIN Put(f, k, v) -> S]
BY DEF Put

LEMMA WithoutType ==
  ASSUME NEW f, NEW K, NEW S, f \in [DOMAIN f -> S]
  PROVE  Without(f, K) \in [DOMAIN Without(f, K) -> S]
BY DEF Without, Restrict

(* What is dropped has no spelling; what is kept still has one. *)
LEMMA RecordAliasFacts ==
  ASSUME NEW s \in Spellings, NEW k \in Repos, NEW ws, RecordAlias(s, k, ws)
  PROVE  \E K : /\ Drop(K, ws)
                /\ k \notin K /\ k \in Range(aliases')
                /\ \A p \in K : p \notin Range(aliases')
                /\ Range(aliases) \ K \subseteq Range(aliases')
                /\ aliases' = Put(aliases, s, k)
<1> DEFINE K == {p \in {aliases[x] : x \in {s} \cap DOMAIN aliases} \ {k} :
                   Unreferenced(p, aliases')}
<1>1. Drop(K, ws) /\ aliases' = Put(aliases, s, k)
  BY DEF RecordAlias
<1>2. DOMAIN aliases' = DOMAIN aliases \cup {s} /\ aliases'[s] = k
      /\ \A x \in DOMAIN aliases \ {s} : aliases'[x] = aliases[x]
  <2> HIDE DEF K
  <2> QED
    BY <1>1 DEF Put
<1>3. k \in Range(aliases')
  BY <1>2 DEF Range
<1>4. \A p \in K : p \notin Range(aliases')
  BY DEF Unreferenced
<1>5. ASSUME NEW p \in Range(aliases), p \notin K PROVE p \in Range(aliases')
  <2>1. PICK x \in DOMAIN aliases : aliases[x] = p
    BY DEF Range
  <2>2. CASE x # s
    BY <2>1, <2>2, <1>2 DEF Range
  <2>3. CASE x = s
    <3>1. p = k \/ ~Unreferenced(p, aliases')
      BY <2>1, <2>3, <1>5
    <3> QED
      BY <3>1, <1>3 DEF Unreferenced
  <2> QED
    BY <2>2, <2>3
<1> QED
  BY <1>1, <1>3, <1>4, <1>5

(* The registry loses workers and gates only together, and changes none.   *)
Shrinks ==
  /\ DOMAIN workers' \subseteq DOMAIN workers
  /\ \A k \in DOMAIN workers' : workers'[k] = workers[k]
  /\ \A k \in DOMAIN workers' \cap DOMAIN gates : k \in DOMAIN gates' /\ gates'[k] = gates[k]

(* Nobody gets a worker or a gate that it did not have. *)
NoNewHolder ==
  \A u \in Threads : Holding(u)' =>
    /\ Holding(u) /\ job'[u] = job[u]
    /\ Calling(u)' => Calling(u)
    /\ pc'[u] = "insert" => pc[u] = "insert"

(* Such steps keep everything that is said of calls. *)
LEMMA CallsKept ==
  ASSUME IInv, Shrinks, NoNewHolder, spawned' = spawned
  PROVE  HandleOK' /\ CurrentGate' /\ SameWorkerSameGate'
<1>1. HandleOK'
  <2>1. \A k \in DOMAIN workers' : workers'[k].n <= spawned'
    BY DEF IInv, HandleOK, Shrinks
  <2>2. \A t \in Threads : Holding(t)' =>
          \E w \in Workers : job'[t].worker = {w} /\ w.repo = job'[t].key /\ w.n <= spawned'
    BY DEF IInv, HandleOK, NoNewHolder
  <2>3. ASSUME NEW t \in Threads, pc'[t] = "insert"
        PROVE  /\ \A k \in DOMAIN workers' : job'[t].worker # {workers'[k]}
               /\ \A u \in Threads \ {t} : Holding(u)' => job'[u].worker # job'[t].worker
    <3>1. pc[t] = "insert" /\ job'[t] = job[t]
      BY <2>3 DEF NoNewHolder, Holding
    <3>2. \A k \in DOMAIN workers' : job'[t].worker # {workers'[k]}
      BY <3>1 DEF IInv, HandleOK, Shrinks
    <3>3. \A u \in Threads \ {t} : Holding(u)' => job'[u].worker # job'[t].worker
      BY <3>1 DEF IInv, HandleOK, NoNewHolder
    <3> QED
      BY <3>2, <3>3
  <2> QED
    BY <2>1, <2>2, <2>3 DEF HandleOK
<1>2. CurrentGate'
  <2> SUFFICES ASSUME NEW t \in Threads, NEW k \in DOMAIN workers',
                      Calling(t)', job'[t].worker = {workers'[k]}
               PROVE  k \in DOMAIN gates' /\ job'[t].gate = gates'[k]
    BY DEF CurrentGate
  <2>1. Calling(t) /\ job'[t] = job[t]
    BY DEF NoNewHolder, Calling, Holding
  <2>2. k \in DOMAIN gates /\ job[t].gate = gates[k]
    BY <2>1 DEF IInv, CurrentGate, Shrinks
  <2> QED
    BY <2>1, <2>2 DEF Shrinks
<1>3. SameWorkerSameGate'
  <2> SUFFICES ASSUME NEW t \in Threads, NEW u \in Threads,
                      Calling(t)', Calling(u)', job'[t].worker = job'[u].worker
               PROVE  job'[t].gate = job'[u].gate
    BY DEF SameWorkerSameGate
  <2>1. Calling(t) /\ Calling(u) /\ job'[t] = job[t] /\ job'[u] = job[u]
    BY DEF NoNewHolder, Calling, Holding
  <2> QED
    BY <2>1 DEF IInv, SameWorkerSameGate
<1> QED
  BY <1>1, <1>2, <1>3

(* A thread that is done holds nothing; the others are as they were. *)
LEMMA DoneKeeps ==
  ASSUME TypeOK, NEW t \in Threads, Done(t)
  PROVE  /\ NoNewHolder
         /\ pc' \in [Threads -> PCs] /\ pc'[t] = "idle"
         /\ \A u \in Threads \ {t} : pc'[u] = pc[u] /\ (pc[u] # "idle" => job'[u] = job[u])
         /\ DOMAIN job' = {u \in Threads : pc'[u] # "idle"}
         /\ job' \in [DOMAIN job' -> Jobs]
<1>1. pc' = [pc EXCEPT ![t] = "idle"] /\ pc \in [Threads -> PCs]
  BY DEF Done, Goto, TypeOK
<1>2. pc' \in [Threads -> PCs] /\ pc'[t] = "idle" /\ \A u \in Threads \ {t} : pc'[u] = pc[u]
  BY <1>1 DEF PCs
<1>3. job' = [u \in DOMAIN job \ {t} |-> job[u]]
  BY DEF Done, Without, Restrict
<1>4. DOMAIN job = {u \in Threads : pc[u] # "idle"} /\ job \in [DOMAIN job -> Jobs]
  BY DEF TypeOK
<1>5. DOMAIN job' = {u \in Threads : pc'[u] # "idle"}
  BY <1>2, <1>3, <1>4
<1>6. job' \in [DOMAIN job' -> Jobs]
  BY <1>3, <1>4
<1>7. \A u \in Threads \ {t} : pc[u] # "idle" => job'[u] = job[u]
  BY <1>3, <1>4
<1>8. NoNewHolder
  BY <1>2, <1>7 DEF NoNewHolder, Holding, Calling
<1> QED
  BY <1>2, <1>5, <1>6, <1>7, <1>8

(* A thread that goes on to a step where it holds nothing new. *)
LEMMA GotoKeeps ==
  ASSUME TypeOK, NEW t \in Threads, NEW to \in PCs, Goto(t, to), UNCHANGED job,
         pc[t] # "idle", to # "idle", to # "insert",
         to \in {"gate", "running"} => Calling(t)
  PROVE  /\ NoNewHolder
         /\ pc' \in [Threads -> PCs] /\ pc'[t] = to
         /\ \A u \in Threads \ {t} : pc'[u] = pc[u]
         /\ DOMAIN job' = {u \in Threads : pc'[u] # "idle"}
         /\ job' \in [DOMAIN job' -> Jobs]
<1>1. pc' = [pc EXCEPT ![t] = to] /\ pc \in [Threads -> PCs]
  BY DEF Goto, TypeOK
<1>2. pc' \in [Threads -> PCs] /\ pc'[t] = to /\ \A u \in Threads \ {t} : pc'[u] = pc[u]
  BY <1>1
<1>3. DOMAIN job' = {u \in Threads : pc'[u] # "idle"} /\ job' \in [DOMAIN job' -> Jobs]
  BY <1>2 DEF TypeOK
<1>4. NoNewHolder
  BY <1>2 DEF NoNewHolder, Holding, Calling
<1> QED
  BY <1>2, <1>3, <1>4

(* The registry's part of TypeOK. *)
RegistryTypeOK ==
  /\ DOMAIN aliases \subseteq Spellings /\ aliases \in [DOMAIN aliases -> Repos]
  /\ DOMAIN workers \subseteq Repos /\ workers \in [DOMAIN workers -> Workers]
  /\ \A k \in DOMAIN workers : workers[k].repo = k
  /\ DOMAIN gates \subseteq Repos /\ gates \in [DOMAIN gates -> 1..MaxGates]

(* record_alias on a registry that is well typed. *)
LEMMA AliasType ==
  ASSUME TypeOK, NEW s \in Spellings, NEW k \in Repos, NEW ws, RecordAlias(s, k, ws),
         DOMAIN ws \subseteq Repos, ws \in [DOMAIN ws -> Workers],
         \A x \in DOMAIN ws : ws[x].repo = x
  PROVE  RegistryTypeOK'
<1>1. PICK K : Drop(K, ws) /\ aliases' = Put(aliases, s, k)
  BY RecordAliasFacts
<1>2. DOMAIN aliases' \subseteq Spellings /\ aliases' \in [DOMAIN aliases' -> Repos]
  BY <1>1 DEF Put, TypeOK
<1>3. DOMAIN workers' \subseteq Repos /\ workers' \in [DOMAIN workers' -> Workers]
  BY <1>1 DEF Drop, Without, Restrict
<1>4. \A x \in DOMAIN workers' : workers'[x].repo = x
  BY <1>1 DEF Drop, Without, Restrict
<1>5. DOMAIN gates' \subseteq Repos /\ gates' \in [DOMAIN gates' -> 1..MaxGates]
  BY <1>1 DEF TypeOK, Drop, Without, Restrict
<1> QED
  BY <1>2, <1>3, <1>4, <1>5 DEF RegistryTypeOK

LEMMA RegistryInit == Init => IInv
<1> SUFFICES ASSUME Init PROVE IInv
    OBVIOUS
<1>1. TypeOK
  BY BoundsAssumption DEF Init, Empty, TypeOK, PCs
<1>2. HandleOK /\ CurrentGate /\ SameWorkerSameGate
  BY DEF Init, Empty, HandleOK, CurrentGate, SameWorkerSameGate, Holding, Calling
<1>3. NothingLeaks /\ NoGateWithoutWorker
  BY DEF Init, Empty, NothingLeaks, NoGateWithoutWorker
<1> QED
  BY <1>1, <1>2, <1>3 DEF IInv

(* A step that leaves the registry and the gates alone, of a thread that   *)
(* was not opening.                                                        *)
LEMMA RegistryKept ==
  ASSUME IInv, UNCHANGED registry,
         \A u \in Threads : pc[u] \in {"spawn", "failed", "insert"} =>
           pc'[u] \in {"spawn", "failed", "insert"} /\ job'[u].key = job[u].key
  PROVE  NothingLeaks' /\ NoGateWithoutWorker' /\ Shrinks
<1> USE DEF registry
<1>1. NothingLeaks'
  BY DEF IInv, NothingLeaks, Range
<1>2. NoGateWithoutWorker'
  BY DEF IInv, NoGateWithoutWorker
<1>3. Shrinks
  BY DEF Shrinks
<1> QED
  BY <1>1, <1>2, <1>3

LEMMA DiscoverStep ==
  ASSUME IInv, NEW t \in Threads, NEW s \in Spellings, Discover(t, s)
  PROVE  IInv'
<1> DEFINE j == [path |-> s, key |-> names[s], worker |-> {}, gate |-> 0]
<1>1. pc' = [pc EXCEPT ![t] = "lookup"] /\ pc \in [Threads -> PCs] /\ pc[t] = "idle"
  BY DEF Discover, Goto, IInv, TypeOK
<1>2. DOMAIN job = {u \in Threads : pc[u] # "idle"} /\ job \in [DOMAIN job -> Jobs]
  BY DEF IInv, TypeOK
<1>3. j \in Jobs
  BY BoundsAssumption DEF Discover, IInv, TypeOK, Jobs
<1>4. job' = [u \in DOMAIN job \cup {t} |-> IF u = t THEN j ELSE job[u]]
  BY DEF Discover, Put
<1>5. DOMAIN job' = {u \in Threads : pc'[u] # "idle"} /\ job' \in [DOMAIN job' -> Jobs]
  <2> HIDE DEF j
  <2> QED
    BY <1>1, <1>2, <1>3, <1>4
<1>6. \A u \in Threads \ {t} : pc'[u] = pc[u] /\ (pc[u] # "idle" => job'[u] = job[u])
  BY <1>1, <1>2, <1>4
<1>7. NoNewHolder
  BY <1>1, <1>6 DEF NoNewHolder, Holding, Calling
<1>8. TypeOK'
  BY <1>1, <1>5 DEF Discover, registry, IInv, TypeOK, PCs
<1>9. NothingLeaks' /\ NoGateWithoutWorker' /\ Shrinks
  BY <1>1, <1>6, RegistryKept DEF Discover
<1> QED
  BY <1>7, <1>8, <1>9, CallsKept DEF Discover, IInv

(* An open that finds a worker in the registry. *)
LEMMA AliasStep ==
  ASSUME IInv, NEW t \in Threads, pc[t] \in {"lookup", "insert"},
         job[t].key \in DOMAIN workers,
         RecordAlias(job[t].path, job[t].key, workers), Done(t),
         UNCHANGED <<names, alive, spawned, gateCount>>
  PROVE  IInv'
<1> DEFINE k == job[t].key
           s == job[t].path
<1>1. s \in Spellings /\ k \in Repos
  BY DEF IInv, TypeOK, Jobs
<1>2. RecordAlias(s, k, workers) /\ Done(t) /\ pc[t] \in {"lookup", "insert"} /\ k \in DOMAIN workers
      /\ UNCHANGED <<names, alive, spawned, gateCount>>
  OBVIOUS
<1>3. PICK K : /\ Drop(K, workers)
               /\ k \notin K /\ k \in Range(aliases')
               /\ \A p \in K : p \notin Range(aliases')
               /\ Range(aliases) \ K \subseteq Range(aliases')
  <2> HIDE DEF k, s
  <2> QED
    BY <1>1, <1>2, RecordAliasFacts
<1>4. RegistryTypeOK'
  <2> HIDE DEF k, s
  <2> QED
    BY <1>1, <1>2, AliasType DEF IInv, TypeOK
<1>10. k = job[t].key
  OBVIOUS
<1> HIDE DEF k, s
<1>5. TypeOK
  BY DEF IInv
<1>6. TypeOK'
  BY <1>2, <1>4, <1>5, DoneKeeps DEF TypeOK, RegistryTypeOK
<1>7. Shrinks
  BY <1>3 DEF Shrinks, Drop, Without, Restrict
<1>8. NothingLeaks'
  BY <1>3 DEF IInv, NothingLeaks, Drop, Without, Restrict
<1>9. NoGateWithoutWorker'
  <2> SUFFICES ASSUME NEW p \in DOMAIN gates' \ DOMAIN workers'
               PROVE  \E u \in Threads :
                        pc'[u] \in {"spawn", "failed", "insert"} /\ job'[u].key = p
    BY DEF NoGateWithoutWorker
  <2>1. p \in DOMAIN gates \ DOMAIN workers
    BY <1>3 DEF Drop, Without, Restrict
  <2>2. PICK u \in Threads : pc[u] \in {"spawn", "failed", "insert"} /\ job[u].key = p
    BY <2>1 DEF IInv, NoGateWithoutWorker
  <2>3. u # t
    BY <2>1, <2>2, <1>2, <1>10
  <2> QED
    BY <2>2, <2>3, <1>2, <1>5, DoneKeeps
<1> QED
  BY <1>2, <1>5, <1>6, <1>7, <1>8, <1>9, CallsKept, DoneKeeps DEF IInv

LEMMA EvictStep ==
  ASSUME IInv, NEW t \in Threads, EvictDead(t)
  PROVE  IInv'
<1>1. /\ pc[t] = "lookup" /\ Goto(t, "spawn")
      /\ workers' = [x \in DOMAIN workers \ {job[t].key} |-> workers[x]]
      /\ UNCHANGED <<names, aliases, gates, alive, spawned, gateCount, job>>
  BY DEF EvictDead, Without, Restrict
<1>2. TypeOK
  BY DEF IInv
<1>3. /\ NoNewHolder
      /\ pc' \in [Threads -> PCs] /\ pc'[t] = "spawn"
      /\ \A u \in Threads \ {t} : pc'[u] = pc[u]
      /\ DOMAIN job' = {u \in Threads : pc'[u] # "idle"}
      /\ job' \in [DOMAIN job' -> Jobs]
  BY <1>1, <1>2, GotoKeeps DEF PCs
<1>4. TypeOK'
  BY <1>1, <1>2, <1>3 DEF TypeOK
<1>5. Shrinks
  BY <1>1 DEF Shrinks
<1>6. NothingLeaks'
  BY <1>1 DEF IInv, NothingLeaks, Range
<1>7. NoGateWithoutWorker'
  <2> SUFFICES ASSUME NEW p \in DOMAIN gates' \ DOMAIN workers'
               PROVE  \E u \in Threads :
                        pc'[u] \in {"spawn", "failed", "insert"} /\ job'[u].key = p
    BY DEF NoGateWithoutWorker
  <2>1. CASE p = job[t].key
    BY <2>1, <1>1, <1>3
  <2>2. CASE p # job[t].key
    <3>1. p \in DOMAIN gates \ DOMAIN workers
      BY <2>2, <1>1
    <3>2. PICK u \in Threads : pc[u] \in {"spawn", "failed", "insert"} /\ job[u].key = p
      BY <3>1 DEF IInv, NoGateWithoutWorker
    <3> QED
      BY <3>2, <1>1, <1>3
  <2> QED
    BY <2>1, <2>2
<1> QED
  BY <1>1, <1>3, <1>4, <1>5, <1>6, <1>7, CallsKept DEF IInv

(* A new worker is known to its maker only. *)
LEMMA SpawnStep ==
  ASSUME IInv, NEW t \in Threads, Spawn(t)
  PROVE  IInv'
<1> DEFINE w == [repo |-> job[t].key, n |-> spawned + 1]
<1>1. /\ pc[t] = "spawn" /\ pc' = [pc EXCEPT ![t] = "insert"]
      /\ spawned < MaxWorkers /\ spawned' = spawned + 1
      /\ alive' = alive \cup {w}
      /\ job' = [job EXCEPT ![t].worker = {w}]
      /\ UNCHANGED <<names, registry, gateCount>>
  BY DEF Spawn, Goto
<1>2. TypeOK /\ HandleOK
  BY DEF IInv
<1>3. t \in DOMAIN job /\ job[t] \in Jobs /\ DOMAIN job' = DOMAIN job
  BY <1>1, <1>2 DEF TypeOK
<1>4. w \in Workers /\ w.n = spawned + 1 /\ w.repo = job[t].key
  BY <1>1, <1>2, <1>3, BoundsAssumption DEF TypeOK, Workers, Jobs
<1> HIDE DEF w
<1>5. job'[t] = [job[t] EXCEPT !.worker = {w}] /\ \A u \in DOMAIN job \ {t} : job'[u] = job[u]
  BY <1>1, <1>3
<1>6. job'[t] \in Jobs /\ job'[t].worker = {w} /\ job'[t].key = job[t].key
  BY <1>3, <1>4, <1>5 DEF Jobs
<1>7. pc' \in [Threads -> PCs] /\ pc'[t] = "insert" /\ \A u \in Threads \ {t} : pc'[u] = pc[u]
  BY <1>1, <1>2 DEF TypeOK, PCs
<1>8. DOMAIN job' = {u \in Threads : pc'[u] # "idle"}
  BY <1>1, <1>2, <1>3, <1>7 DEF TypeOK
<1>9. job' \in [DOMAIN job' -> Jobs]
  <2>1. \A u \in DOMAIN job' : job'[u] \in Jobs
    BY <1>2, <1>3, <1>5, <1>6 DEF TypeOK
  <2>2. job' = [u \in DOMAIN job' |-> job'[u]]
    BY <1>1
  <2> QED
    BY <2>1, <2>2
<1>10. TypeOK'
  BY <1>1, <1>2, <1>4, <1>7, <1>8, <1>9, BoundsAssumption DEF TypeOK, registry
<1>11. \A u \in Threads \ {t} : Holding(u)' => Holding(u) /\ job'[u] = job[u]
  BY <1>2, <1>5, <1>7 DEF Holding, TypeOK
<1>12. \A x \in Workers : x.n <= spawned => x # w
  BY <1>2, <1>4 DEF TypeOK, Workers
<1>13. spawned \in Nat
  BY <1>2, BoundsAssumption DEF TypeOK
<1>14. HandleOK'
  <2>1. \A k \in DOMAIN workers' : workers'[k].n <= spawned'
    BY <1>1, <1>2, <1>13 DEF HandleOK, TypeOK, registry, Workers
  <2>2. ASSUME NEW u \in Threads, Holding(u)'
        PROVE  \E x \in Workers : job'[u].worker = {x} /\ x.repo = job'[u].key /\ x.n <= spawned'
    <3>1. CASE u = t
      BY <3>1, <1>1, <1>4, <1>6, <1>13
    <3>2. CASE u # t
      <4>1. PICK x \in Workers : job[u].worker = {x} /\ x.repo = job[u].key /\ x.n <= spawned
        BY <3>2, <2>2, <1>2, <1>11 DEF HandleOK
      <4> QED
        BY <4>1, <3>2, <2>2, <1>1, <1>11, <1>13 DEF Workers
    <3> QED
      BY <3>1, <3>2
  <2>3. ASSUME NEW u \in Threads, pc'[u] = "insert"
        PROVE  /\ \A k \in DOMAIN workers' : job'[u].worker # {workers'[k]}
               /\ \A v \in Threads \ {u} : Holding(v)' => job'[v].worker # job'[u].worker
    <3>1. CASE u = t
      <4>1. \A k \in DOMAIN workers : workers[k] \in Workers /\ workers[k].n <= spawned
        BY <1>2 DEF HandleOK, TypeOK
      <4>2. \A k \in DOMAIN workers' : job'[u].worker # {workers'[k]}
        BY <4>1, <3>1, <1>1, <1>6, <1>12 DEF registry
      <4>3. ASSUME NEW v \in Threads \ {u}, Holding(v)' PROVE job'[v].worker # job'[u].worker
        <5>1. PICK x \in Workers : job[v].worker = {x} /\ x.n <= spawned
          BY <4>3, <3>1, <1>2, <1>11 DEF HandleOK
        <5> QED
          BY <5>1, <4>3, <3>1, <1>6, <1>11, <1>12
      <4> QED
        BY <4>2, <4>3
    <3>2. CASE u # t
      <4>1. pc[u] = "insert" /\ Holding(u) /\ job'[u] = job[u]
        BY <3>2, <2>3, <1>7, <1>11 DEF Holding
      <4>2. \A k \in DOMAIN workers' : job'[u].worker # {workers'[k]}
        BY <4>1, <1>1, <1>2 DEF HandleOK, registry
      <4>3. ASSUME NEW v \in Threads \ {u}, Holding(v)' PROVE job'[v].worker # job'[u].worker
        <5>1. CASE v = t
          <6>1. PICK x \in Workers : job[u].worker = {x} /\ x.n <= spawned
            BY <4>1, <1>2 DEF HandleOK
          <6> QED
            BY <6>1, <5>1, <4>1, <1>6, <1>12
        <5>2. CASE v # t
          BY <5>2, <4>1, <4>3, <1>2, <1>11 DEF HandleOK
        <5> QED
          BY <5>1, <5>2
      <4> QED
        BY <4>2, <4>3
    <3> QED
      BY <3>1, <3>2
  <2> QED
    BY <2>1, <2>2, <2>3 DEF HandleOK
<1>15. \A u \in Threads : Calling(u)' => Calling(u) /\ job'[u] = job[u]
  BY <1>7, <1>11 DEF Calling, Holding
<1>16. CurrentGate' /\ SameWorkerSameGate'
  <2>1. CurrentGate /\ SameWorkerSameGate /\ workers' = workers /\ gates' = gates
    BY <1>1 DEF IInv, registry
  <2>2. CurrentGate'
    BY <2>1, <1>15 DEF CurrentGate
  <2>3. SameWorkerSameGate'
    BY <2>1, <1>15 DEF SameWorkerSameGate
  <2> QED
    BY <2>2, <2>3
<1>17. \A u \in Threads : pc[u] \in {"spawn", "failed", "insert"} =>
         pc'[u] \in {"spawn", "failed", "insert"} /\ job'[u].key = job[u].key
  BY <1>2, <1>5, <1>6, <1>7 DEF TypeOK
<1>18. NothingLeaks' /\ NoGateWithoutWorker'
  BY <1>1, <1>17, RegistryKept
<1> QED
  BY <1>10, <1>14, <1>16, <1>18 DEF IInv

LEMMA SpawnFailsStep ==
  ASSUME IInv, NEW t \in Threads, SpawnFails(t)
  PROVE  IInv'
<1>1. /\ pc[t] = "spawn" /\ Goto(t, "failed")
      /\ UNCHANGED <<names, registry, alive, spawned, gateCount, job>>
  BY DEF SpawnFails
<1>2. TypeOK
  BY DEF IInv
<1>3. /\ NoNewHolder
      /\ pc' \in [Threads -> PCs] /\ pc'[t] = "failed"
      /\ \A u \in Threads \ {t} : pc'[u] = pc[u]
      /\ DOMAIN job' = {u \in Threads : pc'[u] # "idle"}
      /\ job' \in [DOMAIN job' -> Jobs]
  BY <1>1, <1>2, GotoKeeps DEF PCs
<1>4. TypeOK'
  BY <1>1, <1>2, <1>3 DEF TypeOK, registry
<1>5. NothingLeaks' /\ NoGateWithoutWorker' /\ Shrinks
  BY <1>1, <1>3, RegistryKept
<1> QED
  BY <1>1, <1>3, <1>4, <1>5, CallsKept DEF IInv

(* The repository's gate goes unless another thread has put a worker in. *)
LEMMA FailedStep ==
  ASSUME IInv, NEW t \in Threads, Failed(t)
  PROVE  IInv'
<1>1. /\ pc[t] = "failed" /\ Done(t)
      /\ gates' = [x \in DOMAIN gates \ ({job[t].key} \ DOMAIN workers) |-> gates[x]]
      /\ UNCHANGED <<names, aliases, workers, alive, spawned, gateCount>>
  BY DEF Failed, Without, Restrict
<1>2. TypeOK
  BY DEF IInv
<1>3. TypeOK'
  BY <1>1, <1>2, DoneKeeps DEF TypeOK
<1>4. Shrinks
  BY <1>1 DEF Shrinks
<1>5. NothingLeaks'
  BY <1>1 DEF IInv, NothingLeaks, Range
<1>6. NoGateWithoutWorker'
  <2> SUFFICES ASSUME NEW p \in DOMAIN gates' \ DOMAIN workers'
               PROVE  \E u \in Threads :
                        pc'[u] \in {"spawn", "failed", "insert"} /\ job'[u].key = p
    BY DEF NoGateWithoutWorker
  <2>1. p \in DOMAIN gates \ DOMAIN workers /\ p # job[t].key
    BY <1>1
  <2>2. PICK u \in Threads : pc[u] \in {"spawn", "failed", "insert"} /\ job[u].key = p
    BY <2>1 DEF IInv, NoGateWithoutWorker
  <2>3. u # t
    BY <2>1, <2>2
  <2> QED
    BY <2>2, <2>3, <1>1, <1>2, DoneKeeps
<1> QED
  BY <1>1, <1>2, <1>3, <1>4, <1>5, <1>6, CallsKept, DoneKeeps DEF IInv

LEMMA CloseStep ==
  ASSUME IInv, NEW s \in Spellings, Close(s)
  PROVE  IInv'
<1> DEFINE K == {k \in {aliases[s]} : Unreferenced(k, aliases')}
<1>1. /\ s \in DOMAIN aliases
      /\ aliases' = [x \in DOMAIN aliases \ {s} |-> aliases[x]]
      /\ workers' = [k \in DOMAIN workers \ K |-> workers[k]]
      /\ gates' = [k \in DOMAIN gates \ K |-> gates[k]]
      /\ UNCHANGED <<names, alive, spawned, gateCount, pc, job>>
  BY DEF Close, Drop, Without, Restrict
<1>2. ASSUME NEW k \in Range(aliases), k \notin K PROVE k \in Range(aliases')
  <2>1. PICK x \in DOMAIN aliases : aliases[x] = k
    BY DEF Range
  <2>2. CASE x = s
    BY <2>1, <2>2, <1>2 DEF Unreferenced
  <2>3. CASE x # s
    BY <2>1, <2>3, <1>1 DEF Range
  <2> QED
    BY <2>2, <2>3
<1>3. \A k \in K : k \notin Range(aliases')
  BY DEF Unreferenced
<1> HIDE DEF K
<1>4. TypeOK'
  <2>1. TypeOK
    BY DEF IInv
  <2>2. aliases' \in [DOMAIN aliases' -> Repos] /\ DOMAIN aliases' \subseteq Spellings
    BY <2>1, <1>1 DEF TypeOK
  <2>3. /\ DOMAIN workers' \subseteq Repos /\ workers' \in [DOMAIN workers' -> Workers]
        /\ \A k \in DOMAIN workers' : workers'[k].repo = k
        /\ DOMAIN gates' \subseteq Repos /\ gates' \in [DOMAIN gates' -> 1..MaxGates]
    BY <2>1, <1>1 DEF TypeOK
  <2> QED
    BY <2>1, <2>2, <2>3, <1>1 DEF TypeOK
<1>5. Shrinks
  BY <1>1 DEF Shrinks
<1>6. NoNewHolder
  BY <1>1 DEF NoNewHolder, Holding, Calling
<1>7. NothingLeaks'
  BY <1>1, <1>2 DEF IInv, NothingLeaks
<1>8. NoGateWithoutWorker'
  BY <1>1 DEF IInv, NoGateWithoutWorker
<1> QED
  BY <1>1, <1>4, <1>5, <1>6, <1>7, <1>8, CallsKept DEF IInv

LEMMA TakeTurnStep ==
  ASSUME IInv, NEW t \in Threads, TakeTurn(t)
  PROVE  IInv'
<1>1. /\ pc[t] = "gate" /\ Goto(t, "running")
      /\ UNCHANGED <<names, registry, alive, spawned, gateCount, job>>
  BY DEF TakeTurn
<1>2. TypeOK
  BY DEF IInv
<1>3. /\ NoNewHolder
      /\ pc' \in [Threads -> PCs] /\ pc'[t] = "running"
      /\ \A u \in Threads \ {t} : pc'[u] = pc[u]
      /\ DOMAIN job' = {u \in Threads : pc'[u] # "idle"}
      /\ job' \in [DOMAIN job' -> Jobs]
  BY <1>1, <1>2, GotoKeeps DEF PCs, Calling
<1>4. TypeOK'
  BY <1>1, <1>2, <1>3 DEF TypeOK, registry
<1>5. NothingLeaks' /\ NoGateWithoutWorker' /\ Shrinks
  BY <1>1, <1>3, RegistryKept
<1> QED
  BY <1>1, <1>3, <1>4, <1>5, CallsKept DEF IInv

LEMMA AnswerStep ==
  ASSUME IInv, NEW t \in Threads, Answer(t)
  PROVE  IInv'
<1>1. /\ pc[t] = "running" /\ Done(t)
      /\ UNCHANGED <<names, registry, alive, spawned, gateCount>>
  BY DEF Answer
<1>2. TypeOK
  BY DEF IInv
<1>3. TypeOK'
  BY <1>1, <1>2, DoneKeeps DEF TypeOK, registry
<1>4. \A u \in Threads : pc[u] \in {"spawn", "failed", "insert"} =>
        pc'[u] \in {"spawn", "failed", "insert"} /\ job'[u].key = job[u].key
  BY <1>1, <1>2, DoneKeeps
<1>5. NothingLeaks' /\ NoGateWithoutWorker' /\ Shrinks
  BY <1>1, <1>4, RegistryKept
<1> QED
  BY <1>1, <1>2, <1>3, <1>5, CallsKept, DoneKeeps DEF IInv

(* A worker that dies, a folder that is renamed, a stuttering step. *)
LEMMA OutsideStep ==
  ASSUME IInv, UNCHANGED <<registry, spawned, gateCount, pc, job>>,
         alive' \subseteq alive, names' \in [Spellings -> Repos \cup {Nowhere}]
  PROVE  IInv'
<1>1. TypeOK'
  BY DEF IInv, TypeOK, registry
<1>2. NoNewHolder
  BY DEF NoNewHolder, Holding, Calling
<1>3. NothingLeaks' /\ NoGateWithoutWorker' /\ Shrinks
  BY RegistryKept
<1> QED
  BY <1>1, <1>2, <1>3, CallsKept DEF IInv

(* The new worker: nobody holds it, and its repository had none. *)
LEMMA InsertNewStep ==
  ASSUME IInv, NEW t \in Threads, pc[t] = "insert", job[t].key \notin DOMAIN workers,
         NEW w \in job[t].worker,
         RecordAlias(job[t].path, job[t].key, Put(workers, job[t].key, w)), Done(t),
         UNCHANGED <<names, alive, spawned, gateCount>>
  PROVE  IInv'
<1> DEFINE k == job[t].key
           s == job[t].path
           ws == Put(workers, k, w)
<1>1. s \in Spellings /\ k \in Repos /\ k = job[t].key
  BY DEF IInv, TypeOK, Jobs
<1>2. TypeOK /\ HandleOK
  BY DEF IInv
<1>3. job[t].worker = {w} /\ w \in Workers /\ w.repo = k /\ w.n <= spawned
  BY <1>2 DEF HandleOK, Holding
<1>4. ws = [x \in DOMAIN workers \cup {k} |-> IF x = k THEN w ELSE workers[x]]
  BY DEF Put
<1>5. k \notin DOMAIN workers /\ RecordAlias(s, k, ws)
  OBVIOUS
<1> HIDE DEF k, s, ws
<1>6. PICK K : /\ Drop(K, ws)
               /\ k \notin K /\ k \in Range(aliases')
               /\ \A p \in K : p \notin Range(aliases')
               /\ Range(aliases) \ K \subseteq Range(aliases')
  BY <1>1, <1>5, RecordAliasFacts
<1>7. /\ workers' = [x \in (DOMAIN workers \cup {k}) \ K |-> IF x = k THEN w ELSE workers[x]]
      /\ gates' = [x \in DOMAIN gates \ K |-> gates[x]]
  BY <1>4, <1>6 DEF Drop, Without, Restrict
<1>8. DOMAIN ws \subseteq Repos /\ ws \in [DOMAIN ws -> Workers] /\ \A x \in DOMAIN ws : ws[x].repo = x
  BY <1>1, <1>2, <1>3, <1>4 DEF TypeOK
<1>9. RegistryTypeOK'
  BY <1>1, <1>2, <1>5, <1>8, AliasType
<1>10. TypeOK'
  BY <1>2, <1>9, DoneKeeps DEF TypeOK, RegistryTypeOK
<1>11. NoNewHolder /\ \A u \in Threads : Holding(u)' => u # t
  BY <1>2, DoneKeeps DEF Holding
<1>12. \A u \in Threads : Holding(u)' => job'[u] = job[u] /\ job[u].worker # {w}
  <2>1. \A u \in Threads \ {t} : Holding(u) => job[u].worker # job[t].worker
    BY <1>2 DEF HandleOK
  <2> QED
    BY <2>1, <1>3, <1>11 DEF NoNewHolder
<1>13. HandleOK'
  <2>1. \A x \in DOMAIN workers' : workers'[x].n <= spawned'
    BY <1>2, <1>3, <1>7 DEF HandleOK
  <2>2. \A u \in Threads : Holding(u)' =>
          \E x \in Workers : job'[u].worker = {x} /\ x.repo = job'[u].key /\ x.n <= spawned'
    BY <1>2, <1>11 DEF HandleOK, NoNewHolder
  <2>3. ASSUME NEW u \in Threads, pc'[u] = "insert"
        PROVE  /\ \A x \in DOMAIN workers' : job'[u].worker # {workers'[x]}
               /\ \A v \in Threads \ {u} : Holding(v)' => job'[v].worker # job'[u].worker
    <3>1. pc[u] = "insert" /\ Holding(u)' /\ job'[u] = job[u] /\ job[u].worker # {w}
      BY <2>3, <1>11, <1>12 DEF NoNewHolder, Holding
    <3>2. \A x \in DOMAIN workers : job[u].worker # {workers[x]}
      BY <3>1, <1>2 DEF HandleOK
    <3>3. \A x \in DOMAIN workers' : job'[u].worker # {workers'[x]}
      BY <3>1, <3>2, <1>7
    <3>4. \A v \in Threads \ {u} : Holding(v)' => job'[v].worker # job'[u].worker
      BY <3>1, <1>2, <1>11 DEF HandleOK, NoNewHolder
    <3> QED
      BY <3>3, <3>4
  <2> QED
    BY <2>1, <2>2, <2>3 DEF HandleOK
<1>14. CurrentGate'
  <2> SUFFICES ASSUME NEW u \in Threads, NEW x \in DOMAIN workers',
                      Calling(u)', job'[u].worker = {workers'[x]}
               PROVE  x \in DOMAIN gates' /\ job'[u].gate = gates'[x]
    BY DEF CurrentGate
  <2>1. Holding(u)' /\ Calling(u) /\ job'[u] = job[u]
    BY <1>11 DEF NoNewHolder, Calling, Holding
  <2>2. x \in DOMAIN workers /\ workers'[x] = workers[x] /\ x \notin K
    BY <2>1, <1>7, <1>12
  <2>3. x \in DOMAIN gates /\ job[u].gate = gates[x]
    BY <2>1, <2>2 DEF IInv, CurrentGate
  <2> QED
    BY <2>1, <2>2, <2>3, <1>7
<1>15. SameWorkerSameGate'
  <2>1. \A u \in Threads : Calling(u)' => Calling(u) /\ job'[u] = job[u]
    BY <1>11 DEF NoNewHolder, Calling, Holding
  <2> QED
    BY <2>1 DEF IInv, SameWorkerSameGate
<1>16. NothingLeaks'
  BY <1>6, <1>7 DEF IInv, NothingLeaks
<1>17. NoGateWithoutWorker'
  <2> SUFFICES ASSUME NEW p \in DOMAIN gates' \ DOMAIN workers'
               PROVE  \E u \in Threads :
                        pc'[u] \in {"spawn", "failed", "insert"} /\ job'[u].key = p
    BY DEF NoGateWithoutWorker
  <2>1. p \in DOMAIN gates \ DOMAIN workers /\ p # k
    BY <1>6, <1>7
  <2>2. PICK u \in Threads : pc[u] \in {"spawn", "failed", "insert"} /\ job[u].key = p
    BY <2>1 DEF IInv, NoGateWithoutWorker
  <2>3. u # t
    BY <2>1, <2>2, <1>1
  <2> QED
    BY <2>2, <2>3, <1>2, DoneKeeps
<1> QED
  BY <1>10, <1>13, <1>14, <1>15, <1>16, <1>17 DEF IInv

(* A call gets the gate of those that already have its worker. *)
LEMMA CallStep ==
  ASSUME IInv, NEW t \in Threads, NEW s \in Spellings, Call(t, s)
  PROVE  IInv'
<1> DEFINE k == aliases[s]
<1>1. /\ pc[t] = "idle" /\ pc' = [pc EXCEPT ![t] = "gate"]
      /\ s \in DOMAIN aliases /\ k \in DOMAIN workers
      /\ UNCHANGED <<names, aliases, workers, alive, spawned>>
      /\ job' = Put(job, t, [path |-> s, key |-> k, worker |-> {workers[k]}, gate |-> gates'[k]])
  BY DEF Call, Goto
<1>2. TypeOK /\ HandleOK
  BY DEF IInv
<1>3. k \in Repos /\ workers[k] \in Workers /\ workers[k].repo = k /\ workers[k].n <= spawned
  BY <1>1, <1>2 DEF TypeOK, HandleOK
<1>4. \/ k \in DOMAIN gates /\ gates' = gates /\ gateCount' = gateCount
      \/ k \notin DOMAIN gates /\ gateCount < MaxGates /\ gateCount' = gateCount + 1
         /\ gates' = [x \in DOMAIN gates \cup {k} |-> IF x = k THEN gateCount' ELSE gates[x]]
  BY DEF Call, Put
<1> HIDE DEF k
<1>5. /\ DOMAIN gates' = DOMAIN gates \cup {k} /\ \A x \in DOMAIN gates : gates'[x] = gates[x]
      /\ gates' \in [DOMAIN gates' -> 1..MaxGates] /\ gateCount' \in 0..MaxGates
      /\ gates'[k] \in 1..MaxGates
  <2>1. gateCount \in 0..MaxGates /\ gates \in [DOMAIN gates -> 1..MaxGates]
    BY <1>2 DEF TypeOK
  <2>2. CASE k \in DOMAIN gates
    BY <2>1, <2>2, <1>4
  <2>3. CASE k \notin DOMAIN gates
    <3>1. gateCount' \in 1..MaxGates
      BY <2>1, <2>3, <1>4, BoundsAssumption
    <3> QED
      BY <3>1, <2>1, <2>3, <1>4
  <2> QED
    BY <2>2, <2>3
<1> DEFINE j == [path |-> s, key |-> k, worker |-> {workers[k]}, gate |-> gates'[k]]
<1>6. j \in Jobs /\ j.worker = {workers[k]} /\ j.gate = gates'[k] /\ j.key = k
  BY <1>3, <1>5 DEF Jobs
<1>7. job' = [u \in DOMAIN job \cup {t} |-> IF u = t THEN j ELSE job[u]]
  BY <1>1 DEF Put
<1> HIDE DEF j
<1>8. pc' \in [Threads -> PCs] /\ pc'[t] = "gate" /\ \A u \in Threads \ {t} : pc'[u] = pc[u]
  BY <1>1, <1>2 DEF TypeOK, PCs
<1>9. DOMAIN job' = {u \in Threads : pc'[u] # "idle"} /\ job' \in [DOMAIN job' -> Jobs]
  BY <1>2, <1>6, <1>7, <1>8 DEF TypeOK
<1>10. job'[t] = j /\ \A u \in Threads \ {t} : pc[u] # "idle" => job'[u] = job[u]
  BY <1>2, <1>7 DEF TypeOK
<1>11. TypeOK'
  BY <1>1, <1>2, <1>3, <1>5, <1>8, <1>9 DEF TypeOK
<1>12. \A u \in Threads \ {t} : Holding(u)' =>
         Holding(u) /\ pc'[u] = pc[u] /\ job'[u] = job[u]
  BY <1>8, <1>10 DEF Holding
<1>13. HandleOK'
  <2>1. \A x \in DOMAIN workers' : workers'[x].n <= spawned'
    BY <1>1, <1>2 DEF HandleOK
  <2>2. \A u \in Threads : Holding(u)' =>
          \E x \in Workers : job'[u].worker = {x} /\ x.repo = job'[u].key /\ x.n <= spawned'
    <3> SUFFICES ASSUME NEW u \in Threads, Holding(u)'
                 PROVE  \E x \in Workers :
                          job'[u].worker = {x} /\ x.repo = job'[u].key /\ x.n <= spawned'
      OBVIOUS
    <3>1. CASE u = t
      BY <3>1, <1>1, <1>3, <1>6, <1>10
    <3>2. CASE u # t
      <4>1. PICK x \in Workers : job[u].worker = {x} /\ x.repo = job[u].key /\ x.n <= spawned
        BY <3>2, <1>2, <1>12 DEF HandleOK
      <4> QED
        BY <4>1, <3>2, <1>1, <1>12
    <3> QED
      BY <3>1, <3>2
  <2>3. ASSUME NEW u \in Threads, pc'[u] = "insert"
        PROVE  /\ \A x \in DOMAIN workers' : job'[u].worker # {workers'[x]}
               /\ \A v \in Threads \ {u} : Holding(v)' => job'[v].worker # job'[u].worker
    <3>1. u # t /\ pc[u] = "insert" /\ job'[u] = job[u]
      BY <2>3, <1>8, <1>12 DEF Holding
    <3>2. \A x \in DOMAIN workers' : job'[u].worker # {workers'[x]}
      BY <3>1, <1>1, <1>2 DEF HandleOK
    <3>3. ASSUME NEW v \in Threads \ {u}, Holding(v)' PROVE job'[v].worker # job'[u].worker
      <4>1. CASE v = t
        BY <4>1, <3>1, <1>1, <1>2, <1>6, <1>10 DEF HandleOK
      <4>2. CASE v # t
        BY <4>2, <3>1, <3>3, <1>2, <1>12 DEF HandleOK
      <4> QED
        BY <4>1, <4>2
    <3> QED
      BY <3>2, <3>3
  <2> QED
    BY <2>1, <2>2, <2>3 DEF HandleOK
<1>14. \A u \in Threads \ {t} : Calling(u)' => Calling(u) /\ job'[u] = job[u]
  BY <1>12 DEF Calling, Holding
<1>15. CurrentGate'
  <2> SUFFICES ASSUME NEW u \in Threads, NEW x \in DOMAIN workers',
                      Calling(u)', job'[u].worker = {workers'[x]}
               PROVE  x \in DOMAIN gates' /\ job'[u].gate = gates'[x]
    BY DEF CurrentGate
  <2>1. CASE u = t
    <3>1. workers[x] = workers[k] /\ workers[x].repo = x
      BY <2>1, <1>1, <1>2, <1>6, <1>10 DEF TypeOK
    <3> QED
      BY <3>1, <2>1, <1>3, <1>5, <1>6, <1>10
  <2>2. CASE u # t
    <3>1. Calling(u) /\ job'[u] = job[u] /\ x \in DOMAIN workers /\ workers'[x] = workers[x]
      BY <2>2, <1>1, <1>14
    <3>2. x \in DOMAIN gates /\ job[u].gate = gates[x]
      BY <3>1 DEF IInv, CurrentGate
    <3> QED
      BY <3>1, <3>2, <1>5
  <2> QED
    BY <2>1, <2>2
<1>16. SameWorkerSameGate'
  <2>1. \A u \in Threads \ {t} : (Calling(u)' /\ job'[u].worker = {workers[k]})
          => job'[u].gate = gates'[k]
    <3> SUFFICES ASSUME NEW u \in Threads \ {t}, Calling(u)', job'[u].worker = {workers[k]}
                 PROVE  job'[u].gate = gates'[k]
      OBVIOUS
    <3>1. Calling(u) /\ job'[u] = job[u]
      BY <1>14
    <3>2. k \in DOMAIN gates /\ job[u].gate = gates[k]
      BY <3>1, <1>1 DEF IInv, CurrentGate
    <3> QED
      BY <3>1, <3>2, <1>5
  <2>2. \A u, v \in Threads \ {t} :
          (Calling(u)' /\ Calling(v)' /\ job'[u].worker = job'[v].worker)
            => job'[u].gate = job'[v].gate
    BY <1>14 DEF IInv, SameWorkerSameGate
  <2> QED
    BY <2>1, <2>2, <1>6, <1>10 DEF SameWorkerSameGate
<1>17. NothingLeaks'
  <2>1. k \in Range(aliases)
    BY <1>1 DEF k, Range
  <2> QED
    BY <2>1, <1>1, <1>5 DEF IInv, NothingLeaks
<1>18. NoGateWithoutWorker'
  <2> SUFFICES ASSUME NEW p \in DOMAIN gates' \ DOMAIN workers'
               PROVE  \E u \in Threads :
                        pc'[u] \in {"spawn", "failed", "insert"} /\ job'[u].key = p
    BY DEF NoGateWithoutWorker
  <2>1. p \in DOMAIN gates \ DOMAIN workers
    BY <1>1, <1>5
  <2>2. PICK u \in Threads : pc[u] \in {"spawn", "failed", "insert"} /\ job[u].key = p
    BY <2>1 DEF IInv, NoGateWithoutWorker
  <2> QED
    BY <2>2, <1>1, <1>8, <1>10
<1> QED
  BY <1>11, <1>13, <1>15, <1>16, <1>17, <1>18 DEF IInv

LEMMA RegistryStep == IInv /\ [Next]_vars => IInv'
<1> SUFFICES ASSUME IInv, [Next]_vars PROVE IInv'
    OBVIOUS
<1>1. ASSUME NEW t \in Threads, NEW s \in Spellings, Discover(t, s) PROVE IInv'
  BY <1>1, DiscoverStep
<1>2. ASSUME NEW t \in Threads, Reuse(t) PROVE IInv'
  BY <1>2, AliasStep DEF Reuse
<1>3. ASSUME NEW t \in Threads, Insert(t) PROVE IInv'
  <2>1. CASE job[t].key \in DOMAIN workers
    BY <1>3, <2>1, AliasStep DEF Insert
  <2>2. CASE job[t].key \notin DOMAIN workers
    BY <1>3, <2>2, InsertNewStep DEF Insert
  <2> QED
    BY <2>1, <2>2
<1>4. ASSUME NEW t \in Threads, EvictDead(t) \/ Spawn(t) \/ SpawnFails(t) \/ Failed(t)
      PROVE  IInv'
  BY <1>4, EvictStep, SpawnStep, SpawnFailsStep, FailedStep
<1>5. ASSUME NEW t \in Threads, TakeTurn(t) \/ Answer(t) PROVE IInv'
  BY <1>5, TakeTurnStep, AnswerStep
<1>6. ASSUME NEW t \in Threads, NEW s \in Spellings, Call(t, s) PROVE IInv'
  BY <1>6, CallStep
<1>7. ASSUME NEW s \in Spellings, Close(s) PROVE IInv'
  BY <1>7, CloseStep
<1>8. ASSUME NEW s \in Spellings, Rename(s) PROVE IInv'
  BY <1>8, OutsideStep DEF Rename, IInv, TypeOK
<1>9. ASSUME NEW w \in alive, Die(w) PROVE IInv'
  BY <1>9, OutsideStep DEF Die, IInv, TypeOK
<1>10. CASE UNCHANGED vars
  BY <1>10, OutsideStep DEF vars, registry, IInv, TypeOK
<1> QED
  BY <1>1, <1>2, <1>3, <1>4, <1>5, <1>6, <1>7, <1>8, <1>9, <1>10 DEF Next, Open

THEOREM RegistryInvariant == Spec => []IInv
BY RegistryInit, RegistryStep, PTL DEF Spec

(* The registry is well typed, and a worker is registered under its own    *)
(* repository, whatever the file system does meanwhile.                    *)
THEOREM RegistryTypeCorrect == Spec => []TypeOK
<1>1. IInv => TypeOK
  BY DEF IInv
<1> QED
  BY <1>1, RegistryInvariant, PTL

(* Workers and gates go with the last spelling. *)
THEOREM ClosedReposLeaveNothing == Spec => []NothingLeaks
<1>1. IInv => NothingLeaks
  BY DEF IInv
<1> QED
  BY <1>1, RegistryInvariant, PTL

(* A gate without a worker is one that a respawn will fill or drop. *)
THEOREM GatesFollowWorkers == Spec => []NoGateWithoutWorker
<1>1. IInv => NoGateWithoutWorker
  BY DEF IInv
<1> QED
  BY <1>1, RegistryInvariant, PTL

(* Two calls to one worker never pass their gate together. *)
THEOREM WorkersHaveOneGate == Spec => []SameWorkerSameGate
<1>1. IInv => SameWorkerSameGate
  BY DEF IInv
<1> QED
  BY <1>1, RegistryInvariant, PTL

(* Workers and gates agree. *)
THEOREM WorkersAndGates == Spec => []WorkersAndGatesAgree
<1>1. IInv => WorkersAndGatesAgree
  BY DEF IInv, WorkersAndGatesAgree
<1> QED
  BY <1>1, RegistryInvariant, PTL

(* No race of two opens replaces a worker that lives. *)
THEOREM LiveWorkersAreKept == Spec => LiveWorkersStay
<1> DEFINE Stays == \A k \in DOMAIN workers :
                      \/ k \in DOMAIN workers' /\ workers'[k] = workers[k]
                      \/ workers[k] \notin alive
                      \/ k \notin Range(aliases')
<1>1. ASSUME NEW K, NEW ws, Drop(K, ws), \A p \in K : p \notin Range(aliases'),
             DOMAIN workers \subseteq DOMAIN ws, \A k \in DOMAIN workers : ws[k] = workers[k]
      PROVE  Stays
  BY <1>1 DEF Drop, Without, Restrict
<1>2. ASSUME TypeOK, NEW t \in Threads, pc[t] # "idle", NEW ws,
             RecordAlias(job[t].path, job[t].key, ws),
             DOMAIN workers \subseteq DOMAIN ws, \A k \in DOMAIN workers : ws[k] = workers[k]
      PROVE  Stays
  <2>1. job[t].path \in Spellings /\ job[t].key \in Repos
    BY <1>2 DEF TypeOK, Jobs
  <2>2. PICK K : Drop(K, ws) /\ \A p \in K : p \notin Range(aliases')
    BY <1>2, <2>1, RecordAliasFacts
  <2> HIDE DEF Stays
  <2> QED
    BY <2>2, <1>1, <1>2
<1>3. TypeOK /\ [Next]_vars => [Stays]_vars
  <2> SUFFICES ASSUME TypeOK, Next PROVE Stays
    OBVIOUS
  <2>1. ASSUME NEW t \in Threads, Reuse(t) PROVE Stays
    <3> HIDE DEF Stays
    <3> QED
      BY <2>1, <1>2 DEF Reuse
  <2>2. ASSUME NEW t \in Threads, Insert(t) PROVE Stays
    <3> HIDE DEF Stays
    <3>1. CASE job[t].key \in DOMAIN workers
      BY <3>1, <2>2, <1>2 DEF Insert
    <3>2. CASE job[t].key \notin DOMAIN workers
      <4>1. PICK w \in job[t].worker :
              RecordAlias(job[t].path, job[t].key, Put(workers, job[t].key, w))
        BY <3>2, <2>2 DEF Insert
      <4>2. /\ DOMAIN workers \subseteq DOMAIN Put(workers, job[t].key, w)
            /\ \A k \in DOMAIN workers : Put(workers, job[t].key, w)[k] = workers[k]
        BY <3>2 DEF Put
      <4>3. pc[t] # "idle"
        BY <2>2 DEF Insert
      <4> QED
        BY <4>1, <4>2, <4>3, <1>2
    <3> QED
      BY <3>1, <3>2
  <2>3. ASSUME NEW t \in Threads, EvictDead(t) PROVE Stays
    BY <2>3 DEF EvictDead, Without, Restrict
  <2>4. ASSUME NEW s \in Spellings, Close(s) PROVE Stays
    BY <2>4 DEF Close, Unreferenced, Drop, Without, Restrict
  <2>5. CASE UNCHANGED workers
    BY <2>5
  <2>6. ASSUME NEW t \in Threads, Spawn(t) \/ SpawnFails(t) \/ Failed(t) \/ TakeTurn(t) \/ Answer(t)
        PROVE  UNCHANGED workers
    BY <2>6 DEF Spawn, SpawnFails, Failed, TakeTurn, Answer, registry
  <2>7. ASSUME NEW s \in Spellings,
               Rename(s) \/ \E t \in Threads : Discover(t, s) \/ Call(t, s)
        PROVE  UNCHANGED workers
    BY <2>7 DEF Rename, Discover, Call, registry
  <2>8. ASSUME NEW w \in alive, Die(w) PROVE UNCHANGED workers
    BY <2>8 DEF Die, registry
  <2> HIDE DEF Stays
  <2> QED
    BY <2>1, <2>2, <2>3, <2>4, <2>5, <2>6, <2>7, <2>8 DEF Next, Open
<1> QED
  BY <1>3, RegistryTypeCorrect, PTL DEF Spec, LiveWorkersStay

=============================================================================
