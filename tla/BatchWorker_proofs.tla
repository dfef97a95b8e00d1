------------------------- MODULE BatchWorker_proofs -------------------------
(***************************************************************************)
(* One worker per process, proved for any number of callers, thread        *)
(* identities and forks, with or without the fork hook: finalizers may     *)
(* land anywhere but between the decision to spawn and the spawn mark.     *)
(***************************************************************************)
EXTENDS BatchWorker, TLAPS

\* The window the proof leaves out: a finalizer that lands there finds no mark
\* yet, and starts a second worker.
OutsideSpawnWindow == "spawn" \notin FinalizerAt

USE DEF Thread, Goto

\* The initial state satisfies the discipline.
LEMMA InitDiscipline == Init => SpawnDiscipline
<1> SUFFICES ASSUME Init PROVE SpawnDiscipline  OBVIOUS
<1> USE DEF Init
<1>1. pid \in Pids /\ slotPid \in NoPid .. pid /\ spawning \in NoPid .. pid
  BY BatchWorkerAssumption DEF Pids, NoPid
<1>2. pc \in [Frames -> FramePcs] /\ wpc \in [Workers -> WorkerPcs]
  BY DEF FramePcs, WorkerPcs
<1>3. /\ slot \in Workers \cup {NoWorker}
      /\ new \in [Frames -> Workers \cup {NoWorker}]
      /\ held \in Callers \cup {"free", "lost"}
  OBVIOUS
<1>4. TypeOK
  BY <1>1, <1>2, <1>3 DEF TypeOK
<1>5. LockOwned /\ NestedInside
  BY DEF LockOwned, NestedInside, InLock, InCall, Frames, Levels
<1>6. Running = {}
  BY DEF Running
<1>7. OneSpawner /\ MarkIsOwned /\ SlotRuns
  BY <1>6 DEF OneSpawner, Spawner, Spawning, MarkIsOwned, SlotRuns, SpawnInFlight, NoPid
<1>8. StopIsFinal /\ NoDrainAfterStop
  BY DEF StopIsFinal, NoDrainAfterStop
<1> QED  BY <1>4, <1>5, <1>7, <1>8 DEF SpawnDiscipline

\* A worker runs exactly when is_alive() says so.
LEMMA AliveIsRunning == SpawnDiscipline => (Alive <=> Running # {})
  BY BatchWorkerAssumption DEF SpawnDiscipline, TypeOK, SlotRuns, Alive, Running

\* The mark stays owned as long as it is not moved and its owner goes on.
LEMMA MarkKept ==
  ASSUME MarkIsOwned, UNCHANGED <<spawning, pid>>,
         \A g \in Frames : Spawning(g) => Spawning(g)'
  PROVE  MarkIsOwned'
  BY DEF MarkIsOwned, SpawnInFlight

\* Entering a call of start() or ensure_alive() keeps the discipline.
LEMMA StartKeeps ==
  ASSUME OutsideSpawnWindow, SpawnDiscipline, NEW f \in Frames, Start(f)
  PROVE  SpawnDiscipline'
<1> USE DEF SpawnDiscipline, Start
<1>1. TypeOK'
  BY DEF TypeOK, FramePcs, InCall, WorkerPcs, MayCall, Runs, Unused, NoPid, Pids, Frames
<1>2. LockOwned'
  BY DEF TypeOK, LockOwned, InLock, MayCall, Runs
<1>3. NestedInside'
  BY BatchWorkerAssumption DEF TypeOK, NestedInside, MayCall, Runs, Frames, Levels, InCall
<1>4. OneSpawner'
  BY DEF TypeOK, OneSpawner, Spawner, Spawning, Running, MayCall, Runs
<1>5. MarkIsOwned'
  BY MarkKept DEF TypeOK, Spawning, MayCall, Runs
<1>6. SlotRuns' /\ StopIsFinal' /\ NoDrainAfterStop'
  BY DEF TypeOK, SlotRuns, Running, StopIsFinal, NoDrainAfterStop, MayCall, Runs
<1> QED  BY <1>1, <1>2, <1>3, <1>4, <1>5, <1>6

\* The same for ensure_alive().
LEMMA EnsureAliveKeeps ==
  ASSUME OutsideSpawnWindow, SpawnDiscipline, NEW f \in Frames, EnsureAlive(f)
  PROVE  SpawnDiscipline'
<1> USE DEF SpawnDiscipline, EnsureAlive
<1>1. TypeOK'
  BY DEF TypeOK, FramePcs, InCall, WorkerPcs, MayCall, Runs, Unused, NoPid, Pids, Frames
<1>2. LockOwned'
  BY DEF TypeOK, LockOwned, InLock, MayCall, Runs
<1>3. NestedInside'
  BY BatchWorkerAssumption DEF TypeOK, NestedInside, MayCall, Runs, Frames, Levels, InCall
<1>4. OneSpawner'
  BY DEF TypeOK, OneSpawner, Spawner, Spawning, Running, MayCall, Runs
<1>5. MarkIsOwned'
  BY MarkKept DEF TypeOK, Spawning, MayCall, Runs
<1>6. SlotRuns' /\ StopIsFinal' /\ NoDrainAfterStop'
  BY DEF TypeOK, SlotRuns, Running, StopIsFinal, NoDrainAfterStop, MayCall, Runs
<1> QED  BY <1>1, <1>2, <1>3, <1>4, <1>5, <1>6

\* Whoever decides to spawn is the only one: the lock keeps other threads out,
\* the mark keeps out the frames below it, and no finalizer lands at "spawn".
LEMMA TakeSpawnLockKeeps ==
  ASSUME OutsideSpawnWindow, SpawnDiscipline, NEW f \in Frames, TakeSpawnLock(f)
  PROVE  SpawnDiscipline'
<1> USE DEF SpawnDiscipline, TakeSpawnLock
<1>1. TypeOK'
  BY DEF TypeOK, FramePcs, InCall, WorkerPcs, MayCall, Runs, Unused, NoPid, Pids, Frames
<1>2. LockOwned'
  BY BatchWorkerAssumption DEF TypeOK, LockOwned, InLock, CanTake, Frames, Levels
<1>3. NestedInside'
  BY BatchWorkerAssumption DEF TypeOK, NestedInside, MayCall, Runs, Frames, Levels, InCall
<1>4. ASSUME ~ MustNotSpawn, NEW g \in Frames, Spawner(g)  PROVE FALSE
  <2>1. ~ Spawning(g)
    BY <1>4 DEF OneSpawner, MustNotSpawn, SpawnInFlight
  <2>2. pc[g] = "spawn" /\ held = Thread(g)
    BY <1>4, <2>1 DEF Spawner, LockOwned, InLock
  <2>3. Thread(g) = Thread(f) /\ g # f
    BY <2>2, BatchWorkerAssumption DEF CanTake, Frames, Levels
  <2>4. CASE f[2] = "nested"
    <3>1. g = <<f[1], "base">> /\ f = <<f[1], "nested">>
      BY <2>3, <2>4 DEF Frames, Levels
    <3> QED  BY <2>2, <2>4, <3>1 DEF NestedInside, OutsideSpawnWindow, InCall, Frames, Levels
  <2>5. CASE f[2] = "base"
    <3>1. g = <<f[1], "nested">>
      BY <2>3, <2>5 DEF Frames, Levels
    <3> QED  BY <2>2, <2>5, <3>1 DEF Runs
  <2> QED  BY <2>4, <2>5 DEF Frames, Levels
<1>5. ~ MustNotSpawn => Running = {}
  BY AliveIsRunning DEF MustNotSpawn
<1>6. OneSpawner'
  BY <1>4, <1>5 DEF TypeOK, OneSpawner, Spawner, Spawning, Running
<1>7. MarkIsOwned'
  BY MarkKept DEF TypeOK, Spawning, MayCall, Runs
<1>8. SlotRuns' /\ StopIsFinal' /\ NoDrainAfterStop'
  BY DEF TypeOK, SlotRuns, Running, StopIsFinal, NoDrainAfterStop, MayCall, Runs
<1> QED  BY <1>1, <1>2, <1>3, <1>4, <1>5, <1>6, <1>7, <1>8

\* The mark goes up before the thread is made.
LEMMA SpawnBeginKeeps ==
  ASSUME OutsideSpawnWindow, SpawnDiscipline, NEW f \in Frames, SpawnBegin(f)
  PROVE  SpawnDiscipline'
<1> USE DEF SpawnDiscipline, SpawnBegin
<1>1. TypeOK'
  BY DEF TypeOK, FramePcs, InCall, WorkerPcs, MayCall, Runs, Unused, NoPid, Pids, Frames
<1>2. LockOwned'
  BY DEF TypeOK, LockOwned, InLock, MayCall, Runs
<1>3. NestedInside'
  BY BatchWorkerAssumption DEF TypeOK, NestedInside, MayCall, Runs, Frames, Levels, InCall
<1>4. OneSpawner'
  BY DEF TypeOK, OneSpawner, Spawner, Spawning, Running, Unused
<1>5. MarkIsOwned'
  <2>1. CASE stopped
    BY <2>1, MarkKept DEF TypeOK, Spawning
  <2>2. CASE ~ stopped
    BY <2>2 DEF TypeOK, MarkIsOwned, Spawning
  <2> QED  BY <2>1, <2>2
<1>6. SlotRuns' /\ StopIsFinal' /\ NoDrainAfterStop'
  BY DEF TypeOK, SlotRuns, Running, Unused, StopIsFinal, NoDrainAfterStop
<1> QED  BY <1>1, <1>2, <1>3, <1>4, <1>5, <1>6

\* A stop() found in the allocation takes the mark down and drops the thread.
LEMMA SpawnCheckKeeps ==
  ASSUME OutsideSpawnWindow, SpawnDiscipline, NEW f \in Frames, SpawnCheck(f)
  PROVE  SpawnDiscipline'
<1> USE DEF SpawnDiscipline, SpawnCheck
<1>1. new[f] \in Workers /\ Running = {}
  BY DEF OneSpawner, Spawner, Spawning
<1>2. Running' = {}
  BY <1>1 DEF TypeOK, Running
<1>3. TypeOK'
  BY <1>1 DEF TypeOK, FramePcs, InCall, WorkerPcs, NoPid, Pids
<1>4. LockOwned'
  BY DEF TypeOK, LockOwned, InLock, MayCall, Runs
<1>5. NestedInside'
  BY BatchWorkerAssumption DEF TypeOK, NestedInside, MayCall, Runs, Frames, Levels, InCall
<1>6. OneSpawner'
  BY <1>2 DEF TypeOK, OneSpawner, Spawner, Spawning
<1>7. MarkIsOwned'
  <2>1. CASE stopped
    BY <2>1 DEF TypeOK, MarkIsOwned, SpawnInFlight, Pids, NoPid
  <2>2. CASE ~ stopped
    BY <2>2, MarkKept DEF TypeOK, Spawning
  <2> QED  BY <2>1, <2>2
<1>8. SlotRuns'
  BY <1>2 DEF SlotRuns
<1>9. StopIsFinal'
  BY DEF TypeOK, StopIsFinal
<1>10. NoDrainAfterStop'
  BY <1>1 DEF TypeOK, NoDrainAfterStop
<1> QED  BY <1>1, <1>2, <1>3, <1>4, <1>5, <1>6, <1>7, <1>8, <1>9, <1>10

\* Nothing runs when the slot is overwritten.
LEMMA SpawnPublishKeeps ==
  ASSUME OutsideSpawnWindow, SpawnDiscipline, NEW f \in Frames, SpawnPublish(f)
  PROVE  SpawnDiscipline'
<1> USE DEF SpawnDiscipline, SpawnPublish
<1>1. new[f] \in Workers /\ Running = {}
  BY DEF OneSpawner, Spawner, Spawning
<1>2. TypeOK'
  BY <1>1 DEF TypeOK, FramePcs, InCall, Pids, NoPid
<1>3. LockOwned'
  BY DEF TypeOK, LockOwned, InLock, MayCall, Runs
<1>4. NestedInside'
  BY BatchWorkerAssumption DEF TypeOK, NestedInside, MayCall, Runs, Frames, Levels, InCall
<1>5. OneSpawner'
  BY DEF TypeOK, OneSpawner, Spawner, Spawning, Running
<1>6. MarkIsOwned'
  BY MarkKept DEF TypeOK, Spawning, MayCall, Runs
<1>7. SlotRuns'
  BY <1>1 DEF SlotRuns, Running
<1>8. StopIsFinal'
  BY DEF TypeOK, StopIsFinal
<1>9. NoDrainAfterStop'
  BY DEF TypeOK, NoDrainAfterStop
<1> QED  BY <1>1, <1>2, <1>3, <1>4, <1>5, <1>6, <1>7, <1>8, <1>9

\* The thread that starts is the one in the slot, and no other runs.
LEMMA SpawnStartKeeps ==
  ASSUME OutsideSpawnWindow, SpawnDiscipline, NEW f \in Frames, SpawnStart(f)
  PROVE  SpawnDiscipline'
<1> USE DEF SpawnDiscipline, SpawnStart
<1>1. new[f] \in Workers /\ Running = {} /\ slot = new[f] /\ slotPid = pid
  BY DEF OneSpawner, Spawner, Spawning
<1>2. TypeOK'
  BY <1>1 DEF TypeOK, FramePcs, InCall, WorkerPcs, NoPid, Pids
<1>3. LockOwned'
  BY DEF TypeOK, LockOwned, InLock, MayCall, Runs
<1>4. NestedInside'
  BY BatchWorkerAssumption DEF TypeOK, NestedInside, MayCall, Runs, Frames, Levels, InCall
<1>5. OneSpawner'
  BY DEF TypeOK, OneSpawner, Spawner, Spawning
<1>6. MarkIsOwned'
  BY DEF TypeOK, MarkIsOwned, SpawnInFlight, Pids, NoPid
<1>7. SlotRuns'
  BY <1>1 DEF TypeOK, SlotRuns, Running
<1>8. StopIsFinal'
  BY DEF TypeOK, StopIsFinal
<1>9. NoDrainAfterStop'
  BY <1>1 DEF TypeOK, NoDrainAfterStop
<1> QED  BY <1>1, <1>2, <1>3, <1>4, <1>5, <1>6, <1>7, <1>8, <1>9

\* A nested frame leaves its base frame the lock.
LEMMA UnlockKeeps ==
  ASSUME OutsideSpawnWindow, SpawnDiscipline, NEW f \in Frames, Unlock(f)
  PROVE  SpawnDiscipline'
<1> USE DEF SpawnDiscipline, Unlock
<1>1. TypeOK'
  BY DEF TypeOK, FramePcs, AfterUnlock, Frames
<1>2. LockOwned'
  BY DEF TypeOK, LockOwned, InLock, AfterUnlock, Runs, Frames, Levels
<1>3. NestedInside'
  BY BatchWorkerAssumption DEF TypeOK, NestedInside, MayCall, Runs, Frames, Levels, InCall
<1>4. OneSpawner'
  BY DEF TypeOK, OneSpawner, Spawner, Spawning, Running, MayCall, Runs
<1>5. MarkIsOwned'
  BY MarkKept DEF TypeOK, Spawning, MayCall, Runs
<1>6. SlotRuns' /\ StopIsFinal' /\ NoDrainAfterStop'
  BY DEF TypeOK, SlotRuns, Running, StopIsFinal, NoDrainAfterStop, MayCall, Runs
<1> QED  BY <1>1, <1>2, <1>3, <1>4, <1>5, <1>6

\* wake() touches none of it.
LEMMA WakeKeeps ==
  ASSUME OutsideSpawnWindow, SpawnDiscipline, NEW f \in Frames, Wake(f)
  PROVE  SpawnDiscipline'
<1> USE DEF SpawnDiscipline, Wake
<1>1. TypeOK'
  BY DEF TypeOK
<1>2. LockOwned' /\ NestedInside'
  BY DEF LockOwned, InLock, NestedInside
<1>3. OneSpawner'
  BY DEF OneSpawner, Spawner, Spawning, Running
<1>4. MarkIsOwned'
  BY MarkKept DEF TypeOK, Spawning, MayCall, Runs
<1>5. SlotRuns' /\ StopIsFinal' /\ NoDrainAfterStop'
  BY DEF TypeOK, SlotRuns, Running, StopIsFinal, NoDrainAfterStop, MayCall, Runs
<1> QED  BY <1>1, <1>2, <1>3, <1>4, <1>5

\* stop() raises its flag before it looks at the thread.
LEMMA StopBeginKeeps ==
  ASSUME OutsideSpawnWindow, SpawnDiscipline, NEW f \in Frames, StopBegin(f)
  PROVE  SpawnDiscipline'
<1> USE DEF SpawnDiscipline, StopBegin
<1>1. TypeOK'
  BY DEF TypeOK, FramePcs, InCall, WorkerPcs, MayCall, Runs, Unused, NoPid, Pids, Frames
<1>2. LockOwned'
  BY DEF TypeOK, LockOwned, InLock, MayCall, Runs
<1>3. NestedInside'
  BY BatchWorkerAssumption DEF TypeOK, NestedInside, MayCall, Runs, Frames, Levels, InCall
<1>4. OneSpawner'
  BY DEF TypeOK, OneSpawner, Spawner, Spawning, Running, MayCall, Runs
<1>5. MarkIsOwned'
  BY MarkKept DEF TypeOK, Spawning, MayCall, Runs
<1>6. SlotRuns' /\ StopIsFinal' /\ NoDrainAfterStop'
  BY DEF TypeOK, SlotRuns, Running, StopIsFinal, NoDrainAfterStop, MayCall, Runs
<1> QED  BY <1>1, <1>2, <1>3, <1>4, <1>5, <1>6

\* A stop() that finds nothing to join finds no worker at all.
LEMMA StopReadKeeps ==
  ASSUME OutsideSpawnWindow, SpawnDiscipline, NEW f \in Frames, StopRead(f)
  PROVE  SpawnDiscipline'
<1> USE DEF SpawnDiscipline, StopRead
<1>1. TypeOK'
  BY DEF TypeOK, FramePcs, InCall, WorkerPcs, MayCall, Runs, Unused, NoPid, Pids, Frames
<1>2. LockOwned'
  BY DEF TypeOK, LockOwned, InLock, MayCall, Runs
<1>3. NestedInside'
  BY BatchWorkerAssumption DEF TypeOK, NestedInside, MayCall, Runs, Frames, Levels, InCall
<1>4. OneSpawner'
  BY DEF TypeOK, OneSpawner, Spawner, Spawning, Running, MayCall, Runs
<1>5. MarkIsOwned'
  BY MarkKept DEF TypeOK, Spawning, MayCall, Runs
<1>6. SlotRuns' /\ StopIsFinal'
  BY DEF TypeOK, SlotRuns, Running, StopIsFinal
<1>7. NoDrainAfterStop'
  <2>1. CASE Alive
    BY <2>1 DEF TypeOK, NoDrainAfterStop
  <2>2. CASE ~ Alive
    BY <2>2, AliveIsRunning DEF NoDrainAfterStop, Running
  <2> QED  BY <2>1, <2>2
<1> QED  BY <1>1, <1>2, <1>3, <1>4, <1>5, <1>6, <1>7

\* A join that ends with the thread finds no worker at all.
LEMMA StopJoinKeeps ==
  ASSUME OutsideSpawnWindow, SpawnDiscipline, NEW f \in Frames, StopJoin(f)
  PROVE  SpawnDiscipline'
<1> USE DEF SpawnDiscipline, StopJoin
<1>1. TypeOK'
  BY DEF TypeOK, FramePcs, InCall, WorkerPcs, MayCall, Runs, Unused, NoPid, Pids, Frames
<1>2. LockOwned'
  BY DEF TypeOK, LockOwned, InLock, MayCall, Runs
<1>3. NestedInside'
  BY BatchWorkerAssumption DEF TypeOK, NestedInside, MayCall, Runs, Frames, Levels, InCall
<1>4. OneSpawner'
  BY DEF TypeOK, OneSpawner, Spawner, Spawning, Running, MayCall, Runs
<1>5. MarkIsOwned'
  BY MarkKept DEF TypeOK, Spawning, MayCall, Runs
<1>6. SlotRuns' /\ StopIsFinal'
  BY DEF TypeOK, SlotRuns, Running, StopIsFinal
<1>7. NoDrainAfterStop'
  <2>1. CASE Alive
    BY <2>1 DEF TypeOK, NoDrainAfterStop
  <2>2. CASE ~ Alive
    BY <2>2, AliveIsRunning DEF NoDrainAfterStop, Running
  <2> QED  BY <2>1, <2>2
<1> QED  BY <1>1, <1>2, <1>3, <1>4, <1>5, <1>6, <1>7

\* The worker's own steps move one running thread on, or end it; a stopped one
\* never gets to the drain.
LEMMA WorkerStepKeeps ==
  ASSUME SpawnDiscipline, NEW w \in Workers, WorkerStep(w)
  PROVE  SpawnDiscipline'
<1> USE DEF SpawnDiscipline, WorkerStep, WorkerWoken, WorkerCheck, WorkerDrain,
            WorkerDrained, WorkerDies
<1>1. w \in Running /\ Running' \subseteq Running
  BY DEF TypeOK, Running
<1>2. TypeOK'
  BY DEF TypeOK, WorkerPcs
<1>3. LockOwned' /\ NestedInside'
  BY DEF LockOwned, InLock, NestedInside
<1>4. OneSpawner'
  BY <1>1 DEF OneSpawner, Spawner, Spawning
<1>5. MarkIsOwned'
  BY MarkKept DEF Spawning
<1>6. SlotRuns'
  BY <1>1 DEF SlotRuns
<1>7. StopIsFinal'
  BY DEF StopIsFinal
<1>8. NoDrainAfterStop'
  BY DEF TypeOK, NoDrainAfterStop, StopIsFinal
<1> QED  BY <1>2, <1>3, <1>4, <1>5, <1>6, <1>7, <1>8

\* The child has one thread, outside every call, and no worker.  Without the
\* hook it inherits a mark, but one that names the parent.
LEMMA ForkKeeps ==
  ASSUME SpawnDiscipline, NEW c \in Callers, Fork(c)
  PROVE  SpawnDiscipline'
<1> USE DEF SpawnDiscipline, Fork
<1>1. pc[<<c, "nested">>] \notin InCall
  BY BatchWorkerAssumption DEF NestedInside, InCall
<1>2. \A f \in Frames : pc'[f] \notin InCall
  BY <1>1, SMTT(90) DEF TypeOK, InCall, Frames, Levels
<1>3. Running' = {}
  BY DEF Running
<1>4. pid \in Nat /\ pid' = pid + 1 /\ pid' \in Pids
  BY BatchWorkerAssumption DEF TypeOK, Pids
<1>5. held' \in Callers \cup {"free", "lost"}
  BY DEF TypeOK
<1>6. pc' \in [Frames -> FramePcs]
  BY DEF TypeOK, FramePcs
<1>7. TypeOK'
  <2>1. slotPid' \in NoPid .. pid' /\ spawning' \in NoPid .. pid'
    BY <1>4 DEF TypeOK, NoPid
  <2>2. slot' \in Workers \cup {NoWorker} /\ wake' \in BOOLEAN
    BY DEF TypeOK
  <2> QED  BY <1>4, <1>5, <1>6, <2>1, <2>2 DEF TypeOK, WorkerPcs
<1>8. LockOwned' /\ NestedInside' /\ StopIsFinal' /\ NoDrainAfterStop'
  BY <1>2 DEF LockOwned, InLock, NestedInside, StopIsFinal, NoDrainAfterStop, InCall, Frames, Levels
<1>9. \A f \in Frames : ~ Spawner(f)' /\ ~ Spawning(f)'
  BY <1>2 DEF Spawner, Spawning, InCall
<1>10. OneSpawner'
  BY <1>2, <1>9 DEF OneSpawner, InCall
<1>11. MarkIsOwned'
  BY <1>4 DEF MarkIsOwned, SpawnInFlight, TypeOK, Pids, NoPid
<1> QED  BY <1>3, <1>7, <1>8, <1>10, <1>11 DEF SlotRuns

\* Every step keeps the discipline.
LEMMA NextKeeps ==
  ASSUME OutsideSpawnWindow, SpawnDiscipline, [Next]_vars
  PROVE  SpawnDiscipline'
<1>1. ASSUME NEW f \in Frames, Call(f)  PROVE SpawnDiscipline'
  BY <1>1, StartKeeps, EnsureAliveKeeps, WakeKeeps, StopBeginKeeps DEF Call
<1>2. ASSUME NEW f \in Frames, Continue(f)  PROVE SpawnDiscipline'
  BY <1>2, TakeSpawnLockKeeps, SpawnBeginKeeps, SpawnCheckKeeps, SpawnPublishKeeps,
     SpawnStartKeeps, UnlockKeeps, StopReadKeeps, StopJoinKeeps DEF Continue
<1>3. ASSUME UNCHANGED vars  PROVE SpawnDiscipline'
  BY <1>3 DEF SpawnDiscipline, vars, TypeOK, LockOwned, InLock, NestedInside, OneSpawner,
     Spawner, Spawning, Running, MarkIsOwned, SpawnInFlight, SlotRuns, StopIsFinal,
     NoDrainAfterStop
<1> QED  BY <1>1, <1>2, <1>3, WorkerStepKeeps, ForkKeeps DEF Next

-----------------------------------------------------------------------------
\* The discipline is an invariant of the worker: among the rest, every variable
\* keeps its type.
THEOREM Discipline ==
  ASSUME OutsideSpawnWindow
  PROVE  Spec => []SpawnDiscipline
  BY InitDiscipline, NextKeeps, PTL DEF Spec

\* One process never runs two worker loops, whatever callers, finalizers,
\* thread deaths and forks do (start(): "exactly one SDK thread").
THEOREM AtMostOneWorker ==
  ASSUME OutsideSpawnWindow
  PROVE  Spec => []OneWorker
<1>1. SpawnDiscipline => OneWorker
  BY DEF SpawnDiscipline, SlotRuns, OneWorker
<1> QED  BY <1>1, Discipline, PTL

\* After a stop() that left nothing to wait for, no worker is inside drain_fn:
\* Client.close() makes the last drain alone.
THEOREM StopEndsDraining ==
  ASSUME OutsideSpawnWindow
  PROVE  Spec => []NoDrainAfterStop
<1>1. SpawnDiscipline => NoDrainAfterStop
  BY DEF SpawnDiscipline
<1> QED  BY <1>1, Discipline, PTL

\* A mark that reads as this process's own has a frame that will clear it.
THEOREM MarkHasOwner ==
  ASSUME OutsideSpawnWindow
  PROVE  Spec => []MarkIsOwned
<1>1. SpawnDiscipline => MarkIsOwned
  BY DEF SpawnDiscipline
<1> QED  BY <1>1, Discipline, PTL

=============================================================================
