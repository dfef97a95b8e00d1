---------------------------- MODULE BatchWorker ----------------------------
(***************************************************************************)
(* The SDK's background thread (_worker.py): the client's periodic drain   *)
(* and the finalize queue's parser are both instances of it.  The class    *)
(* knows nothing of spans; it promises one thread per process, a drain     *)
(* after every wake(), no drain once stopped, and a thread that comes back *)
(* after a fork or after its own death.                                    *)
(*                                                                         *)
(* A caller thread runs a base frame.  A weakref finalizer can land on it  *)
(* wherever a reference count reaches zero and run the same methods in a   *)
(* nested frame; the base frame stands still until the nested one returns. *)
(* The spawn lock is reentrant, so it is held by a thread, not by a frame. *)
(***************************************************************************)
EXTENDS Naturals, FiniteSets

CONSTANTS
  Callers,    \* the threads that call start, ensure_alive, wake and stop
  Workers,    \* identities of the Thread objects _spawn_locked constructs
  MaxPid,     \* bound: how many processes the chain of forks may reach
  FinalizerAt \* the labels of a base frame at which a finalizer can land

InCall == {"lock", "spawn", "alloc", "publish", "start", "unlock", "stopLock",
           "join"}

NoWorker == "no worker"

ASSUME BatchWorkerAssumption ==
  /\ MaxPid \in Nat \ {0}
  /\ FinalizerAt \subseteq InCall
  /\ NoWorker \notin Workers
  /\ {"free", "lost"} \cap Callers = {}

NoPid    == 0
Pids     == 1 .. MaxPid
Levels   == {"base", "nested"}
Frames   == Callers \X Levels

VARIABLES
  pid,        \* the process the behaviour follows; a fork moves to the child
  stopped,    \* _stopped
  wake,       \* _wake: the Event
  slot,       \* _thread
  slotPid,    \* _thread_for_pid
  spawning,   \* _spawning_pid
  held,       \* the thread that owns _spawn_lock, or "free", or "lost" when
              \* its owner did not cross the fork
  pc,         \* where each frame is
  new,        \* the Thread object a spawning frame constructed
  wpc,        \* where each Thread object is
  work,       \* work handed to drain_fn and not yet seen by it
  returned    \* stop() calls that returned having nothing left to wait for

vars == <<pid, stopped, wake, slot, slotPid, spawning, held, pc, new, wpc,
          work, returned>>

FramePcs  == InCall \cup {"idle", "gone"}
WorkerPcs == {"unstarted", "wait", "check", "drain", "export", "dead"}

TypeOK ==
  /\ pid \in Pids
  /\ stopped \in BOOLEAN /\ wake \in BOOLEAN
  /\ slot \in Workers \cup {NoWorker}
  /\ slotPid \in NoPid .. pid
  /\ spawning \in NoPid .. pid
  /\ held \in Callers \cup {"free", "lost"}
  /\ pc \in [Frames -> FramePcs]
  /\ new \in [Frames -> Workers \cup {NoWorker}]
  /\ wpc \in [Workers -> WorkerPcs]
  /\ work \in BOOLEAN
  /\ returned \in BOOLEAN

Init ==
  /\ pid = 1
  /\ stopped = FALSE
  /\ wake = FALSE
  /\ slot = NoWorker
  /\ slotPid = NoPid
  /\ spawning = NoPid
  /\ held = "free"
  /\ pc = [f \in Frames |-> "idle"]
  /\ new = [f \in Frames |-> NoWorker]
  /\ wpc = [w \in Workers |-> "dead"]
  /\ work = FALSE
  /\ returned = FALSE

-----------------------------------------------------------------------------
Thread(f) == f[1]

\* A frame can take a step: its thread crossed the last fork, and no nested
\* frame runs on top of it.
Runs(f) ==
  /\ pc[f] # "gone"
  /\ f[2] = "base" => pc[<<f[1], "nested">>] = "idle"

\* A base frame is called by the host at any time; a nested frame only runs
\* where a finalizer landed, which is while its base frame is inside a call.
MayCall(f) ==
  /\ Runs(f)
  /\ pc[f] = "idle"
  /\ f[2] = "nested" => pc[<<f[1], "base">>] \in FinalizerAt

Goto(f, label) == pc' = [pc EXCEPT ![f] = label]

Running == {w \in Workers : wpc[w] \in {"wait", "check", "drain", "export"}}

\* A Thread object nobody refers to any more: its identity can be used again.
Unused(w) == wpc[w] = "dead" /\ w # slot /\ \A f \in Frames : new[f] # w

\* is_alive(): a thread object, started in this process, still running.
Alive == slot # NoWorker /\ slotPid = pid /\ slot \in Running

\* Fault: the mark as a bool, which a parent leaves set.
MarkAsBool == spawning # NoPid

\* _spawn_in_flight(): a spawn in THIS process, not one a parent left behind.
SpawnInFlight == spawning = pid

\* Fault: the re-check under the lock leaves out is_alive().
NoSecondLook == stopped \/ SpawnInFlight

MustNotSpawn == stopped \/ Alive \/ SpawnInFlight

\* Fault: a plain Lock, which its own owner waits for.
CanTakePlain(f) == held = "free"

CanTake(f) == held \in {"free", Thread(f)}

InLock(f) == pc[f] \in {"spawn", "alloc", "publish", "start", "unlock"}

\* The lock goes back when the outermost frame of its thread leaves it: a
\* nested frame inside a base frame's locked section leaves it held.
AfterUnlock(f) ==
  IF f[2] = "nested" /\ InLock(<<f[1], "base">>) THEN Thread(f) ELSE "free"

-----------------------------------------------------------------------------
(* ensure_alive(), called on every capture, and start().  start() has no    *)
(* unlocked fast path, and no _stopped test of its own: _spawn_locked makes *)
(* it, so under the lock the two calls decide alike.                        *)

Start(f) ==
  /\ MayCall(f)
  /\ Goto(f, "lock")
  /\ UNCHANGED <<pid, stopped, wake, slot, slotPid, spawning, held, new, wpc,
                 work, returned>>

EnsureAlive(f) ==
  /\ MayCall(f)
  /\ ~ stopped /\ ~ Alive
  /\ Goto(f, "lock")
  /\ UNCHANGED <<pid, stopped, wake, slot, slotPid, spawning, held, new, wpc,
                 work, returned>>

\* The second look, under the lock.
TakeSpawnLock(f) ==
  /\ Runs(f) /\ pc[f] = "lock"
  /\ CanTake(f)
  /\ held' = Thread(f)
  /\ Goto(f, IF MustNotSpawn THEN "unlock" ELSE "spawn")
  /\ UNCHANGED <<pid, stopped, wake, slot, slotPid, spawning, new, wpc, work,
                 returned>>

\* _spawn_locked up to and including the construction of the Thread.
SpawnBegin(f) ==
  /\ Runs(f) /\ pc[f] = "spawn"
  /\ IF stopped
       THEN Goto(f, "unlock") /\ UNCHANGED <<spawning, new, wpc>>
       ELSE \E w \in Workers :
              /\ Unused(w)
              /\ spawning' = pid
              /\ new' = [new EXCEPT ![f] = w]
              /\ wpc' = [wpc EXCEPT ![w] = "unstarted"]
              /\ Goto(f, "alloc")
  /\ UNCHANGED <<pid, stopped, wake, slot, slotPid, held, work, returned>>

\* The second _stopped test, after the allocation a finalizer can land in.
SpawnCheck(f) ==
  /\ Runs(f) /\ pc[f] = "alloc"
  /\ IF stopped
       THEN /\ spawning' = NoPid
            /\ wpc' = [wpc EXCEPT ![new[f]] = "dead"]
            /\ Goto(f, "unlock")
       ELSE UNCHANGED <<spawning, wpc>> /\ Goto(f, "publish")
  /\ UNCHANGED <<pid, stopped, wake, slot, slotPid, held, new, work, returned>>

SpawnPublish(f) ==
  /\ Runs(f) /\ pc[f] = "publish"
  /\ slot' = new[f]
  /\ slotPid' = pid
  /\ Goto(f, "start")
  /\ UNCHANGED <<pid, stopped, wake, spawning, held, new, wpc, work, returned>>

\* thread.start(), which raises when the process is out of threads; the
\* finally clears the spawn mark either way.
SpawnStart(f) ==
  /\ Runs(f) /\ pc[f] = "start"
  /\ \/ wpc' = [wpc EXCEPT ![new[f]] = "wait"]
     \/ wpc' = [wpc EXCEPT ![new[f]] = "dead"]
  /\ spawning' = NoPid
  /\ Goto(f, "unlock")
  /\ UNCHANGED <<pid, stopped, wake, slot, slotPid, held, new, work, returned>>

Unlock(f) ==
  /\ Runs(f) /\ pc[f] = "unlock"
  /\ held' = AfterUnlock(f)
  /\ new' = [new EXCEPT ![f] = NoWorker]
  /\ Goto(f, "idle")
  /\ UNCHANGED <<pid, stopped, wake, slot, slotPid, spawning, wpc, work,
                 returned>>

-----------------------------------------------------------------------------
(* wake(), after the caller stored the work the drain is to find.           *)
Wake(f) ==
  /\ MayCall(f)
  /\ work' = TRUE
  /\ wake' = TRUE
  /\ UNCHANGED <<pid, stopped, slot, slotPid, spawning, held, pc, new, wpc,
                 returned>>

(* stop(): the flag and the wake first, then the lock, then a timed join.   *)
StopBegin(f) ==
  /\ MayCall(f)
  /\ stopped' = TRUE
  /\ wake' = TRUE
  /\ Goto(f, "stopLock")
  /\ UNCHANGED <<pid, slot, slotPid, spawning, held, new, wpc, work, returned>>

\* Reads the thread under the lock and drops the lock at once.
StopRead(f) ==
  /\ Runs(f) /\ pc[f] = "stopLock"
  /\ CanTake(f)
  /\ IF Alive
       THEN Goto(f, "join") /\ UNCHANGED returned
       ELSE Goto(f, "idle") /\ returned' = TRUE
  /\ UNCHANGED <<pid, stopped, wake, slot, slotPid, spawning, held, new, wpc,
                 work>>

\* thread.join(timeout): the thread ended, or the budget did.
StopJoin(f) ==
  /\ Runs(f) /\ pc[f] = "join"
  /\ Goto(f, "idle")
  /\ returned' = (returned \/ ~ Alive)
  /\ UNCHANGED <<pid, stopped, wake, slot, slotPid, spawning, held, new, wpc,
                 work>>

-----------------------------------------------------------------------------
(* _run(), the worker's loop.                                               *)

\* _wake.wait(timeout) returns, set or at the interval, then _wake.clear().
WorkerWoken(w) ==
  /\ wpc[w] = "wait"
  /\ wake' = FALSE
  /\ wpc' = [wpc EXCEPT ![w] = "check"]
  /\ UNCHANGED <<pid, stopped, slot, slotPid, spawning, held, pc, new, work,
                 returned>>

\* A stopped worker leaves without draining: close() owns the last drain.
WorkerCheck(w) ==
  /\ wpc[w] = "check"
  /\ wpc' = [wpc EXCEPT ![w] = IF stopped THEN "dead" ELSE "drain"]
  /\ UNCHANGED <<pid, stopped, wake, slot, slotPid, spawning, held, pc, new,
                 work, returned>>

\* drain_fn() takes the work there is ...
WorkerDrain(w) ==
  /\ wpc[w] = "drain"
  /\ work' = FALSE
  /\ wpc' = [wpc EXCEPT ![w] = "export"]
  /\ UNCHANGED <<pid, stopped, wake, slot, slotPid, spawning, held, pc, new,
                 returned>>

\* Fault: the Event is cleared after the drain instead of before it.
ClearAfterDrain(w) ==
  /\ wpc[w] = "export"
  /\ wake' = FALSE
  /\ wpc' = [wpc EXCEPT ![w] = "wait"]
  /\ UNCHANGED <<pid, stopped, slot, slotPid, spawning, held, pc, new, work,
                 returned>>

\* ... and is done with it later.  An Exception out of it is swallowed and the
\* loop goes on.
WorkerDrained(w) ==
  /\ wpc[w] = "export"
  /\ wpc' = [wpc EXCEPT ![w] = "wait"]
  /\ UNCHANGED <<pid, stopped, wake, slot, slotPid, spawning, held, pc, new,
                 work, returned>>

\* A BaseException out of drain_fn ends the thread.
WorkerDies(w) ==
  /\ wpc[w] \in {"drain", "export"}
  /\ wpc' = [wpc EXCEPT ![w] = "dead"]
  /\ UNCHANGED <<pid, stopped, wake, slot, slotPid, spawning, held, pc, new,
                 work, returned>>

-----------------------------------------------------------------------------
(* os.fork() on a host thread that is in no SDK call.  The child has that   *)
(* thread alone, and a copy of the memory: a spawn lock another thread held *)
(* is lost, held for good.  _at_fork_reinit, unless no hook runs, replaces *)
(* the lock and the Event and empties the thread slots.  The child has no   *)
(* work of its own: what was pending belongs to the parent.                 *)
Fork(c) ==
  /\ pid < MaxPid
  /\ pc[<<c, "base">>] = "idle"
  /\ pid' = pid + 1
  /\ pc' = [f \in Frames |-> IF Thread(f) = c THEN pc[f] ELSE "gone"]
  /\ new' = [f \in Frames |-> NoWorker]
  /\ wpc' = [w \in Workers |-> "dead"]
  /\ work' = FALSE
  /\ UNCHANGED <<stopped, returned>>
  /\ \/ /\ held' = "free"
        /\ wake' = FALSE
        /\ slot' = NoWorker
        /\ slotPid' = NoPid
        /\ spawning' = NoPid
     \/ /\ held' = (IF held \in {"free", c} THEN held ELSE "lost")
        /\ UNCHANGED <<wake, slot, slotPid, spawning>>

-----------------------------------------------------------------------------
Call(f) == Start(f) \/ EnsureAlive(f) \/ Wake(f) \/ StopBegin(f)

Continue(f) ==
  \/ TakeSpawnLock(f) \/ SpawnBegin(f) \/ SpawnCheck(f) \/ SpawnPublish(f)
  \/ SpawnStart(f) \/ Unlock(f) \/ StopRead(f) \/ StopJoin(f)

WorkerStep(w) ==
  \/ WorkerWoken(w) \/ WorkerCheck(w) \/ WorkerDrain(w) \/ WorkerDrained(w)
  \/ WorkerDies(w)

Next ==
  \/ \E f \in Frames : Call(f) \/ Continue(f)
  \/ \E w \in Workers : WorkerStep(w)
  \/ \E c \in Callers : Fork(c)

Spec == Init /\ [][Next]_vars

\* The interpreter runs every thread, and finalizers do not land on one thread
\* for ever: a call that can go on again and again does go on.  The interval,
\* which may be an hour, need not elapse.
FairSpec ==
  /\ Spec
  /\ \A f \in Frames : SF_vars(Continue(f))
  /\ \A w \in Workers : WF_vars(WorkerStep(w) /\ (wpc[w] = "wait" => wake))

-----------------------------------------------------------------------------
Spawning(f) == pc[f] \in {"alloc", "publish", "start"}
Spawner(f)  == pc[f] = "spawn" \/ Spawning(f)

\* start() says "exactly one SDK thread": however many callers and finalizers
\* find the worker missing at once, and whatever fork they come from, one
\* process never runs two loops over one drain_fn.
OneWorker == \A w1, w2 \in Running : w1 = w2

\* The spawn mark never outlives its spawn.  A mark that reads as this
\* process's own with no frame left to clear it would make every later
\* ensure_alive() decline, and the process would never drain again.
MarkIsOwned == SpawnInFlight => \E f \in Frames : Spawning(f)

\* Client.close() makes the last drain after stop(): once a stop() came back
\* with nothing left to wait for, no worker is inside drain_fn or gets there.
NoDrainAfterStop ==
  returned => \A w \in Workers : wpc[w] \notin {"drain", "export"}

\* A frame inside the lock owns it, and a nested frame is where its base frame
\* let it land.
LockOwned == \A f \in Frames : InLock(f) => held = Thread(f)

NestedInside ==
  \A c \in Callers :
    pc[<<c, "nested">>] \in InCall => pc[<<c, "base">>] \in FinalizerAt

\* One frame at a time spawns, under its own mark, while no worker runs; the
\* thread it makes is not running, and is the one it publishes.
OneSpawner ==
  /\ \A f, g \in Frames : Spawner(f) /\ Spawner(g) => f = g
  /\ \A f \in Frames : Spawner(f) => Running = {}
  /\ \A f \in Frames : Spawning(f) => spawning = pid
  /\ \A f \in Frames : Spawning(f) => new[f] \in Workers
  /\ \A f \in Frames : pc[f] = "start" => slot = new[f] /\ slotPid = pid

\* The only thread that runs is the one in the slot, in the process that made
\* it.
SlotRuns ==
  \A w \in Running : w = slot /\ slotPid = pid

StopIsFinal ==
  /\ \A f \in Frames : pc[f] \in {"stopLock", "join"} => stopped
  /\ returned => stopped

\* How the lock, the mark, the slot and the threads of the worker go together:
\* the reason OneWorker, MarkIsOwned and NoDrainAfterStop hold.
SpawnDiscipline ==
  /\ TypeOK
  /\ LockOwned
  /\ NestedInside
  /\ OneSpawner
  /\ MarkIsOwned
  /\ SlotRuns
  /\ StopIsFinal
  /\ NoDrainAfterStop

\* A call of any method comes back, whatever the other threads and the
\* finalizers on its own thread do: the reentrant lock does not lock its owner
\* out, and a timed join does not wait for ever.  (Only a child forked, with no
\* hook, while another thread was inside the lock waits for it in vain.)
CallsReturn ==
  \A f \in Frames : pc[f] \in InCall ~> (pc[f] \notin InCall \/ held = "lost")

\* wake() is not lost.  Work stored before a wake() is drained even when the
\* interval never elapses, unless the worker is stopped or is not there.  (A
\* worker that dies between the wait and the drain takes the wake with it: its
\* successor finds the work at the interval.)
WokenWorkDrained == (work /\ wake) ~> (~ work \/ stopped \/ Running = {})

=============================================================================
