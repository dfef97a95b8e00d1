---------------------------- MODULE FinalizeQueue ----------------------------
(***************************************************************************)
(* The deferred-parse queue (_finalize.py): sealed jobs wait, within a     *)
(* bound on their number and one on their bytes, for the finalize worker   *)
(* or for a flush, a signal or a close() to finish them.                   *)
(*                                                                         *)
(* Frames are as in Client: a thread's base frame may be interrupted by a  *)
(* nested one, a signal's drain or a finalizer's submit, and the queue's   *)
(* RLock belongs to the thread, so a nested frame walks through a block    *)
(* the base frame is inside of.  A `-=` on the byte counter reads it, calls *)
(* int(), and only then stores: a nested frame can run in between.         *)
(***************************************************************************)
EXTENDS Naturals, Integers, Sequences, SequencesExt, FiniteSets, FiniteSetsExt, Counting

CONSTANTS
  Jobs, Size,          \* the jobs, and the bytes each holds
  MaxJobs, MaxBytes,   \* max_parse_backlog, max_parse_backlog_bytes
  Threads, Worker,     \* host threads, and the finalize worker's
  MaxDrains,           \* bound: how often drain_all is called
  MaxForks,            \* bound: how often the process forks
  Scenarios            \* bound: which calls each frame makes, on which jobs

Levels  == {"base", "nested"}
Frames  == (Threads \cup {Worker}) \X Levels
Ops     == {"submit", "flush", "signal", "close", "fork"}
Nothing == "nothing"
Ends    == {"parsed", "backlog_full", "skipped_at_shutdown"}

ASSUME QueueAssumption ==
  /\ Nothing \notin Jobs
  /\ Size \in [Jobs -> Nat]
  /\ MaxJobs \in Nat \ {0} /\ MaxBytes \in Nat
  /\ MaxDrains \in Nat /\ MaxForks \in Nat
  /\ Scenarios \subseteq [calls : [Frames -> SUBSET Ops], jobs : SUBSET Jobs]
  \* The worker's own frame parses; what else runs on its thread is nested in it.
  /\ \A h \in Scenarios : h.calls[<<Worker, "base">>] = {}

VARIABLES
  entries, bytes,      \* _entries, _bytes
  stopping,            \* _stopping
  in_flight, owner,    \* _in_flight, _in_flight_pid (0: None)
  woken,               \* the worker's wake event
  pid,                 \* this process: 1, and one more after each fork
  pc, op,              \* where each frame is, and in which call
  hand,                \* the jobs a frame took out or evicted, not finished yet
  coming,              \* the job a frame is submitting
  read,                \* the byte counter a frame loaded
  drains,              \* how many drain_all calls there were
  sealed,              \* the process each submitted job was sealed in (0: none)
  finished,            \* how, and in which process, each job was finished
  raised,              \* the jobs whose submit() raised
  hooked,              \* no fork skipped the reinit hook
  host                 \* the scenario: what this host does

vars == <<entries, bytes, stopping, in_flight, owner, woken, pid, pc, op, hand,
          coming, read, drains, sealed, finished, raised, hooked, host>>
queue  == <<entries, bytes>>
flight == <<in_flight, owner>>
ghosts == <<drains, sealed, raised, hooked, host>>

Pcs == {"idle", "room", "pop", "evicting", "fallback", "begin", "take", "taken",
        "run", "left", "leftTaken", "leftRun", "wait", "waiting", "done"}

TypeOK ==
  /\ entries \in Seq(Jobs) /\ bytes \in Int   \* below 0 once it drifted
  /\ stopping \in BOOLEAN /\ woken \in BOOLEAN
  /\ in_flight \in Nat /\ owner \in 0 .. MaxForks + 1
  /\ pid \in 1 .. MaxForks + 1
  /\ pc \in [Frames -> Pcs]
  /\ op \in [Frames -> Ops \cup {"work", Nothing}]
  /\ hand \in [Frames -> Seq(Jobs)]
  /\ coming \in [Frames -> Jobs \cup {Nothing}]
  /\ read \in [Frames -> Int]
  /\ drains \in 0 .. MaxDrains
  /\ sealed \in [Jobs -> 0 .. MaxForks + 1]
  /\ finished \in [Jobs -> Seq(Ends \X (1 .. MaxForks + 1))]
  /\ raised \subseteq Jobs
  /\ hooked \in BOOLEAN /\ host \in Scenarios

Init ==
  /\ entries = <<>> /\ bytes = 0
  /\ stopping = FALSE /\ woken = FALSE
  /\ in_flight = 0 /\ owner = 0
  /\ pid = 1
  /\ pc = [f \in Frames |-> "idle"]
  /\ op = [f \in Frames |-> Nothing]
  /\ hand = [f \in Frames |-> <<>>]
  /\ coming = [f \in Frames |-> Nothing]
  /\ read = [f \in Frames |-> 0]
  /\ drains = 0
  /\ sealed = [j \in Jobs |-> 0]
  /\ finished = [j \in Jobs |-> <<>>]
  /\ raised = {}
  /\ hooked = TRUE /\ host \in Scenarios

-----------------------------------------------------------------------------
Thread(f) == f[1]
Base(f)   == <<f[1], "base">>
Nested(f) == <<f[1], "nested">>

Runs(f)      == f[2] = "base" => pc[Nested(f)] = "idle"
At(f, label) == Runs(f) /\ pc[f] = label
Goto(f, label) == pc' = [pc EXCEPT ![f] = label]

MayCall(f, what) ==
  /\ At(f, "idle") /\ what \in host.calls[f]
  /\ f[2] = "nested" => pc[Base(f)] # "idle"

\* Inside a `with self._lock` that another frame of the thread may interrupt.  A
\* nested frame that waits on the condition gives the lock away for its thread,
\* the block its base frame is inside of included.
InLock(f)  == pc[f] \in {"room", "pop", "evicting", "taken", "leftTaken"}
Holds(f)   == InLock(f) /\ pc[Nested(f)] # "waiting"
CanTake(f) == \A g \in Frames : Holds(g) => Thread(g) = Thread(f)

\* The bytes of the jobs in s.
Held(s) == Weight(s, Size)

\* ensure_alive and drain_all start by disowning a count inherited over a fork.
Disown ==
  /\ in_flight' = IF owner \notin {0, pid} THEN 0 ELSE in_flight
  /\ owner'     = IF owner \notin {0, pid} THEN 0 ELSE owner

-----------------------------------------------------------------------------
(* capture_deferred's ensure_alive() and submit().                          *)

\* A job over the byte bound never enters the queue.
Submit(f, j) ==
  /\ MayCall(f, "submit") /\ j \in host.jobs /\ sealed[j] = 0
  /\ CanTake(f)
  /\ Disown
  /\ sealed' = [sealed EXCEPT ![j] = pid]
  /\ op' = [op EXCEPT ![f] = "submit"]
  /\ IF Size[j] > MaxBytes
       THEN /\ hand' = [hand EXCEPT ![f] = <<j>>]
            /\ Goto(f, "fallback")
            /\ UNCHANGED coming
       ELSE /\ coming' = [coming EXCEPT ![f] = j]
            /\ Goto(f, "room")
            /\ UNCHANGED hand
  /\ UNCHANGED <<queue, stopping, woken, pid, read, drains, finished, raised,
                 hooked, host>>

Full(j) ==
  entries # <<>> /\ (Len(entries) >= MaxJobs \/ bytes + Size[j] > MaxBytes)

\* A pop: the job is in hand, the counter loaded, its new value not stored yet.
Pop(f, label) ==
  /\ hand' = [hand EXCEPT ![f] = Append(@, Head(entries))]
  /\ entries' = Tail(entries)
  /\ read' = [read EXCEPT ![f] = bytes]
  /\ Goto(f, label)
  /\ UNCHANGED bytes

\* What a nested frame did to the counter meanwhile is overwritten.
Store(f) == bytes' = read[f] - Size[Last(hand[f])]

\* Between the loop's test and the pop there are a call and a backward jump, at
\* which a nested frame can run.
FoundFull(f) ==
  /\ At(f, "room") /\ Full(coming[f])
  /\ Goto(f, "pop")
  /\ UNCHANGED <<queue, stopping, flight, woken, pid, op, hand, coming, read,
                 ghosts, finished>>

EvictOldest(f) ==
  /\ At(f, "pop") /\ entries # <<>>
  /\ Pop(f, "evicting")
  /\ UNCHANGED <<stopping, flight, woken, pid, op, coming, ghosts, finished>>

\* A signal's drain emptied the queue between the test and the pop: popleft()
\* raises out of submit() and of capture_deferred(), and what was evicted
\* before goes with it.
PopRaises(f) ==
  /\ At(f, "pop") /\ entries = <<>>
  /\ raised' = raised \cup {coming[f]} \cup ToSet(hand[f])
  /\ coming' = [coming EXCEPT ![f] = Nothing]
  /\ hand' = [hand EXCEPT ![f] = <<>>]
  /\ op' = [op EXCEPT ![f] = Nothing]
  /\ Goto(f, "idle")
  /\ UNCHANGED <<queue, stopping, flight, woken, pid, read, drains, sealed,
                 hooked, host, finished>>

Evicted(f) ==
  /\ At(f, "evicting")
  /\ Store(f)
  /\ Goto(f, "room")
  /\ UNCHANGED <<entries, stopping, flight, woken, pid, op, hand, coming, read,
                 ghosts, finished>>

Enqueue(f) ==
  /\ At(f, "room") /\ ~ Full(coming[f])
  /\ entries' = Append(entries, coming[f])
  /\ bytes' = bytes + Size[coming[f]]
  /\ coming' = [coming EXCEPT ![f] = Nothing]
  /\ Goto(f, "fallback")
  /\ UNCHANGED <<stopping, flight, woken, pid, op, hand, read, ghosts, finished>>

Finish(j, how) == finished' = [finished EXCEPT ![j] = Append(@, <<how, pid>>)]

\* The evicted are assembled without a parse, outside the lock, one by one.
FallbackNow(f) ==
  /\ At(f, "fallback") /\ hand[f] # <<>>
  /\ Finish(Head(hand[f]), "backlog_full")
  /\ hand' = [hand EXCEPT ![f] = Tail(@)]
  /\ UNCHANGED <<queue, stopping, flight, woken, pid, pc, op, coming, read,
                 ghosts>>

\* Fault: the worker is woken only when something was evicted.
WakeIfFull(f) ==
  /\ At(f, "fallback") /\ hand[f] = <<>>
  /\ woken' = (woken \/ Len(entries) >= MaxJobs)
  /\ op' = [op EXCEPT ![f] = Nothing]
  /\ Goto(f, "idle")
  /\ UNCHANGED <<queue, stopping, flight, pid, hand, coming, read, ghosts,
                 finished>>

\* The oversize job's early return wakes nobody; one more wake changes nothing.
Wake(f) ==
  /\ At(f, "fallback") /\ hand[f] = <<>>
  /\ woken' = TRUE
  /\ op' = [op EXCEPT ![f] = Nothing]
  /\ Goto(f, "idle")
  /\ UNCHANGED <<queue, stopping, flight, pid, hand, coming, read, ghosts,
                 finished>>

-----------------------------------------------------------------------------
(* The worker's _run_pending.                                               *)

WorkerWoken(f) ==
  /\ f = <<Worker, "base">> /\ At(f, "idle") /\ woken /\ ~ stopping
  /\ woken' = FALSE
  /\ op' = [op EXCEPT ![f] = "work"]
  /\ Goto(f, "take")
  /\ UNCHANGED <<queue, stopping, flight, pid, hand, coming, read, ghosts,
                 finished>>

WorkerTake(f) ==
  /\ At(f, "take") /\ op[f] = "work" /\ CanTake(f)
  /\ IF stopping \/ entries = <<>>
       THEN /\ op' = [op EXCEPT ![f] = Nothing]
            /\ Goto(f, "idle")
            /\ UNCHANGED <<queue, hand, read>>
       ELSE Pop(f, "taken") /\ UNCHANGED op
  /\ UNCHANGED <<stopping, flight, woken, pid, coming, ghosts, finished>>

WorkerTaken(f) ==
  /\ At(f, "taken") /\ op[f] = "work"
  /\ Store(f)
  /\ in_flight' = in_flight + 1
  /\ owner' = pid
  /\ Goto(f, "run")
  /\ UNCHANGED <<entries, stopping, woken, pid, op, hand, coming, read, ghosts,
                 finished>>

WorkerRuns(f) ==
  /\ At(f, "run") /\ op[f] = "work"
  /\ Finish(Head(hand[f]), "parsed")
  /\ hand' = [hand EXCEPT ![f] = <<>>]
  /\ Goto(f, "done")
  /\ UNCHANGED <<queue, stopping, flight, woken, pid, op, coming, read, ghosts>>

WorkerDone(f) ==
  /\ At(f, "done") /\ CanTake(f)
  /\ in_flight' = in_flight - 1
  /\ owner' = IF in_flight = 1 THEN 0 ELSE owner
  /\ Goto(f, "take")
  /\ UNCHANGED <<queue, stopping, woken, pid, op, hand, coming, read, ghosts,
                 finished>>

-----------------------------------------------------------------------------
(* drain_all, from flush() (KEEP) and from a signal or close() (FALLBACK).  *)

\* close() stops the worker's loop first and joins it, no longer than its
\* budget lasts.
DrainAll(f, what) ==
  /\ MayCall(f, what)
  /\ drains < MaxDrains
  /\ drains' = drains + 1
  /\ what = "close" => ~ stopping
  /\ stopping' = (stopping \/ what = "close")
  /\ op' = [op EXCEPT ![f] = what]
  /\ Goto(f, "begin")
  /\ UNCHANGED <<queue, flight, woken, pid, hand, coming, read, sealed,
                 finished, raised, hooked, host>>

\* Fault: the count inherited over a fork is kept.
DrainBeginsTrusting(f) ==
  /\ At(f, "begin") /\ CanTake(f)
  /\ Goto(f, "take")
  /\ UNCHANGED <<queue, stopping, flight, woken, pid, op, hand, coming, read,
                 ghosts, finished>>

DrainBegins(f) ==
  /\ At(f, "begin") /\ CanTake(f)
  /\ Disown
  /\ Goto(f, "take")
  /\ UNCHANGED <<queue, stopping, woken, pid, op, hand, coming, read, ghosts,
                 finished>>

\* The budget lasts: one more job is parsed here ...
DrainTakes(f) ==
  /\ At(f, "take") /\ op[f] # "work" /\ CanTake(f) /\ entries # <<>>
  /\ Pop(f, "taken")
  /\ UNCHANGED <<stopping, flight, woken, pid, op, coming, ghosts, finished>>

DrainTaken(f) ==
  /\ \/ At(f, "taken") /\ op[f] # "work" /\ Goto(f, "run")
     \/ At(f, "leftTaken") /\ Goto(f, "leftRun")
  /\ Store(f)
  /\ UNCHANGED <<entries, stopping, flight, woken, pid, op, hand, coming, read,
                 ghosts, finished>>

DrainRuns(f) ==
  /\ \/ /\ At(f, "run") /\ op[f] # "work"
        /\ Finish(Head(hand[f]), "parsed") /\ Goto(f, "take")
     \/ /\ At(f, "leftRun")
        /\ Finish(Head(hand[f]), "skipped_at_shutdown") /\ Goto(f, "left")
  /\ hand' = [hand EXCEPT ![f] = <<>>]
  /\ UNCHANGED <<queue, stopping, flight, woken, pid, op, coming, read, ghosts>>

\* ... until none is left, or the deadline has passed, at any point ...
DrainEnds(f) ==
  /\ At(f, "take") /\ op[f] # "work"
  /\ Goto(f, IF op[f] = "flush" THEN "wait" ELSE "left")
  /\ UNCHANGED <<queue, stopping, flight, woken, pid, op, hand, coming, read,
                 ghosts, finished>>

\* Fault: FALLBACK clears the queue instead of finishing what is in it.
LeftForgets(f) ==
  /\ At(f, "left") /\ CanTake(f)
  /\ entries' = <<>> /\ bytes' = 0
  /\ Goto(f, "wait")
  /\ UNCHANGED <<stopping, flight, woken, pid, op, hand, coming, read, ghosts,
                 finished>>

\* ... after which FALLBACK leaves nothing queued ...
LeftTakes(f) ==
  /\ At(f, "left") /\ CanTake(f)
  /\ IF entries = <<>>
       THEN Goto(f, "wait") /\ UNCHANGED <<queue, hand, read>>
       ELSE Pop(f, "leftTaken")
  /\ UNCHANGED <<stopping, flight, woken, pid, op, coming, ghosts, finished>>

\* ... and the worker's job is waited for: until it is over, or the time is.
Returns(f) ==
  /\ op' = [op EXCEPT ![f] = Nothing]
  /\ Goto(f, "idle")
  /\ UNCHANGED <<queue, stopping, flight, woken, pid, hand, coming, read, ghosts,
                 finished>>

WaitSatisfied(f) ==
  /\ At(f, "wait") \/ At(f, "waiting")
  /\ CanTake(f) /\ in_flight = 0
  /\ Returns(f)

Waits(f) ==
  /\ At(f, "wait") /\ CanTake(f) /\ in_flight # 0
  /\ Goto(f, "waiting")
  /\ UNCHANGED <<queue, stopping, flight, woken, pid, op, hand, coming, read,
                 ghosts, finished>>

WaitTimesOut(f) == At(f, "waiting") /\ CanTake(f) /\ in_flight # 0 /\ Returns(f)

-----------------------------------------------------------------------------
(* Fork.  Only the forking thread is there in the child, outside any call.  *)

Reinit ==
  /\ entries' = <<>> /\ bytes' = 0
  /\ in_flight' = 0 /\ owner' = 0

\* In the child the worker's thread is gone.  Where no hook runs the fields stay
\* as they were (and a lock another thread was in would stay held: left out).
Fork(f) ==
  /\ MayCall(f, "fork")
  /\ pid <= MaxForks
  /\ pid' = pid + 1
  /\ \/ Reinit /\ UNCHANGED hooked
     \/ /\ \A g \in Frames : ~ InLock(g)
        /\ hooked' = FALSE
        /\ UNCHANGED <<queue, flight>>
  /\ pc' = [g \in Frames |-> "idle"]
  /\ op' = [g \in Frames |-> Nothing]
  /\ hand' = [g \in Frames |-> <<>>]
  /\ coming' = [g \in Frames |-> Nothing]
  /\ woken' = FALSE
  /\ UNCHANGED <<stopping, read, drains, sealed, finished, raised, host>>

-----------------------------------------------------------------------------
Work(f) ==
  \/ WorkerWoken(f) \/ WorkerTake(f) \/ WorkerTaken(f) \/ WorkerRuns(f)
  \/ WorkerDone(f)

Continue(f) ==
  \/ FoundFull(f) \/ EvictOldest(f) \/ PopRaises(f) \/ Evicted(f) \/ Enqueue(f)
  \/ FallbackNow(f) \/ Wake(f)
  \/ DrainBegins(f) \/ DrainTakes(f) \/ DrainTaken(f) \/ DrainRuns(f)
  \/ DrainEnds(f) \/ LeftTakes(f) \/ WaitSatisfied(f)
  \/ Waits(f) \/ WaitTimesOut(f)

Next ==
  \E f \in Frames :
    \/ \E j \in Jobs : Submit(f, j)
    \/ \E what \in {"flush", "signal", "close"} : DrainAll(f, what)
    \/ Work(f) \/ Continue(f) \/ Fork(f)

Spec == Init /\ [][Next]_vars

\* Every thread runs on, the worker included: parses end.  Weak fairness is
\* enough for the lock too: calls are finitely many, so contention ends.
FairSpec ==
  Spec /\ \A f \in Frames : WF_vars(Work(f)) /\ WF_vars(Continue(f))

-----------------------------------------------------------------------------
\* Where job j is: queued, in a frame's hands on its way in or out, finished.
Places(j) ==
  Occurs(j, entries) + Len(finished[j]) + Bit(j \in raised)
    + Total([f \in Frames |-> Occurs(j, hand[f]) + Bit(coming[f] = j)])

\* A sealed job is finished once: whoever takes it out of the queue, the
\* worker, an evicting submit or any of the drains, is the only one who does,
\* and nobody drops it.  (A job sealed before a fork is the parent's.)
OnePlace ==
  \A j \in Jobs : sealed[j] = pid => Places(j) = 1

\* What waits in the queue is within both bounds, in jobs and in real bytes, and
\* the counter agrees with it whenever the lock is free.  (Nested
\* frames make the counter drift: see Store.)
Nests == \E f \in Frames : f[2] = "nested" /\ host.calls[f] # {}
Backlog ==
  ~ Nests =>
  /\ Len(entries) <= MaxJobs
  /\ Held(entries) <= MaxBytes
  /\ (\A f \in Frames : ~ InLock(f)) => bytes = Held(entries)

\* The in-flight count drain_all waits on is the worker's: not 0 only while the
\* worker of this process has a job, and 0 only when it has none; so a drain
\* that returned without a timeout left no parse behind.
Waiting == \E f \in Frames : pc[f] \in {"wait", "waiting"}
InFlightIsWorkers ==
  Waiting => (in_flight > 0 <=> pc[<<Worker, "base">>] \in {"run", "done"})

\* After a fork whose hook ran the child finishes no job the parent sealed: the
\* parent ships it.
ChildEmitsNothing ==
  hooked => \A j \in Jobs : \A n \in DOMAIN finished[j] :
              finished[j][n][2] = sealed[j]

\* What capture_deferred's docstring says of it: a total function, no branch of
\* which raises.
SubmitIsTotal == raised = {}

\* Submitted work is finished, although nobody ever flushes: the wake is not
\* lost, even when it comes while the worker is on its way back to sleep.
SubmittedIsFinished ==
  \A j \in Jobs :
    sealed[j] = pid ~> \/ finished[j] # <<>> \/ j \in raised
                       \/ stopping \/ sealed[j] # pid

\* Every job is finished once, by the process that sealed it, whoever takes it out of the
\* queue and whatever forks meanwhile; and the two counters that submit()'s bounds and
\* drain_all()'s wait rest on agree with the queue and with the worker.
JobsAccounted == TypeOK /\ OnePlace /\ ChildEmitsNothing /\ Backlog /\ InFlightIsWorkers

=============================================================================
