------------------------ MODULE FinalizeQueue_proofs ------------------------
(***************************************************************************)
(* For any number of jobs, threads, drains and forks, and whatever runs    *)
(* nested: each job is finished once, by the process that sealed it, the   *)
(* backlog keeps to its bounds, and the count that drains wait for is the  *)
(* worker's (JobsAccounted).                                               *)
(***************************************************************************)
EXTENDS FinalizeQueue, Collections

-----------------------------------------------------------------------------
(* The inductive invariant.                                                *)

W == <<Worker, "base">>

Submitting == {"room", "pop", "evicting"}
HasOne     == {"taken", "run", "leftTaken", "leftRun"}
HasNone    == {"idle", "begin", "take", "left", "wait", "waiting", "done"}
Popping    == {"evicting", "taken", "leftTaken"}

\* What a frame has in its hands where it is.
Hands ==
  \A f \in Frames :
    /\ IF pc[f] \in Submitting THEN coming[f] \in Jobs ELSE coming[f] = Nothing
    /\ pc[f] \in HasOne => Len(hand[f]) = 1
    /\ pc[f] = "evicting" => hand[f] # <<>>
    /\ pc[f] \in HasNone => hand[f] = <<>>

\* The worker's loop is the worker's, which does nothing else.
WorkerApart ==
  /\ \A f \in Frames : op[f] = "work" \/ pc[f] = "done" => f = W
  /\ pc[W] \in {"idle", "take", "taken", "run", "done"}
  /\ pc[W] # "idle" => op[W] = "work"

\* The jobs in the frames' hands, for the sum in Places.
InFrames(j) == [f \in Frames |-> Occurs(j, hand[f]) + Bit(coming[f] = j)]

\* A job of this process is in one place, and one that was not sealed in none.
Placed ==
  \A j \in Jobs :
    /\ sealed[j] <= pid
    /\ IsFiniteSet(Cells(InFrames(j)))
    /\ sealed[j] \in {0, pid} => Places(j) = Bit(sealed[j] # 0)

\* As long as each fork ran its hook, what waits was sealed in this process.
Pending(j) == j \in ToSet(entries) \/ \E f \in Frames : j \in ToSet(hand[f]) \/ coming[f] = j
Sealed    == hooked => (\A j \in Jobs : Pending(j) => sealed[j] = pid) /\ ChildEmitsNothing

\* The count is the worker's, or it came over a fork and nobody has looked at it.
Counted ==
  /\ owner <= pid
  /\ IF owner \in {0, pid}
     THEN /\ in_flight = Bit(pc[W] \in {"run", "done"})
          /\ in_flight = 1 => owner = pid
     ELSE ~ woken /\ \A f \in Frames : pc[f] \in {"idle", "begin"}

\* What runs nested is a call of the scenario.
NestedCalls == \A f \in Frames : f[2] = "nested" /\ pc[f] # "idle" => host.calls[f] # {}

\* Where nothing runs nested the lock is a frame's, and the counter is right but between a
\* load and its store.
Bounded ==
  ~ Nests =>
    /\ \A f, g \in Frames : InLock(f) /\ InLock(g) => f = g
    /\ Len(entries) <= MaxJobs /\ Held(entries) <= MaxBytes
    /\ \A f \in Frames : pc[f] \in Submitting => Size[coming[f]] <= MaxBytes
    /\ \A f \in Frames : pc[f] \in Popping => read[f] = Held(entries) + Size[Last(hand[f])]
    /\ (\A f \in Frames : pc[f] \notin Popping) => bytes = Held(entries)

QInv ==
  TypeOK /\ Hands /\ WorkerApart /\ Placed /\ Sealed /\ Counted /\ NestedCalls /\ Bounded

-----------------------------------------------------------------------------
(* What a step may change.                                                 *)

\* A step of frame f, forks apart.
Step(f) ==
  \/ \E j \in Jobs : Submit(f, j)
  \/ \E what \in {"flush", "signal", "close"} : DrainAll(f, what)
  \/ Work(f) \/ Continue(f)

\* It leaves the process and the other frames as they are.
OnlyFrame(f) ==
  /\ pid' = pid /\ hooked' = hooked /\ host' = host
  /\ \A g \in Frames \ {f} : /\ pc'[g] = pc[g] /\ op'[g] = op[g] /\ hand'[g] = hand[g]
                            /\ coming'[g] = coming[g] /\ read'[g] = read[g]

\* The queue is taken from at its front.
LEMMA PopTypes ==
  ASSUME TypeOK, QueueAssumption, NEW f \in Frames, NEW label \in Pcs, entries # <<>>, Pop(f, label)
  PROVE  /\ entries' \in Seq(Jobs) /\ bytes' = bytes /\ Head(entries) \in Jobs
         /\ hand' \in [Frames -> Seq(Jobs)] /\ read' \in [Frames -> Int] /\ pc' \in [Frames -> Pcs]
         /\ hand'[f] = Append(hand[f], Head(entries)) /\ read'[f] = bytes /\ pc'[f] = label
         /\ \A g \in Frames \ {f} : pc'[g] = pc[g] /\ hand'[g] = hand[g] /\ read'[g] = read[g]
<1>1. Head(entries) \in Jobs /\ Tail(entries) \in Seq(Jobs)
  BY HeadTailProperties DEF TypeOK
<1>2. Append(hand[f], Head(entries)) \in Seq(Jobs)
  BY <1>1, AppendProperties DEF TypeOK
<1> QED  BY <1>1, <1>2 DEF Pop, Goto, TypeOK

\* A store leaves a number.
LEMMA StoreTypes ==
  ASSUME TypeOK, QueueAssumption, NEW f \in Frames, hand[f] # <<>>, Store(f)
  PROVE  bytes' \in Int
<1>1. Last(hand[f]) \in Jobs
  BY OnceFront DEF TypeOK
<1> QED  BY <1>1 DEF Store, TypeOK, QueueAssumption

\* A finished job's record grows by one entry of this process.
LEMMA FinishTypes ==
  ASSUME TypeOK, NEW j \in Jobs, NEW how \in Ends, Finish(j, how)
  PROVE  /\ finished' \in [Jobs -> Seq(Ends \X (1 .. MaxForks + 1))]
         /\ finished'[j] = Append(finished[j], <<how, pid>>)
         /\ \A k \in Jobs \ {j} : finished'[k] = finished[k]
<1>1. <<how, pid>> \in Ends \X (1 .. MaxForks + 1)
  BY DEF TypeOK
<1>2. Append(finished[j], <<how, pid>>) \in Seq(Ends \X (1 .. MaxForks + 1))
  BY <1>1, AppendProperties DEF TypeOK
<1> QED  BY <1>2 DEF Finish, TypeOK

\* One job in hand is the first and the last there.
LEMMA OneInHand ==
  ASSUME TypeOK, Hands, NEW f \in Frames, pc[f] \in HasOne
  PROVE  hand[f] # <<>> /\ Tail(hand[f]) = <<>> /\ Last(hand[f]) = Head(hand[f])
<1> DEFINE s == hand[f]
<1>1. s \in Seq(Jobs) /\ Len(s) = 1
  BY DEF TypeOK, Hands
<1> HIDE DEF s
<1>2. s # <<>>
  BY ONLY <1>1, EmptyLen
<1>3. Last(s) = Head(s)
  BY <1>1, <1>2 DEF Last
<1>4. Tail(s) \in Seq(Jobs) /\ Len(Tail(s)) = 0
  BY <1>1, <1>2, HeadTailProperties
<1>5. Tail(s) = <<>>
  BY <1>4, EmptyLen
<1> QED  BY <1>2, <1>3, <1>5 DEF s

\* Every step keeps the types, and is one frame's.
LEMMA StepTypes ==
  ASSUME TypeOK, QueueAssumption, Hands, WorkerApart, Counted, NEW f \in Frames, Step(f)
  PROVE  TypeOK' /\ OnlyFrame(f)
<1>1. ASSUME NEW j \in Jobs, Submit(f, j)  PROVE TypeOK' /\ OnlyFrame(f)
  <2>1. <<j>> \in Seq(Jobs)
    OBVIOUS
  <2>2. pc' \in [Frames -> Pcs] /\ \A g \in Frames \ {f} : pc'[g] = pc[g]
    BY <1>1 DEF Submit, Goto, TypeOK, Pcs
  <2>3. in_flight' \in Nat /\ owner' \in 0 .. MaxForks + 1
    BY <1>1, QueueAssumption DEF Submit, Disown, TypeOK, QueueAssumption
  <2>4. hand' \in [Frames -> Seq(Jobs)] /\ coming' \in [Frames -> Jobs \cup {Nothing}]
        /\ \A g \in Frames \ {f} : hand'[g] = hand[g] /\ coming'[g] = coming[g]
    BY <1>1, <2>1, ZenonT(200) DEF Submit, TypeOK
  <2>5. op' \in [Frames -> Ops \cup {"work", Nothing}] /\ \A g \in Frames \ {f} : op'[g] = op[g]
    BY <1>1 DEF Submit, TypeOK, Ops
  <2>6. sealed' \in [Jobs -> 0 .. MaxForks + 1]
    BY <1>1 DEF Submit, TypeOK
  <2> QED  BY <1>1, <2>2, <2>3, <2>4, <2>5, <2>6 DEF Submit, queue, TypeOK, OnlyFrame
<1>2. ASSUME NEW what \in {"flush", "signal", "close"}, DrainAll(f, what)  PROVE TypeOK' /\ OnlyFrame(f)
  <2>1. drains' \in 0 .. MaxDrains
    BY <1>2, QueueAssumption DEF DrainAll, TypeOK, QueueAssumption
  <2> QED  BY <1>2, <2>1 DEF DrainAll, Goto, queue, flight, TypeOK, OnlyFrame, Pcs, Ops
<1>3. CASE FoundFull(f) \/ Wake(f) \/ WorkerWoken(f) \/ WorkerDone(f)
  <2>1. CASE FoundFull(f)
    BY <2>1 DEF FoundFull, Goto, queue, flight, ghosts, TypeOK, OnlyFrame, Pcs
  <2>2. CASE Wake(f)
    BY <2>2 DEF Wake, Goto, queue, flight, ghosts, TypeOK, OnlyFrame, Pcs
  <2>3. CASE WorkerWoken(f)
    BY <2>3 DEF WorkerWoken, Goto, queue, flight, ghosts, TypeOK, OnlyFrame, Pcs
  <2>4. CASE WorkerDone(f)
    <3>1. f = W /\ in_flight = 1
      BY <2>4 DEF WorkerDone, At, Counted, WorkerApart, Bit
    <3>2. in_flight' = 0 /\ owner' = 0 /\ 0 \in 0 .. MaxForks + 1
      BY <2>4, <3>1, QueueAssumption DEF WorkerDone, QueueAssumption
    <3> QED  BY <2>4, <3>2 DEF WorkerDone, Goto, queue, ghosts, TypeOK, OnlyFrame, Pcs
  <2> QED  BY <1>3, <2>1, <2>2, <2>3, <2>4
<1>4. CASE DrainBegins(f) \/ DrainEnds(f) \/ WaitSatisfied(f) \/ Waits(f) \/ WaitTimesOut(f)
  <2>1. CASE DrainBegins(f)
    <3>1. in_flight' \in Nat /\ owner' \in 0 .. MaxForks + 1
      BY <2>1, QueueAssumption DEF DrainBegins, Disown, TypeOK, QueueAssumption
    <3> QED  BY <2>1, <3>1 DEF DrainBegins, Goto, queue, ghosts, TypeOK, OnlyFrame, Pcs
  <2>2. CASE DrainEnds(f)
    BY <2>2 DEF DrainEnds, Goto, queue, flight, ghosts, TypeOK, OnlyFrame, Pcs
  <2>3. CASE WaitSatisfied(f) \/ WaitTimesOut(f)
    BY <2>3 DEF WaitSatisfied, WaitTimesOut, Returns, Goto, queue, flight, ghosts, TypeOK, OnlyFrame, Pcs
  <2>4. CASE Waits(f)
    BY <2>4 DEF Waits, Goto, queue, flight, ghosts, TypeOK, OnlyFrame, Pcs
  <2> QED  BY <1>4, <2>1, <2>2, <2>3, <2>4
<1>5. CASE EvictOldest(f) \/ WorkerTake(f) \/ DrainTakes(f) \/ LeftTakes(f)
  <2>1. ASSUME NEW label \in Pcs, entries # <<>>, Pop(f, label),
               UNCHANGED <<stopping, flight, woken, pid, op, coming, ghosts, finished>>
        PROVE  TypeOK' /\ OnlyFrame(f)
    BY <2>1, PopTypes DEF flight, ghosts, TypeOK, OnlyFrame
  <2>2. ASSUME Goto(f, "idle") \/ Goto(f, "wait"), UNCHANGED <<queue, hand, read>>,
               op' = op \/ op' = [op EXCEPT ![f] = Nothing],
               UNCHANGED <<stopping, flight, woken, pid, coming, ghosts, finished>>
        PROVE  TypeOK' /\ OnlyFrame(f)
    BY <2>2 DEF Goto, queue, flight, ghosts, TypeOK, OnlyFrame, Pcs
  <2>3. {"evicting", "taken", "leftTaken"} \subseteq Pcs
    BY DEF Pcs
  <2>4. CASE EvictOldest(f)
    BY <2>1, <2>3, <2>4 DEF EvictOldest
  <2>5. CASE WorkerTake(f)
    BY <2>1, <2>2, <2>3, <2>5 DEF WorkerTake
  <2>6. CASE DrainTakes(f)
    BY <2>1, <2>3, <2>6 DEF DrainTakes
  <2>7. CASE LeftTakes(f)
    BY <2>1, <2>2, <2>3, <2>7 DEF LeftTakes
  <2> QED  BY <1>5, <2>4, <2>5, <2>6, <2>7
<1>6. CASE PopRaises(f)
  <2>1. coming[f] \in Jobs /\ ToSet(hand[f]) \subseteq Jobs
    BY <1>6, ToSetSeq DEF PopRaises, At, Hands, Submitting, TypeOK
  <2>2. <<>> \in Seq(Jobs)
    OBVIOUS
  <2> QED  BY <1>6, <2>1, <2>2 DEF PopRaises, Goto, queue, flight, TypeOK, OnlyFrame, Pcs
<1>7. CASE Evicted(f) \/ WorkerTaken(f) \/ DrainTaken(f)
  <2>1. hand[f] # <<>> /\ Store(f)
    <3>1. pc[f] \in HasOne \cup {"evicting"} /\ Store(f)
      BY <1>7 DEF Evicted, WorkerTaken, DrainTaken, At, HasOne
    <3> QED  BY <3>1, OneInHand DEF Hands
  <2>2. bytes' \in Int
    BY <2>1, StoreTypes
  <2>3. CASE Evicted(f)
    BY <2>2, <2>3 DEF Evicted, Goto, flight, ghosts, TypeOK, OnlyFrame, Pcs
  <2>4. CASE WorkerTaken(f)
    BY <2>2, <2>4, QueueAssumption DEF WorkerTaken, Goto, ghosts, TypeOK, OnlyFrame, Pcs, QueueAssumption
  <2>5. CASE DrainTaken(f)
    BY <2>2, <2>5 DEF DrainTaken, Goto, flight, ghosts, TypeOK, OnlyFrame, Pcs
  <2> QED  BY <1>7, <2>3, <2>4, <2>5
<1>8. CASE Enqueue(f)
  <2>1. coming[f] \in Jobs
    BY <1>8 DEF Enqueue, At, Hands, Submitting
  <2>2. Append(entries, coming[f]) \in Seq(Jobs)
    BY <2>1, AppendProperties DEF TypeOK
  <2>3. bytes + Size[coming[f]] \in Int
    BY <2>1 DEF TypeOK, QueueAssumption
  <2> QED  BY <1>8, <2>2, <2>3 DEF Enqueue, Goto, flight, ghosts, TypeOK, OnlyFrame, Pcs
<1>9. CASE FallbackNow(f) \/ WorkerRuns(f) \/ DrainRuns(f)
  <2>1. hand[f] # <<>>
    <3>1. pc[f] \in HasOne \/ hand[f] # <<>>
      BY <1>9 DEF FallbackNow, WorkerRuns, DrainRuns, At, HasOne
    <3> QED  BY <3>1, OneInHand
  <2>2. Head(hand[f]) \in Jobs /\ Tail(hand[f]) \in Seq(Jobs) /\ <<>> \in Seq(Jobs)
    BY <2>1, HeadTailProperties DEF TypeOK
  <2>3. \E how \in Ends : Finish(Head(hand[f]), how)
    BY <1>9 DEF FallbackNow, WorkerRuns, DrainRuns, Ends
  <2>4. finished' \in [Jobs -> Seq(Ends \X (1 .. MaxForks + 1))]
    BY <2>2, <2>3, FinishTypes
  <2>5. CASE FallbackNow(f)
    BY <2>2, <2>4, <2>5 DEF FallbackNow, queue, flight, ghosts, TypeOK, OnlyFrame
  <2>6. CASE WorkerRuns(f)
    BY <2>2, <2>4, <2>6 DEF WorkerRuns, Goto, queue, flight, ghosts, TypeOK, OnlyFrame, Pcs
  <2>7. CASE DrainRuns(f)
    BY <2>2, <2>4, <2>7 DEF DrainRuns, Goto, queue, flight, ghosts, TypeOK, OnlyFrame, Pcs
  <2> QED  BY <1>9, <2>5, <2>6, <2>7
<1> QED  BY <1>1, <1>2, <1>3, <1>4, <1>5, <1>6, <1>7, <1>8, <1>9 DEF Step, Work, Continue

-----------------------------------------------------------------------------
(* Where each frame is, and what it has in its hands.                      *)

\* One frame's part of Hands, of WorkerApart and of NestedCalls.
InOrder(f) ==
  /\ IF pc[f] \in Submitting THEN coming[f] \in Jobs ELSE coming[f] = Nothing
  /\ pc[f] \in HasOne => Len(hand[f]) = 1
  /\ pc[f] = "evicting" => hand[f] # <<>>
  /\ pc[f] \in HasNone => hand[f] = <<>>
  /\ op[f] = "work" \/ pc[f] = "done" => f = W
  /\ f = W => pc[f] \in {"idle", "take", "taken", "run", "done"} /\ (pc[f] # "idle" => op[f] = "work")
  /\ f[2] = "nested" /\ pc[f] # "idle" => host.calls[f] # {}

LEMMA FramesInOrder ==
  Hands /\ WorkerApart /\ NestedCalls <=> \A f \in Frames : InOrder(f)
<1>1. W \in Frames
  BY DEF W, Frames, Levels
<1> QED  BY <1>1 DEF Hands, WorkerApart, NestedCalls, InOrder

\* After its step a frame's hands are what its place says.
LEMMA StepInOrder ==
  ASSUME TypeOK, QueueAssumption, Hands, WorkerApart, NestedCalls, NEW f \in Frames, Step(f), TypeOK'
  PROVE  InOrder(f)'
<1> USE DEF At, Goto, Submitting, HasOne, HasNone, Nothing, queue, flight, ghosts
<1>0. /\ InOrder(f) /\ Nothing \notin Jobs
      /\ host.calls[W] = {} /\ W[2] = "base" /\ (f[2] = "nested" => f # W)
  <2>1. InOrder(f)
    BY FramesInOrder
  <2>2. host.calls[W] = {} /\ Nothing \notin Jobs
    BY DEF W, QueueAssumption, TypeOK
  <2>3. W[2] = "base"
    BY DEF W
  <2> QED  BY <2>1, <2>2, <2>3
<1>1. ASSUME NEW j \in Jobs, Submit(f, j)  PROVE InOrder(f)'
  <2>1. f # W /\ host.calls[f] # {} /\ host' = host /\ pc[f] = "idle" /\ hand[f] = <<>> /\ coming[f] = Nothing
    BY <1>0, <1>1 DEF Submit, MayCall, InOrder
  <2>2. op'[f] = "submit"
    BY <1>1 DEF Submit, TypeOK
  <2>3. \/ pc'[f] = "fallback" /\ coming'[f] = Nothing
        \/ pc'[f] = "room" /\ coming'[f] = j
    BY <1>1, <2>1 DEF Submit, TypeOK
  <2> QED  BY <1>0, <2>1, <2>2, <2>3 DEF InOrder
<1>2. ASSUME NEW what \in {"flush", "signal", "close"}, DrainAll(f, what)  PROVE InOrder(f)'
  <2>1. f # W /\ host.calls[f] # {} /\ host' = host /\ pc[f] = "idle" /\ hand[f] = <<>> /\ coming[f] = Nothing
    BY <1>0, <1>2 DEF DrainAll, MayCall, InOrder
  <2>2. op'[f] = what /\ pc'[f] = "begin" /\ hand'[f] = hand[f] /\ coming'[f] = coming[f]
    BY <1>2 DEF DrainAll, TypeOK
  <2> QED  BY <1>0, <2>1, <2>2 DEF InOrder
<1>3. CASE FoundFull(f) \/ Wake(f) \/ WorkerWoken(f) \/ WorkerDone(f)
  <2>1. CASE FoundFull(f)
    BY <1>0, <2>1 DEF FoundFull, InOrder, TypeOK
  <2>2. CASE Wake(f)
    BY <1>0, <2>2 DEF Wake, InOrder, TypeOK
  <2>3. CASE WorkerWoken(f)
    <3>1. f = W /\ pc'[f] = "take" /\ op'[f] = "work" /\ pc[f] = "idle"
      BY <2>3 DEF WorkerWoken, W, TypeOK
    <3>2. hand'[f] = <<>> /\ coming'[f] = Nothing
      BY <1>0, <2>3, <3>1 DEF WorkerWoken, InOrder
    <3> QED  BY <1>0, <3>1, <3>2 DEF InOrder
  <2>4. CASE WorkerDone(f)
    BY <1>0, <2>4 DEF WorkerDone, InOrder, TypeOK
  <2> QED  BY <1>3, <2>1, <2>2, <2>3, <2>4
<1>4. CASE DrainBegins(f) \/ DrainEnds(f) \/ WaitSatisfied(f) \/ Waits(f) \/ WaitTimesOut(f)
  <2>1. CASE DrainBegins(f)
    BY <1>0, <2>1 DEF DrainBegins, InOrder, TypeOK
  <2>2. CASE DrainEnds(f)
    BY <1>0, <2>2 DEF DrainEnds, InOrder, TypeOK
  <2>3. CASE WaitSatisfied(f)
    BY <1>0, <2>3 DEF WaitSatisfied, Returns, InOrder, TypeOK
  <2>4. CASE Waits(f)
    BY <1>0, <2>4 DEF Waits, InOrder, TypeOK
  <2>5. CASE WaitTimesOut(f)
    BY <1>0, <2>5 DEF WaitTimesOut, Returns, InOrder, TypeOK
  <2> QED  BY <1>4, <2>1, <2>2, <2>3, <2>4, <2>5
<1>5. CASE Evicted(f) \/ WorkerTaken(f) \/ DrainTaken(f) \/ Enqueue(f)
  <2>1. CASE Evicted(f)
    BY <1>0, <2>1 DEF Evicted, InOrder, TypeOK
  <2>2. CASE WorkerTaken(f)
    BY <1>0, <2>2 DEF WorkerTaken, InOrder, TypeOK
  <2>3. CASE DrainTaken(f)
    BY <1>0, <2>3, ZenonT(200) DEF DrainTaken, InOrder, TypeOK
  <2>4. CASE Enqueue(f)
    BY <1>0, <2>4 DEF Enqueue, InOrder, TypeOK
  <2> QED  BY <1>5, <2>1, <2>2, <2>3, <2>4
<1>6. CASE PopRaises(f)
  BY <1>0, <1>6 DEF PopRaises, InOrder, TypeOK
<1>7. CASE FallbackNow(f) \/ WorkerRuns(f) \/ DrainRuns(f)
  BY <1>0, <1>7, ZenonT(200) DEF FallbackNow, WorkerRuns, DrainRuns, InOrder, TypeOK
<1>8. CASE EvictOldest(f) \/ WorkerTake(f) \/ DrainTakes(f) \/ LeftTakes(f)
  <2>1. ASSUME NEW label \in {"evicting", "taken", "leftTaken"}, entries # <<>>, Pop(f, label), hand[f] = <<>> \/ label = "evicting"
        PROVE  /\ pc'[f] = label /\ hand'[f] # <<>>
               /\ label # "evicting" => Len(hand'[f]) = 1
    <3>1. label \in Pcs
      BY DEF Pcs
    <3>2. Head(entries) \in Jobs /\ hand'[f] = Append(hand[f], Head(entries)) /\ pc'[f] = label
      BY <2>1, <3>1, PopTypes
    <3> DEFINE s == hand[f]
               t == hand'[f]
    <3>3. s \in Seq(Jobs) /\ t \in Seq(Jobs) /\ Len(t) = Len(s) + 1
      BY <3>2, AppendProperties DEF TypeOK
    <3>4. s = <<>> \/ label = "evicting"
      BY <2>1
    <3> HIDE DEF s, t
    <3>5. t # <<>> /\ (label # "evicting" => Len(t) = 1)
      BY ONLY <3>3, <3>4, EmptyLen
    <3> QED  BY <3>2, <3>5 DEF t
  <2>2. CASE EvictOldest(f)
    BY <1>0, <2>1, <2>2 DEF EvictOldest, InOrder, TypeOK
  <2>3. CASE WorkerTake(f)
    <3>1. hand[f] = <<>>
      BY <1>0, <2>3 DEF WorkerTake, InOrder
    <3> QED  BY <1>0, <2>1, <2>3, <3>1, ZenonT(200) DEF WorkerTake, InOrder, TypeOK
  <2>4. CASE DrainTakes(f)
    <3>1. hand[f] = <<>>
      BY <1>0, <2>4 DEF DrainTakes, InOrder
    <3> QED  BY <1>0, <2>1, <2>4, <3>1 DEF DrainTakes, InOrder, TypeOK
  <2>5. CASE LeftTakes(f)
    <3>1. hand[f] = <<>>
      BY <1>0, <2>5 DEF LeftTakes, InOrder
    <3> QED  BY <1>0, <2>1, <2>5, <3>1, ZenonT(200) DEF LeftTakes, InOrder, TypeOK
  <2> QED  BY <1>8, <2>2, <2>3, <2>4, <2>5
<1> QED  BY <1>1, <1>2, <1>3, <1>4, <1>5, <1>6, <1>7, <1>8 DEF Step, Work, Continue

-----------------------------------------------------------------------------
(* Where the jobs are.                                                     *)

\* What a step does with the jobs: nothing, ...
Still == UNCHANGED <<entries, hand, coming, sealed, finished, raised>>

\* ... takes the oldest one out of the queue, ...
Takes(f) ==
  /\ entries # <<>> /\ entries' = Tail(entries)
  /\ hand' = [hand EXCEPT ![f] = Append(@, Head(entries))]
  /\ UNCHANGED <<coming, sealed, finished, raised>>

\* ... finishes the first one in hand, ...
Finishes(f) ==
  /\ hand[f] # <<>> /\ hand' = [hand EXCEPT ![f] = Tail(@)]
  /\ \E how \in Ends : Finish(Head(hand[f]), how)
  /\ UNCHANGED <<entries, coming, sealed, raised>>

\* ... seals one, ...
Seals(f, j) ==
  /\ sealed[j] = 0 /\ sealed' = [sealed EXCEPT ![j] = pid]
  /\ hand[f] = <<>> /\ coming[f] = Nothing
  /\ \/ hand' = [hand EXCEPT ![f] = <<j>>] /\ UNCHANGED coming
     \/ coming' = [coming EXCEPT ![f] = j] /\ UNCHANGED hand
  /\ UNCHANGED <<entries, finished, raised>>

\* ... queues it, ...
Queues(f) ==
  /\ coming[f] \in Jobs /\ entries' = Append(entries, coming[f])
  /\ coming' = [coming EXCEPT ![f] = Nothing]
  /\ UNCHANGED <<hand, sealed, finished, raised>>

\* ... or loses those the frame has.
Loses(f) ==
  /\ coming[f] \in Jobs /\ raised' = raised \cup {coming[f]} \cup ToSet(hand[f])
  /\ coming' = [coming EXCEPT ![f] = Nothing]
  /\ hand' = [hand EXCEPT ![f] = <<>>]
  /\ UNCHANGED <<entries, sealed, finished>>

\* A step does one of these.
LEMMA JobsMove ==
  ASSUME TypeOK, Hands, NEW f \in Frames, Step(f)
  PROVE  Still \/ Takes(f) \/ Finishes(f) \/ (\E j \in Jobs : Seals(f, j)) \/ Queues(f) \/ Loses(f)
<1> USE DEF queue, flight, ghosts
<1>1. ASSUME NEW j \in Jobs, Submit(f, j)  PROVE Seals(f, j)
  <2>1. pc[f] = "idle"
    BY <1>1 DEF Submit, MayCall, At
  <2>2. hand[f] = <<>> /\ coming[f] = Nothing
    BY <2>1 DEF Hands, HasNone, Submitting
  <2> QED  BY <1>1, <2>2 DEF Submit, Seals
<1>2. ASSUME NEW what \in {"flush", "signal", "close"}, DrainAll(f, what)  PROVE Still
  BY <1>2 DEF DrainAll, Still
<1>3. CASE FoundFull(f) \/ Wake(f) \/ WorkerWoken(f) \/ WorkerDone(f)
  BY <1>3 DEF FoundFull, Wake, WorkerWoken, WorkerDone, Still
<1>4. CASE DrainBegins(f) \/ DrainEnds(f) \/ WaitSatisfied(f) \/ Waits(f) \/ WaitTimesOut(f)
  BY <1>4 DEF DrainBegins, DrainEnds, WaitSatisfied, Waits, WaitTimesOut, Returns, Still
<1>5. CASE Evicted(f) \/ WorkerTaken(f) \/ DrainTaken(f)
  BY <1>5 DEF Evicted, WorkerTaken, DrainTaken, Still
<1>6. CASE Enqueue(f)
  BY <1>6 DEF Enqueue, At, Hands, Submitting, Queues
<1>7. CASE PopRaises(f)
  BY <1>7 DEF PopRaises, At, Hands, Submitting, Loses
<1>8. CASE EvictOldest(f) \/ WorkerTake(f) \/ DrainTakes(f) \/ LeftTakes(f)
  BY <1>8 DEF EvictOldest, WorkerTake, DrainTakes, LeftTakes, Pop, Still, Takes
<1>9. CASE FallbackNow(f)
  BY <1>9 DEF FallbackNow, Finishes, Ends
<1>10. CASE WorkerRuns(f) \/ DrainRuns(f)
  <2>1. pc[f] \in HasOne
    BY <1>10 DEF WorkerRuns, DrainRuns, At, HasOne
  <2>2. hand[f] # <<>> /\ Tail(hand[f]) = <<>>
    BY <2>1, OneInHand
  <2>3. \E how \in Ends : Finish(Head(hand[f]), how)
    BY <1>10 DEF WorkerRuns, DrainRuns, Ends
  <2>4. hand' = [hand EXCEPT ![f] = <<>>] /\ UNCHANGED <<entries, coming, sealed, raised>>
    BY <1>10 DEF WorkerRuns, DrainRuns
  <2> QED  BY <2>2, <2>3, <2>4 DEF Finishes
<1> QED  BY <1>1, <1>2, <1>3, <1>4, <1>5, <1>6, <1>7, <1>8, <1>9, <1>10 DEF Step, Work, Continue

\* The terms of the sum in Places.
LEMMA InFramesType ==
  ASSUME TypeOK, NEW j \in Jobs
  PROVE  InFrames(j) \in [Frames -> Nat]
<1> SUFFICES ASSUME NEW f \in Frames  PROVE Occurs(j, hand[f]) + Bit(coming[f] = j) \in Nat
  BY DEF InFrames
<1>1. Occurs(j, hand[f]) \in Nat
  BY OccursNone DEF TypeOK
<1> QED  BY <1>1 DEF Bit

\* What Places sums up.
LEMMA PlacesParts ==
  ASSUME TypeOK, NEW j \in Jobs, IsFiniteSet(Cells(InFrames(j)))
  PROVE  /\ Places(j) = Occurs(j, entries) + Len(finished[j]) + Bit(j \in raised) + Total(InFrames(j))
         /\ Occurs(j, entries) \in Nat /\ Len(finished[j]) \in Nat /\ Bit(j \in raised) \in {0, 1}
         /\ Total(InFrames(j)) \in Nat
<1>1. Occurs(j, entries) \in Nat
  BY OccursNone DEF TypeOK
<1>2. Len(finished[j]) \in Nat
  BY EmptyLen DEF TypeOK
<1>3. Total(InFrames(j)) \in Nat
  BY FS_CardinalityType DEF Total
<1> QED  BY <1>1, <1>2, <1>3 DEF Places, InFrames, Bit

\* How often frame f has job j.
Here(f, j) == Occurs(j, hand[f]) + Bit(coming[f] = j)

LEMMA HereType ==
  ASSUME TypeOK, NEW j \in Jobs, NEW f \in Frames
  PROVE  /\ Here(f, j) \in Nat /\ InFrames(j)[f] = Here(f, j)
         /\ Here(f, j) = 0 <=> j \notin ToSet(hand[f]) /\ coming[f] # j
<1>1. Occurs(j, hand[f]) \in Nat /\ (Occurs(j, hand[f]) = 0 <=> j \notin ToSet(hand[f]))
  BY OccursNone DEF TypeOK
<1> QED  BY <1>1 DEF Here, InFrames, Bit

\* A frame's step changes what that frame adds to the sum.
LEMMA InFramesStep ==
  ASSUME TypeOK, TypeOK', NEW f \in Frames, OnlyFrame(f), NEW j \in Jobs, IsFiniteSet(Cells(InFrames(j)))
  PROVE  /\ IsFiniteSet(Cells(InFrames(j)'))
         /\ Total(InFrames(j)') + Here(f, j) = Total(InFrames(j)) + Here(f, j)'
<1> DEFINE n == InFrames(j)
           m == InFrames(j)'
<1>1. n \in [Frames -> Nat] /\ m \in [Frames -> Nat]
  <2>1. n \in [Frames -> Nat]
    BY InFramesType
  <2>2. ASSUME NEW g \in Frames  PROVE Occurs(j, hand'[g]) + Bit(coming'[g] = j) \in Nat
    <3>1. Occurs(j, hand'[g]) \in Nat
      BY OccursNone DEF TypeOK
    <3> QED  BY <3>1 DEF Bit
  <2>3. m \in [Frames -> Nat]
    BY <2>2 DEF InFrames
  <2> QED  BY <2>1, <2>3
<1>2. \A g \in Frames : g # f => m[g] = n[g]
  BY DEF InFrames, OnlyFrame
<1>3. n[f] = Here(f, j) /\ m[f] = Here(f, j)'
  BY DEF InFrames, Here
<1> HIDE DEF n, m
<1>4. IsFiniteSet(Cells(n))
  BY DEF n
<1>5. IsFiniteSet(Cells(m)) /\ Total(m) + n[f] = Total(n) + m[f]
  BY <1>1, <1>2, <1>4, TotalExcept
<1> QED  BY <1>3, <1>5 DEF n, m

\* What a place gains another loses, in a sum of four.
LEMMA FourParts ==
  ASSUME NEW e \in Nat, NEW l \in Nat, NEW r \in Nat, NEW s \in Nat, NEW h \in Nat,
         NEW e1 \in Nat, NEW l1 \in Nat, NEW r1 \in Nat, NEW s1 \in Nat, NEW h1 \in Nat,
         s1 + h = s + h1
  PROVE  (e1 + l1 + r1 + s1) + (e + l + r + h) = (e + l + r + s) + (e1 + l1 + r1 + h1)
  OBVIOUS

\* Every step keeps each job of this process in its one place.
LEMMA PlacedStep ==
  ASSUME TypeOK, TypeOK', Hands, Placed, NEW f \in Frames, Step(f), OnlyFrame(f)
  PROVE  Placed'
<1> SUFFICES ASSUME NEW j \in Jobs
             PROVE  /\ sealed'[j] <= pid' /\ IsFiniteSet(Cells(InFrames(j)'))
                    /\ sealed'[j] \in {0, pid'} => Places(j)' = Bit(sealed'[j] # 0)
  BY DEF Placed
<1>1. /\ IsFiniteSet(Cells(InFrames(j))) /\ sealed[j] <= pid /\ pid' = pid
      /\ sealed[j] \in {0, pid} => Places(j) = Bit(sealed[j] # 0)
  BY DEF Placed, OnlyFrame
<1>2. IsFiniteSet(Cells(InFrames(j)')) /\ Total(InFrames(j)') + Here(f, j) = Total(InFrames(j)) + Here(f, j)'
  BY <1>1, InFramesStep
<1> DEFINE e == Occurs(j, entries)
           l == Len(finished[j])
           r == Bit(j \in raised)
           s == Total(InFrames(j))
           h == Here(f, j)
           p == Places(j)
           e1 == Occurs(j, entries')
           l1 == Len(finished'[j])
           r1 == Bit(j \in raised')
           s1 == Total(InFrames(j)')
           h1 == Occurs(j, hand'[f]) + Bit(coming'[f] = j)
           p1 == Places(j)'
<1>3. /\ e \in Nat /\ l \in Nat /\ r \in Nat /\ r <= 1 /\ s \in Nat /\ h \in Nat
      /\ p = e + l + r + s /\ p \in Nat
      /\ sealed[j] \in {0, pid} => p = Bit(sealed[j] # 0)
  <2>1. e \in Nat /\ l \in Nat /\ s \in Nat /\ h \in Nat /\ p = e + l + r + s
    BY <1>1, PlacesParts, HereType
  <2>2. r \in Nat /\ r <= 1
    BY DEF Bit
  <2> QED  BY <1>1, <2>1, <2>2
<1>4. /\ e1 \in Nat /\ l1 \in Nat /\ r1 \in Nat /\ r1 <= 1 /\ s1 \in Nat /\ h1 \in Nat
      /\ p1 = e1 + l1 + r1 + s1 /\ p1 \in Nat
  <2>1. e1 \in Nat /\ Occurs(j, hand'[f]) \in Nat
    BY OccursNone DEF TypeOK
  <2>2. l1 \in Nat
    BY EmptyLen DEF TypeOK
  <2>3. s1 \in Nat
    BY <1>2, FS_CardinalityType DEF Total
  <2> QED  BY <2>1, <2>2, <2>3 DEF Places, InFrames, Here, Bit
<1>5. s1 + h = s + h1
  BY <1>2 DEF Here
<1> HIDE DEF e, l, r, s, h, p, e1, l1, r1, s1, h1, p1
<1>6. p1 + (e + l + r + h) = p + (e1 + l1 + r1 + h1)
  <2>1. r \in Nat /\ r1 \in Nat
    BY <1>3, <1>4
  <2>2. (e1 + l1 + r1 + s1) + (e + l + r + h) = (e + l + r + s) + (e1 + l1 + r1 + h1)
    BY <1>3, <1>4, <1>5, <2>1, FourParts
  <2> QED  BY <1>3, <1>4, <2>2
<1>20. sealed[j] <= pid /\ pid' = pid
  BY <1>1
<1> SUFFICES sealed'[j] <= pid' /\ (sealed'[j] \in {0, pid'} => p1 = Bit(sealed'[j] # 0))
  BY <1>2 DEF p1
<1>7. ASSUME e1 + l1 + r1 + h1 = e + l + r + h, sealed'[j] = sealed[j]
      PROVE  sealed'[j] <= pid' /\ (sealed'[j] \in {0, pid'} => p1 = Bit(sealed'[j] # 0))
  <2>1. p1 = p
    BY <1>3, <1>4, <1>6, <1>7
  <2> QED  BY <1>20, <1>3, <1>7, <2>1
<1>8. CASE Still
  BY <1>7, <1>8 DEF Still, e, l, r, h, e1, l1, r1, h1, Here
<1>9. CASE Takes(f)
  <2>1. Occurs(j, entries) = Occurs(j, Tail(entries)) + Bit(Head(entries) = j) /\ Head(entries) \in Jobs
    BY <1>9, OccursTail, HeadTailProperties DEF Takes, TypeOK
  <2>2. Occurs(j, Append(hand[f], Head(entries))) = Occurs(j, hand[f]) + Bit(Head(entries) = j)
        /\ Occurs(j, hand[f]) \in Nat
    <3>1. hand[f] \in Seq(Jobs) /\ Head(entries) \in Jobs
      BY <2>1 DEF TypeOK
    <3> QED  BY ONLY <3>1, OccursWith
  <2>3. entries' = Tail(entries) /\ hand'[f] = Append(hand[f], Head(entries)) /\ coming' = coming
        /\ finished' = finished /\ raised' = raised /\ sealed' = sealed
    BY <1>9 DEF Takes, TypeOK
  <2> DEFINE b == Bit(Head(entries) = j)
  <2>4. e = e1 + b /\ b \in Nat
    BY <2>1, <2>3 DEF e, e1, Bit
  <2>5. h1 = h + b
    BY <2>2, <2>3 DEF h, h1, Here, Bit
  <2>6. l1 = l /\ r1 = r
    BY <2>3 DEF l, r, l1, r1
  <2> HIDE DEF b
  <2>7. e1 + l1 + r1 + h1 = e + l + r + h
    BY <1>3, <1>4, <2>4, <2>5, <2>6
  <2> QED  BY <1>7, <2>3, <2>7
<1>10. CASE Finishes(f)
  <2>1. Occurs(j, hand[f]) = Occurs(j, Tail(hand[f])) + Bit(Head(hand[f]) = j) /\ Occurs(j, Tail(hand[f])) \in Nat
    <3>1. hand[f] \in Seq(Jobs) /\ hand[f] # <<>>
      BY <1>10 DEF Finishes, TypeOK
    <3> QED  BY ONLY <3>1, OccursTail
  <2>2. Head(hand[f]) \in Jobs
    BY <1>10, HeadTailProperties DEF Finishes, TypeOK
  <2>3. PICK how \in Ends : Finish(Head(hand[f]), how)
    BY <1>10 DEF Finishes
  <2>4. entries' = entries /\ hand'[f] = Tail(hand[f]) /\ coming' = coming /\ raised' = raised /\ sealed' = sealed
    BY <1>10 DEF Finishes, TypeOK
  <2> DEFINE b == Bit(Head(hand[f]) = j)
  <2>5. h = h1 + b /\ b \in Nat
    BY <2>1, <2>4 DEF h, h1, Here, Bit
  <2>6. l1 = l + b
    <3>1. Head(hand[f]) # j => finished'[j] = finished[j]
      BY <2>2, <2>3, FinishTypes
    <3>2. Head(hand[f]) = j => finished'[j] = Append(finished[j], <<how, pid>>)
      BY <2>2, <2>3, FinishTypes
    <3>3. <<how, pid>> \in Ends \X (1 .. MaxForks + 1)
      BY DEF TypeOK
    <3>4. Len(Append(finished[j], <<how, pid>>)) = Len(finished[j]) + 1 /\ Len(finished[j]) \in Nat
      BY <3>3, AppendProperties, EmptyLen DEF TypeOK
    <3>5. CASE Head(hand[f]) = j
      BY <3>2, <3>4, <3>5 DEF l, l1, Bit
    <3>6. CASE Head(hand[f]) # j
      <4>1. l1 = l /\ b = 0
        BY <3>1, <3>6 DEF l, l1, Bit
      <4> QED  BY <1>3, <4>1
    <3> QED  BY <3>5, <3>6
  <2>7. e1 = e /\ r1 = r
    BY <2>4 DEF e, r, e1, r1
  <2> HIDE DEF b
  <2>8. e1 + l1 + r1 + h1 = e + l + r + h
    BY <1>3, <1>4, <2>5, <2>6, <2>7
  <2> QED  BY <1>7, <2>4, <2>8
<1>11. CASE Queues(f)
  <2>1. Occurs(j, Append(entries, coming[f])) = Occurs(j, entries) + Bit(coming[f] = j) /\ Occurs(j, entries) \in Nat
    BY <1>11, OccursWith, SMTT(90) DEF Queues, TypeOK
  <2>2. /\ entries' = Append(entries, coming[f]) /\ coming'[f] = Nothing /\ hand' = hand
        /\ finished' = finished /\ raised' = raised /\ sealed' = sealed
    BY <1>11 DEF Queues, TypeOK
  <2>3. Nothing # j
    BY QueueAssumption DEF QueueAssumption
  <2> DEFINE b == Bit(coming[f] = j)
  <2>4. e1 = e + b /\ b \in Nat
    BY <2>1, <2>2 DEF e, e1, Bit
  <2>5. h = h1 + b
    <3>1. Occurs(j, hand[f]) \in Nat
      BY OccursNone DEF TypeOK
    <3> QED  BY <2>2, <2>3, <3>1 DEF h, h1, Here, Bit
  <2>6. l1 = l /\ r1 = r
    BY <2>2 DEF l, r, l1, r1
  <2> HIDE DEF b
  <2>7. e1 + l1 + r1 + h1 = e + l + r + h
    BY <1>3, <1>4, <2>4, <2>5, <2>6
  <2> QED  BY <1>7, <2>2, <2>7
<1>12. ASSUME NEW i \in Jobs, Seals(f, i)
       PROVE  sealed'[j] <= pid' /\ (sealed'[j] \in {0, pid'} => p1 = Bit(sealed'[j] # 0))
  <2>1. Nothing # j
    BY QueueAssumption DEF QueueAssumption
  <2>2. e1 = e /\ l1 = l /\ r1 = r
    BY <1>12 DEF Seals, e, l, r, e1, l1, r1
  <2>3. h = 0 /\ h1 = Bit(i = j)
    <3>1. Occurs(j, <<>>) = 0 /\ Occurs(j, <<i>>) = Bit(i = j)
      BY OccursOne
    <3>2. \/ hand'[f] = <<i>> /\ coming'[f] = Nothing
          \/ hand'[f] = <<>> /\ coming'[f] = i
      BY <1>12 DEF Seals, TypeOK
    <3> QED  BY <1>12, <2>1, <3>1, <3>2 DEF Seals, h, h1, Here, Bit
  <2>4. CASE i = j
    <3>1. sealed'[j] = pid /\ pid \in Nat \ {0} /\ p = 0
      BY <1>3, <1>12, <2>4, QueueAssumption DEF Seals, TypeOK, QueueAssumption, Bit
    <3>2. h1 = 1
      BY <2>3, <2>4 DEF Bit
    <3>3. p1 = 1
      BY <1>3, <1>4, <1>6, <2>2, <2>3, <3>1, <3>2
    <3> QED  BY <1>20, <3>1, <3>3 DEF Bit
  <2>5. CASE i # j
    <3>1. h1 = 0 /\ sealed'[j] = sealed[j]
      BY <1>12, <2>3, <2>5 DEF Seals, TypeOK, Bit
    <3>2. e1 + l1 + r1 + h1 = e + l + r + h
      BY <1>3, <1>4, <2>2, <2>3, <3>1
    <3> QED  BY <1>7, <3>1, <3>2
  <2> QED  BY <2>4, <2>5
<1>13. CASE Loses(f)
  <2>1. /\ e1 = e /\ l1 = l /\ sealed' = sealed /\ hand'[f] = <<>> /\ coming'[f] = Nothing
        /\ raised' = raised \cup {coming[f]} \cup ToSet(hand[f])
    BY <1>13 DEF Loses, TypeOK, e, l, e1, l1
  <2>2. h1 = 0
    <3>1. Nothing # j
      BY QueueAssumption DEF QueueAssumption
    <3>2. Occurs(j, hand'[f]) = 0
      BY <2>1, OccursOne
    <3>3. Bit(coming'[f] = j) = 0
      BY <2>1, <3>1 DEF Bit
    <3> QED  BY <3>2, <3>3 DEF h1
  <2>3. h = 0 <=> j \notin ToSet(hand[f]) /\ coming[f] # j
    BY HereType DEF h
  <2>4. CASE h = 0
    <3>1. r1 = r
      BY <2>1, <2>3, <2>4 DEF r, r1
    <3>2. e1 + l1 + r1 + h1 = e + l + r + h
      BY <1>3, <1>4, <2>1, <2>2, <2>4, <3>1
    <3> QED  BY <1>7, <2>1, <3>2
  <2>5. CASE h # 0
    <3>1. sealed'[j] \in {0, pid} => r1 = 1 /\ r = 0 /\ h = 1
      <4>1. r1 = 1
        BY <2>1, <2>3, <2>5 DEF r, r1, Bit
      <4>2. h <= s
        <5>1. InFrames(j)[f] <= Total(InFrames(j))
          BY <1>1, InFramesType, TotalAtLeast
        <5> QED  BY <5>1, HereType DEF h, s
      <4>3. sealed'[j] \in {0, pid} => p \in {0, 1}
        BY <1>20, <1>3, <2>1 DEF Bit
      <4> QED  BY <1>3, <2>5, <4>1, <4>2, <4>3
    <3>2. sealed'[j] \in {0, pid} => p1 = p
      <4>1. e1 = e /\ l1 = l
        BY <2>1
      <4>2. ASSUME r1 = 1, r = 0, h = 1  PROVE p1 = p
        BY ONLY <1>3, <1>4, <1>6, <2>2, <4>1, <4>2
      <4> QED  BY <3>1, <4>2
    <3> QED  BY <1>20, <1>3, <2>1, <3>2
  <2> QED  BY <2>4, <2>5
<1> QED  BY <1>8, <1>9, <1>10, <1>11, <1>12, <1>13, JobsMove

\* What is somewhere after a step was somewhere before it, but for a job just sealed.
LEMMA PendingStep ==
  ASSUME TypeOK, TypeOK', Hands, NEW f \in Frames, Step(f), OnlyFrame(f), NEW j \in Jobs, Pending(j)'
  PROVE  Pending(j) \/ Seals(f, j)
<1>0. /\ entries \in Seq(Jobs) /\ hand[f] \in Seq(Jobs) /\ Nothing # j
      /\ \A g \in Frames \ {f} : hand'[g] = hand[g] /\ coming'[g] = coming[g]
  BY QueueAssumption DEF QueueAssumption, TypeOK, OnlyFrame
<1> SUFFICES ASSUME j \in ToSet(entries') \/ j \in ToSet(hand'[f]) \/ coming'[f] = j
             PROVE  Pending(j) \/ Seals(f, j)
  BY <1>0 DEF Pending
<1>1. CASE Still
  BY <1>1 DEF Still, Pending
<1>2. CASE Takes(f)
  <2>1. Head(entries) \in ToSet(entries) /\ Head(entries) \in Jobs /\ ToSet(Tail(entries)) \subseteq ToSet(entries)
    BY <1>0, <1>2, OnceTail DEF Takes
  <2>2. ToSet(Append(hand[f], Head(entries))) = ToSet(hand[f]) \cup {Head(entries)}
    BY <1>0, <2>1, OnceAppend
  <2>3. entries' = Tail(entries) /\ hand'[f] = Append(hand[f], Head(entries)) /\ coming' = coming
    BY <1>2 DEF Takes, TypeOK
  <2> QED  BY <2>1, <2>2, <2>3 DEF Pending
<1>3. CASE Finishes(f)
  <2>1. ToSet(Tail(hand[f])) \subseteq ToSet(hand[f])
    BY <1>0, <1>3, OnceTail DEF Finishes
  <2>2. entries' = entries /\ hand'[f] = Tail(hand[f]) /\ coming' = coming
    BY <1>3 DEF Finishes, TypeOK
  <2> QED  BY <2>1, <2>2 DEF Pending
<1>4. ASSUME NEW i \in Jobs, Seals(f, i)  PROVE Pending(j) \/ Seals(f, j)
  <2>1. entries' = entries
    BY <1>4 DEF Seals
  <2>2. ToSet(<<i>>) = {i} /\ ToSet(<<>>) = {}
    BY DEF ToSet
  <2>3. \/ hand'[f] = <<i>> /\ coming'[f] = Nothing
        \/ hand'[f] = <<>> /\ coming'[f] = i
    BY <1>4 DEF Seals, TypeOK
  <2>4. j \in ToSet(entries) \/ j = i
    BY <1>0, <2>1, <2>2, <2>3
  <2> QED  BY <1>4, <2>4 DEF Pending
<1>5. CASE Queues(f)
  <2>1. ToSet(Append(entries, coming[f])) = ToSet(entries) \cup {coming[f]}
    BY <1>0, <1>5, OnceAppend DEF Queues
  <2>2. entries' = Append(entries, coming[f]) /\ hand' = hand /\ coming'[f] = Nothing
    BY <1>5 DEF Queues, TypeOK
  <2> QED  BY <1>0, <2>1, <2>2 DEF Pending
<1>6. CASE Loses(f)
  <2>1. entries' = entries /\ hand'[f] = <<>> /\ coming'[f] = Nothing
    BY <1>6 DEF Loses, TypeOK
  <2>2. ToSet(<<>>) = {}
    BY DEF ToSet
  <2> QED  BY <1>0, <2>1, <2>2 DEF Pending
<1> QED  BY <1>1, <1>2, <1>3, <1>4, <1>5, <1>6, JobsMove

\* Every step finishes and keeps only jobs of this process.
LEMMA SealedStep ==
  ASSUME TypeOK, TypeOK', Hands, Placed, Sealed, NEW f \in Frames, Step(f), OnlyFrame(f)
  PROVE  Sealed'
<1> SUFFICES ASSUME hooked'
             PROVE  (\A j \in Jobs : Pending(j)' => sealed'[j] = pid') /\ ChildEmitsNothing'
  BY DEF Sealed
<1>0. /\ hooked /\ pid' = pid /\ \A j \in Jobs : Pending(j) => sealed[j] = pid
      /\ \A j \in Jobs : \A n \in DOMAIN finished[j] : finished[j][n][2] = sealed[j]
  BY DEF OnlyFrame, Sealed, ChildEmitsNothing
<1>1. ASSUME NEW j \in Jobs, Seals(f, j)
      PROVE  /\ sealed'[j] = pid /\ \A i \in Jobs \ {j} : sealed'[i] = sealed[i]
             /\ finished' = finished /\ finished[j] = <<>>
  <2>1. /\ sealed'[j] = pid /\ finished' = finished /\ sealed[j] = 0
        /\ \A i \in Jobs \ {j} : sealed'[i] = sealed[i]
    BY <1>1 DEF Seals, TypeOK
  <2>2. IsFiniteSet(Cells(InFrames(j))) /\ Places(j) = 0
    BY <2>1 DEF Placed, Bit
  <2>3. Len(finished[j]) = 0
    BY <2>2, PlacesParts
  <2> QED  BY <2>1, <2>3, EmptyLen DEF TypeOK
<1>2. (\A j \in Jobs : ~ Seals(f, j)) => sealed' = sealed
  BY JobsMove DEF Still, Takes, Finishes, Queues, Loses
<1>3. ASSUME NEW j \in Jobs, Pending(j)'  PROVE sealed'[j] = pid'
  BY <1>0, <1>1, <1>2, <1>3, PendingStep
<1>4. ChildEmitsNothing'
  <2> SUFFICES ASSUME NEW j \in Jobs, NEW n \in DOMAIN finished'[j]  PROVE finished'[j][n][2] = sealed'[j]
    BY DEF ChildEmitsNothing
  <2>1. CASE Finishes(f)
    <3>1. PICK how \in Ends : Finish(Head(hand[f]), how)
      BY <2>1 DEF Finishes
    <3>2. Head(hand[f]) \in ToSet(hand[f]) /\ Head(hand[f]) \in Jobs /\ sealed' = sealed
      BY <2>1, OnceTail DEF Finishes, TypeOK
    <3>3. sealed[Head(hand[f])] = pid
      BY <1>0, <3>2 DEF Pending
    <3>4. CASE j = Head(hand[f])
      <4>1. finished'[j] = Append(finished[j], <<how, pid>>)
        BY <3>1, <3>2, <3>4, FinishTypes
      <4> DEFINE s == finished[j]
      <4>2. s \in Seq(Ends \X (1 .. MaxForks + 1)) /\ <<how, pid>> \in Ends \X (1 .. MaxForks + 1)
        BY DEF TypeOK
      <4> DEFINE t == Append(s, <<how, pid>>)
      <4>3. /\ Len(t) = Len(s) + 1 /\ t[Len(s) + 1] = <<how, pid>>
            /\ \A k \in 1 .. Len(s) : t[k] = s[k]
            /\ DOMAIN t = 1 .. Len(s) + 1 /\ DOMAIN s = 1 .. Len(s) /\ Len(s) \in Nat
        BY <4>2, AppendProperties, LenProperties
      <4>4. n \in 1 .. Len(s) + 1
        BY <4>1, <4>3
      <4>5. CASE n = Len(s) + 1
        <5>1. finished'[j][n] = <<how, pid>>
          BY ONLY <4>1, <4>3, <4>5
        <5>2. sealed'[j] = pid
          BY <3>2, <3>3, <3>4
        <5> QED  BY <5>1, <5>2
      <4>6. CASE n # Len(s) + 1
        <5>1. n \in DOMAIN s /\ t[n] = s[n]
          BY <4>3, <4>4, <4>6
        <5> QED  BY <1>0, <3>2, <4>1, <5>1
      <4> QED  BY <4>5, <4>6
    <3>5. CASE j # Head(hand[f])
      <4>1. finished'[j] = finished[j]
        BY <3>1, <3>2, <3>5, FinishTypes
      <4> QED  BY <1>0, <3>2, <4>1
    <3> QED  BY <3>4, <3>5
  <2>2. CASE ~ Finishes(f)
    <3>1. finished' = finished
      BY <2>2, JobsMove DEF Still, Takes, Seals, Queues, Loses
    <3>2. CASE \E i \in Jobs : Seals(f, i)
      <4>1. PICK i \in Jobs : Seals(f, i)
        BY <3>2
      <4>2. finished[i] = <<>> /\ \A k \in Jobs \ {i} : sealed'[k] = sealed[k]
        BY <1>1, <4>1
      <4> QED  BY <1>0, <3>1, <4>2
    <3>3. CASE \A i \in Jobs : ~ Seals(f, i)
      BY <1>0, <1>2, <3>1, <3>3
    <3> QED  BY <3>2, <3>3
  <2> QED  BY <2>1, <2>2
<1> QED  BY <1>3, <1>4

-----------------------------------------------------------------------------
(* The count of jobs in flight.                                            *)

\* The steps of the worker's own frame are those of its loop, and nobody else's are.
LEMMA OnlyWorkerWorks ==
  ASSUME TypeOK, QueueAssumption, WorkerApart, NEW f \in Frames, Step(f)
  PROVE  Work(f) <=> f = W
<1>1. ASSUME f = W, ~ Work(f)  PROVE FALSE
  <2>1. host.calls[W] = {}
    BY DEF W, QueueAssumption, TypeOK
  <2>2. pc[f] \in {"idle", "take", "taken", "run", "done"} /\ (pc[f] # "idle" => op[f] = "work")
    BY <1>1 DEF WorkerApart
  <2>3. \A j \in Jobs : ~ Submit(f, j)
    BY <1>1, <2>1 DEF Submit, MayCall
  <2>4. \A what \in {"flush", "signal", "close"} : ~ DrainAll(f, what)
    BY <1>1, <2>1 DEF DrainAll, MayCall
  <2>5. ~ (FoundFull(f) \/ EvictOldest(f) \/ PopRaises(f) \/ Evicted(f) \/ Enqueue(f) \/ FallbackNow(f) \/ Wake(f))
    BY <2>2 DEF FoundFull, EvictOldest, PopRaises, Evicted, Enqueue, FallbackNow, Wake, At
  <2>6. ~ (DrainBegins(f) \/ DrainTakes(f) \/ DrainTaken(f) \/ DrainRuns(f) \/ DrainEnds(f))
    BY <2>2 DEF DrainBegins, DrainTakes, DrainTaken, DrainRuns, DrainEnds, At
  <2>7. ~ (LeftTakes(f) \/ WaitSatisfied(f) \/ Waits(f) \/ WaitTimesOut(f))
    BY <2>2 DEF LeftTakes, WaitSatisfied, Waits, WaitTimesOut, At
  <2> QED  BY <1>1, <2>3, <2>4, <2>5, <2>6, <2>7 DEF Step, Continue
<1>2. ASSUME Work(f)  PROVE f = W
  BY <1>2 DEF Work, WorkerWoken, WorkerTake, WorkerTaken, WorkerRuns, WorkerDone, At, WorkerApart, W
<1> QED  BY <1>1, <1>2

\* Every step keeps the count the worker's.
LEMMA CountedStep ==
  ASSUME TypeOK, TypeOK', QueueAssumption, WorkerApart, Counted, NEW f \in Frames, Step(f), OnlyFrame(f)
  PROVE  Counted'
<1> USE DEF At, Goto, queue, flight, ghosts
<1>0. /\ W \in Frames /\ pid' = pid /\ pid \in Nat \ {0} /\ owner \in Nat /\ owner <= pid /\ in_flight \in Nat
      /\ pc[W] \in {"idle", "take", "taken", "run", "done"}
  BY QueueAssumption DEF W, Frames, Levels, OnlyFrame, QueueAssumption, TypeOK, WorkerApart, Counted
<1>1. CASE owner \notin {0, pid}
  <2>1. ~ woken /\ (\A g \in Frames : pc[g] \in {"idle", "begin"}) /\ pc[W] = "idle"
    BY <1>0, <1>1 DEF Counted
  <2>2. ASSUME Disown, pc'[W] = "idle"  PROVE Counted'
    BY <1>0, <1>1, <2>2 DEF Disown, Counted, Bit
  <2>3. ASSUME NEW j \in Jobs, Submit(f, j)  PROVE Counted'
    <3>1. f # W
      BY <2>3, OnlyWorkerWorks DEF Step, Work, Submit, MayCall, W, QueueAssumption, TypeOK
    <3> QED  BY <1>0, <2>1, <2>2, <2>3, <3>1 DEF Submit, OnlyFrame
  <2>4. ASSUME NEW what \in {"flush", "signal", "close"}, DrainAll(f, what)  PROVE Counted'
    <3>1. owner' = owner /\ in_flight' = in_flight /\ woken' = woken /\ pc' = [pc EXCEPT ![f] = "begin"]
      BY <2>4 DEF DrainAll
    <3>2. \A g \in Frames : pc'[g] \in {"idle", "begin"}
      BY <2>1, <3>1 DEF TypeOK
    <3> QED  BY <1>0, <1>1, <2>1, <3>1, <3>2 DEF Counted
  <2>5. CASE DrainBegins(f)
    <3>1. f # W
      BY <2>1, <2>5 DEF DrainBegins
    <3> QED  BY <1>0, <2>1, <2>2, <2>5, <3>1 DEF DrainBegins, OnlyFrame
  <2>6. ~ Work(f)
    BY <2>1 DEF Work, WorkerWoken, WorkerTake, WorkerTaken, WorkerRuns, WorkerDone
  <2>7. Continue(f) => DrainBegins(f)
    <3>1. pc[f] \in {"idle", "begin"}
      BY <2>1
    <3>2. ~ (FoundFull(f) \/ EvictOldest(f) \/ PopRaises(f) \/ Evicted(f) \/ Enqueue(f) \/ FallbackNow(f) \/ Wake(f))
      BY <3>1 DEF FoundFull, EvictOldest, PopRaises, Evicted, Enqueue, FallbackNow, Wake
    <3>3. ~ (DrainTakes(f) \/ DrainTaken(f) \/ DrainRuns(f) \/ DrainEnds(f))
      BY <3>1 DEF DrainTakes, DrainTaken, DrainRuns, DrainEnds
    <3>4. ~ (LeftTakes(f) \/ WaitSatisfied(f) \/ Waits(f) \/ WaitTimesOut(f))
      BY <3>1 DEF LeftTakes, WaitSatisfied, Waits, WaitTimesOut
    <3> QED  BY <3>2, <3>3, <3>4 DEF Continue
  <2> QED  BY <2>3, <2>4, <2>5, <2>6, <2>7 DEF Step
<1>2. CASE owner \in {0, pid}
  <2>1. in_flight = Bit(pc[W] \in {"run", "done"}) /\ (in_flight = 1 => owner = pid)
    BY <1>2 DEF Counted
  <2>2. ASSUME in_flight' = in_flight, owner' = owner, pc'[W] \in {"run", "done"} <=> pc[W] \in {"run", "done"}
        PROVE  Counted'
    BY <1>0, <1>2, <2>1, <2>2 DEF Counted, Bit
  <2>3. CASE f # W
    <3>1. pc'[W] = pc[W] /\ ~ Work(f)
      BY <1>0, <2>3, OnlyWorkerWorks DEF OnlyFrame
    <3>2. Disown => in_flight' = in_flight /\ owner' = owner
      BY <1>2 DEF Disown
    <3>3. ASSUME NEW j \in Jobs, Submit(f, j)  PROVE in_flight' = in_flight /\ owner' = owner
      BY <3>2, <3>3 DEF Submit
    <3>4. ASSUME NEW what \in {"flush", "signal", "close"}, DrainAll(f, what)
          PROVE  in_flight' = in_flight /\ owner' = owner
      BY <3>4 DEF DrainAll
    <3>5. ASSUME Continue(f)  PROVE in_flight' = in_flight /\ owner' = owner
      <4>1. CASE FoundFull(f) \/ EvictOldest(f) \/ PopRaises(f) \/ Evicted(f) \/ Enqueue(f) \/ FallbackNow(f) \/ Wake(f)
        BY <4>1 DEF FoundFull, EvictOldest, PopRaises, Evicted, Enqueue, FallbackNow, Wake
      <4>2. CASE DrainBegins(f) \/ DrainTakes(f) \/ DrainTaken(f) \/ DrainRuns(f) \/ DrainEnds(f)
        BY <3>2, <4>2 DEF DrainBegins, DrainTakes, DrainTaken, DrainRuns, DrainEnds
      <4>3. CASE LeftTakes(f) \/ WaitSatisfied(f) \/ Waits(f) \/ WaitTimesOut(f)
        BY <4>3 DEF LeftTakes, WaitSatisfied, Waits, WaitTimesOut, Returns
      <4> QED  BY <3>5, <4>1, <4>2, <4>3 DEF Continue
    <3> QED  BY <2>2, <3>1, <3>3, <3>4, <3>5 DEF Step
  <2>4. CASE f = W
    <3>1. CASE WorkerWoken(f) \/ WorkerTake(f)
      <4>1. in_flight' = in_flight /\ owner' = owner /\ pc[W] \in {"idle", "take"} /\ pc'[W] \in {"take", "idle", "taken"}
        BY <1>0, <2>4, <3>1 DEF WorkerWoken, WorkerTake, Pop, TypeOK
      <4> QED  BY <2>2, <4>1
    <3>2. CASE WorkerTaken(f)
      <4>1. in_flight' = 1 /\ owner' = pid /\ pc'[W] = "run"
        BY <1>0, <2>1, <2>4, <3>2 DEF WorkerTaken, TypeOK, Bit
      <4> QED  BY <1>0, <4>1 DEF Counted, Bit
    <3>3. CASE WorkerRuns(f)
      <4>1. in_flight' = in_flight /\ owner' = owner /\ pc[W] = "run" /\ pc'[W] = "done"
        BY <1>0, <2>4, <3>3 DEF WorkerRuns, TypeOK
      <4> QED  BY <2>2, <4>1
    <3>4. CASE WorkerDone(f)
      <4>1. in_flight' = 0 /\ owner' = 0 /\ pc'[W] = "take"
        BY <1>0, <2>1, <2>4, <3>4 DEF WorkerDone, TypeOK, Bit
      <4> QED  BY <1>0, <4>1 DEF Counted, Bit
    <3> QED  BY <2>4, <3>1, <3>2, <3>3, <3>4, OnlyWorkerWorks DEF Work
  <2> QED  BY <2>3, <2>4
<1> QED  BY <1>1, <1>2

-----------------------------------------------------------------------------
(* The bounds of the backlog, where nothing runs nested.                   *)

\* What a step does with the queue and its lock: nothing, ...
LeavesQueue(f) == UNCHANGED queue /\ ~ InLock(f)' /\ pc[f] \notin Popping

\* ... tests the bounds, ...
TestsBounds(f) == UNCHANGED <<queue, coming, read>> /\ pc[f] = "room" /\ pc'[f] = "pop"

\* ... comes in with a job that is not oversized, ...
ComesIn(f) ==
  /\ UNCHANGED queue /\ CanTake(f) /\ ~ InLock(f)
  /\ pc'[f] = "room" /\ coming'[f] \in Jobs /\ Size[coming'[f]] <= MaxBytes

\* ... pops one, ...
PopsOne(f) ==
  /\ entries # <<>> /\ entries' = Tail(entries) /\ bytes' = bytes /\ read'[f] = bytes
  /\ hand'[f] = Append(hand[f], Head(entries)) /\ coming'[f] = coming[f]
  /\ \/ pc[f] = "pop" /\ pc'[f] = "evicting"
     \/ ~ InLock(f) /\ CanTake(f) /\ pc'[f] \in {"taken", "leftTaken"}

\* ... stores the counter, ...
StoresIt(f) ==
  /\ pc[f] \in Popping /\ Store(f) /\ entries' = entries /\ coming'[f] = coming[f] /\ pc'[f] \notin Popping
  /\ IF pc[f] = "evicting" THEN pc'[f] = "room" ELSE ~ InLock(f)'

\* ... or appends the job.
Appends(f) ==
  /\ pc[f] = "room" /\ ~ Full(coming[f]) /\ ~ InLock(f)'
  /\ entries' = Append(entries, coming[f]) /\ bytes' = bytes + Size[coming[f]]

\* A step does one of these.
LEMMA QueueMoves ==
  ASSUME TypeOK, TypeOK', Hands, NEW f \in Frames, Step(f)
  PROVE  \/ LeavesQueue(f) \/ TestsBounds(f) \/ ComesIn(f)
         \/ PopsOne(f) \/ StoresIt(f) \/ Appends(f)
<1> USE DEF At, Goto, queue, flight, ghosts, InLock, Popping
<1>1. ASSUME NEW j \in Jobs, Submit(f, j)  PROVE LeavesQueue(f) \/ ComesIn(f)
  <2>1. pc[f] = "idle" /\ CanTake(f) /\ UNCHANGED queue
    BY <1>1 DEF Submit, MayCall
  <2>2. CASE Size[j] > MaxBytes
    <3>1. pc'[f] = "fallback"
      BY <1>1, <2>2 DEF Submit, TypeOK
    <3> QED  BY <2>1, <3>1 DEF LeavesQueue
  <2>3. CASE ~ (Size[j] > MaxBytes)
    <3>1. pc'[f] = "room" /\ coming'[f] = j
      BY <1>1, <2>3 DEF Submit, TypeOK
    <3>2. Size[j] <= MaxBytes
      BY <2>3, QueueAssumption DEF QueueAssumption
    <3> QED  BY <2>1, <3>1, <3>2 DEF ComesIn
  <2> QED  BY <2>2, <2>3
<1>2. ASSUME NEW what \in {"flush", "signal", "close"}, DrainAll(f, what)  PROVE LeavesQueue(f)
  BY <1>2 DEF DrainAll, MayCall, LeavesQueue, TypeOK
<1>3. CASE FoundFull(f)
  BY <1>3 DEF FoundFull, TestsBounds, TypeOK
<1>4. CASE Wake(f) \/ WorkerWoken(f) \/ WorkerDone(f) \/ FallbackNow(f)
  BY <1>4 DEF Wake, WorkerWoken, WorkerDone, FallbackNow, LeavesQueue, TypeOK
<1>5. CASE DrainBegins(f) \/ DrainEnds(f) \/ WaitSatisfied(f) \/ Waits(f) \/ WaitTimesOut(f)
  BY <1>5 DEF DrainBegins, DrainEnds, WaitSatisfied, Waits, WaitTimesOut, Returns, LeavesQueue, TypeOK
<1>6. CASE WorkerRuns(f) \/ DrainRuns(f) \/ PopRaises(f)
  BY <1>6 DEF WorkerRuns, DrainRuns, PopRaises, LeavesQueue, TypeOK
<1>7. CASE Evicted(f) \/ WorkerTaken(f) \/ DrainTaken(f)
  BY <1>7 DEF Evicted, WorkerTaken, DrainTaken, StoresIt, TypeOK
<1>8. CASE Enqueue(f)
  BY <1>8 DEF Enqueue, Appends, TypeOK
<1>9. CASE EvictOldest(f)
  BY <1>9 DEF EvictOldest, Pop, PopsOne, TypeOK
<1>10. CASE WorkerTake(f)
  BY <1>10 DEF WorkerTake, Pop, PopsOne, LeavesQueue, TypeOK
<1>11. CASE DrainTakes(f)
  BY <1>11 DEF DrainTakes, Pop, PopsOne, TypeOK
<1>12. CASE LeftTakes(f)
  BY <1>12, SMTT(90) DEF LeftTakes, Pop, PopsOne, LeavesQueue, TypeOK
<1> QED
  BY <1>1, <1>2, <1>3, <1>4, <1>5, <1>6, <1>7, <1>8, <1>9, <1>10, <1>11, <1>12 DEF Step, Work, Continue

\* Where nothing runs nested, a frame that may take the lock finds it free.
LEMMA LockIsFree ==
  ASSUME TypeOK, NestedCalls, ~ Nests, NEW f \in Frames, Step(f), CanTake(f), ~ InLock(f)
  PROVE  \A g \in Frames : ~ InLock(g)
<1>1. \A g \in Frames : g[2] = "nested" => pc[g] = "idle"
  BY DEF NestedCalls, Nests
<1>2. f[2] = "base"
  <2>1. f[2] \in {"base", "nested"}
    BY DEF Frames, Levels
  <2>2. CASE f[2] = "nested"
    <3>1. pc[f] = "idle" /\ host.calls[f] = {}
      BY <1>1, <2>2 DEF Nests
    <3>2. \A j \in Jobs : ~ Submit(f, j)
      BY <3>1 DEF Submit, MayCall
    <3>3. \A what \in {"flush", "signal", "close"} : ~ DrainAll(f, what)
      BY <3>1 DEF DrainAll, MayCall
    <3>4. ~ Work(f)
      <4>1. f # W
        BY <2>2 DEF W
      <4> QED  BY <3>1, <4>1 DEF Work, WorkerWoken, WorkerTake, WorkerTaken, WorkerRuns, WorkerDone, At, W
    <3>5. ~ Continue(f)
      BY <3>1 DEF Continue, FoundFull, EvictOldest, PopRaises, Evicted, Enqueue, FallbackNow, Wake, DrainBegins,
                  DrainTakes, DrainTaken, DrainRuns, DrainEnds, LeftTakes, WaitSatisfied, Waits, WaitTimesOut, At
    <3> QED  BY <3>2, <3>3, <3>4, <3>5 DEF Step
  <2> QED  BY <2>1, <2>2
<1> SUFFICES ASSUME NEW g \in Frames, InLock(g)  PROVE FALSE
  OBVIOUS
<1>3. g[2] = "base"
  <2>1. g[2] \in {"base", "nested"}
    BY DEF Frames, Levels
  <2> QED  BY <1>1, <2>1 DEF InLock
<1>4. Nested(g) \in Frames /\ Nested(g)[2] = "nested"
  BY DEF Nested, Frames, Levels
<1>5. Holds(g)
  BY <1>1, <1>4 DEF Holds
<1>6. g[1] = f[1]
  BY <1>5 DEF CanTake, Thread
<1>7. g = f
  BY <1>2, <1>3, <1>6 DEF Frames
<1> QED  BY <1>7

\* What waits weighs, and what it weighs without its first or with one more.
LEMMA HeldParts ==
  ASSUME TypeOK, QueueAssumption
  PROVE  /\ Held(entries) \in Nat /\ Held(<<>>) = 0
         /\ entries # <<>> =>
              /\ Held(Tail(entries)) \in Nat /\ Size[Head(entries)] \in Nat
              /\ Held(entries) = Held(Tail(entries)) + Size[Head(entries)]
         /\ \A j \in Jobs : Size[j] \in Nat /\ Held(Append(entries, j)) = Held(entries) + Size[j]
<1>1. Size \in [Jobs -> Nat] /\ entries \in Seq(Jobs)
  BY DEF QueueAssumption, TypeOK
<1>2. ASSUME NEW j \in Jobs
      PROVE  /\ Weight(entries, Size) \in Nat /\ Size[j] \in Nat
             /\ Weight(Append(entries, j), Size) = Weight(entries, Size) + Size[j]
  BY ONLY <1>1, <1>2, WeightWith
<1>3. ASSUME entries # <<>>
      PROVE  /\ Weight(Tail(entries), Size) \in Nat /\ Size[Head(entries)] \in Nat /\ Weight(entries, Size) \in Nat
             /\ Weight(entries, Size) = Weight(Tail(entries), Size) + Size[Head(entries)]
  BY <1>1, <1>3, WeightTail
<1>4. Weight(<<>>, Size) = 0
  BY WeightEmpty
<1>5. Weight(entries, Size) \in Nat
  BY <1>3, <1>4
<1> QED  BY <1>2, <1>3, <1>4, <1>5 DEF Held

\* Every step keeps the bounds, and the counter right but between a load and its store.
LEMMA BoundedStep ==
  ASSUME TypeOK, TypeOK', QueueAssumption, Hands, NestedCalls, Bounded, NEW f \in Frames, Step(f), OnlyFrame(f)
  PROVE  Bounded'
<1> USE DEF InLock, Popping, Submitting, queue
<1>1. SUFFICES ASSUME ~ Nests'
               PROVE  /\ \A g, h \in Frames : InLock(g)' /\ InLock(h)' => g = h
                      /\ Len(entries') <= MaxJobs /\ Held(entries') <= MaxBytes
                      /\ \A g \in Frames : pc'[g] \in Submitting => Size[coming'[g]] <= MaxBytes
                      /\ \A g \in Frames : pc'[g] \in Popping => read'[g] = Held(entries') + Size[Last(hand'[g])]
                      /\ (\A g \in Frames : pc'[g] \notin Popping) => bytes' = Held(entries')
  BY DEF Bounded, Held
<1>2. ~ Nests
  BY <1>1 DEF Nests, OnlyFrame
<1>3. /\ \A g, h \in Frames : InLock(g) /\ InLock(h) => g = h
      /\ Len(entries) <= MaxJobs /\ Held(entries) <= MaxBytes
      /\ \A g \in Frames : pc[g] \in Submitting => Size[coming[g]] <= MaxBytes
      /\ \A g \in Frames : pc[g] \in Popping => read[g] = Held(entries) + Size[Last(hand[g])]
      /\ (\A g \in Frames : pc[g] \notin Popping) => bytes = Held(entries)
  BY <1>2 DEF Bounded
<1>4. \A g \in Frames \ {f} : /\ pc'[g] = pc[g] /\ hand'[g] = hand[g]
                              /\ coming'[g] = coming[g] /\ read'[g] = read[g]
  BY DEF OnlyFrame
<1>5. InLock(f) => \A g \in Frames \ {f} : ~ InLock(g)
  BY <1>3
<1>6. CanTake(f) /\ ~ InLock(f) => \A g \in Frames : ~ InLock(g)
  BY <1>2, LockIsFree
<1> HIDE DEF Held
<1>7. CASE LeavesQueue(f)
  BY <1>3, <1>4, <1>7 DEF LeavesQueue
<1>8. CASE TestsBounds(f)
  BY <1>3, <1>4, <1>5, <1>8 DEF TestsBounds
<1>9. CASE ComesIn(f)
  BY <1>3, <1>4, <1>6, <1>9 DEF ComesIn
<1>10. CASE PopsOne(f)
  <2>1. (\A g \in Frames \ {f} : ~ InLock(g)) /\ pc[f] \notin Popping
    BY <1>5, <1>6, <1>10 DEF PopsOne
  <2>2. bytes = Held(entries)
    BY <1>3, <2>1
  <2>0. entries # <<>> /\ entries' = Tail(entries) /\ entries \in Seq(Jobs) /\ hand[f] \in Seq(Jobs)
    BY <1>10 DEF PopsOne, TypeOK
  <2>3. Head(entries) \in Jobs /\ Last(Append(hand[f], Head(entries))) = Head(entries)
    <3>1. Head(entries) \in Jobs
      BY <2>0, HeadTailProperties
    <3>2. LET t == Append(hand[f], Head(entries))
          IN  Len(t) = Len(hand[f]) + 1 /\ t[Len(hand[f]) + 1] = Head(entries)
      BY <2>0, <3>1, AppendProperties
    <3> QED  BY <3>1, <3>2 DEF Last
  <2>4. Len(entries') <= MaxJobs
    <3>1. Len(Tail(entries)) = Len(entries) - 1 /\ Len(entries) \in Nat
      BY <2>0, HeadTailProperties, EmptyLen
    <3> QED  BY <1>3, <2>0, <3>1, QueueAssumption DEF QueueAssumption
  <2>5. Held(entries') <= MaxBytes /\ Held(entries) = Held(entries') + Size[Head(entries)]
    <3>1. /\ Held(Tail(entries)) \in Nat /\ Size[Head(entries)] \in Nat /\ Held(entries) \in Nat
          /\ Held(entries) = Held(Tail(entries)) + Size[Head(entries)] /\ MaxBytes \in Nat
      BY <2>0, HeldParts, QueueAssumption DEF QueueAssumption
    <3> QED  BY <1>3, <2>0, <3>1
  <2>6. read'[f] = Held(entries') + Size[Last(hand'[f])]
    BY <1>10, <2>2, <2>3, <2>5 DEF PopsOne
  <2>7. pc'[f] \in Submitting => Size[coming'[f]] <= MaxBytes
    BY <1>3, <1>10 DEF PopsOne
  <2>8. pc'[f] \in Popping
    BY <1>10 DEF PopsOne
  <2>9. \A g \in Frames \ {f} : ~ InLock(g)'
    BY <1>4, <2>1
  <2>10. \A g \in Frames : pc'[g] \in Submitting => Size[coming'[g]] <= MaxBytes
    BY <2>7, <2>9
  <2>11. \A g \in Frames : pc'[g] \in Popping => read'[g] = Held(entries') + Size[Last(hand'[g])]
    BY <2>6, <2>9
  <2>12. \A g, h \in Frames : InLock(g)' /\ InLock(h)' => g = h
    BY <2>9
  <2> QED  BY <2>4, <2>5, <2>8, <2>10, <2>11, <2>12
<1>11. CASE StoresIt(f)
  <2>1. \A g \in Frames \ {f} : ~ InLock(g)
    BY <1>5, <1>11 DEF StoresIt
  <2>2. bytes' = Held(entries)
    <3>1. pc[f] \in Popping /\ bytes' = read[f] - Size[Last(hand[f])] /\ hand[f] # <<>>
      <4>1. pc[f] \in HasOne \/ pc[f] = "evicting"
        BY <1>11 DEF StoresIt, HasOne
      <4> QED  BY <1>11, <4>1, OneInHand DEF StoresIt, Store, Hands
    <3>2. read[f] = Held(entries) + Size[Last(hand[f])]
      BY <1>3, <3>1
    <3>3. Held(entries) \in Nat /\ Size[Last(hand[f])] \in Nat
      <4>1. Last(hand[f]) \in Jobs
        BY <3>1, OnceFront DEF TypeOK
      <4> QED  BY <4>1, HeldParts
    <3> QED  BY <3>1, <3>2, <3>3
  <2>3. pc'[f] \in Submitting => Size[coming'[f]] <= MaxBytes
    BY <1>3, <1>11 DEF StoresIt
  <2> QED  BY <1>3, <1>4, <1>11, <2>1, <2>2, <2>3 DEF StoresIt
<1>12. CASE Appends(f)
  <2>1. (\A g \in Frames \ {f} : ~ InLock(g)) /\ bytes = Held(entries)
    BY <1>3, <1>5, <1>12 DEF Appends
  <2>2. coming[f] \in Jobs /\ Size[coming[f]] <= MaxBytes
    BY <1>3, <1>12 DEF Appends, Hands
  <2>3. /\ Held(entries') = Held(entries) + Size[coming[f]] /\ bytes' = Held(entries')
        /\ Held(entries) \in Nat /\ Size[coming[f]] \in Nat
    BY <1>12, <2>1, <2>2, HeldParts DEF Appends
  <2>4. Len(entries') <= MaxJobs /\ Held(entries') <= MaxBytes
    <3>1. Len(entries') = Len(entries) + 1 /\ Len(entries) \in Nat /\ MaxJobs \in Nat \ {0} /\ MaxBytes \in Nat
      <4>1. Len(Append(entries, coming[f])) = Len(entries) + 1
        BY <2>2, AppendProperties DEF TypeOK
      <4> QED  BY <1>12, <4>1, EmptyLen, QueueAssumption DEF Appends, TypeOK, QueueAssumption
    <3>2. CASE entries = <<>>
      <4>1. Held(entries) = 0 /\ Len(entries) = 0
        BY <3>2, HeldParts
      <4> QED  BY <2>2, <2>3, <3>1, <4>1
    <3>3. CASE entries # <<>>
      <4>1. ~ (Len(entries) >= MaxJobs) /\ ~ (Held(entries) + Size[coming[f]] > MaxBytes)
        BY <1>12, <2>1, <3>3 DEF Appends, Full
      <4> QED  BY <2>3, <3>1, <4>1
    <3> QED  BY <3>2, <3>3
  <2> QED  BY <1>4, <1>12, <2>1, <2>3, <2>4 DEF Appends
<1> QED  BY <1>7, <1>8, <1>9, <1>10, <1>11, <1>12, QueueMoves

-----------------------------------------------------------------------------
(* The initial state, a fork, and the theorem.                             *)

\* With empty hands the frames add nothing to a job's places.
LEMMA EmptyHands ==
  ASSUME NEW j \in Jobs, NEW n, n = [f \in Frames |-> Occurs(j, <<>>) + Bit(Nothing = j)]
  PROVE  IsFiniteSet(Cells(n)) /\ Total(n) = 0
<1>1. Occurs(j, <<>>) = 0 /\ Nothing # j
  BY OccursOne, QueueAssumption DEF QueueAssumption
<1>2. Occurs(j, <<>>) + Bit(Nothing = j) = 0
  BY <1>1 DEF Bit
<1>3. n \in [Frames -> Nat] /\ \A f \in Frames : n[f] = 0
  BY <1>2
<1> QED  BY <1>3, TotalZero

\* The invariant holds at the start.
LEMMA QInvInit ==
  ASSUME QueueAssumption, Init
  PROVE  QInv
<1> USE DEF Init
<1>1. TypeOK
  <2>1. /\ pc \in [Frames -> Pcs] /\ op \in [Frames -> Ops \cup {"work", Nothing}]
        /\ hand \in [Frames -> Seq(Jobs)] /\ coming \in [Frames -> Jobs \cup {Nothing}] /\ read \in [Frames -> Int]
    BY DEF Pcs
  <2>2. MaxForks + 1 \in Nat /\ 0 \in 0 .. MaxForks + 1 /\ 1 \in 1 .. MaxForks + 1 /\ 0 \in 0 .. MaxDrains
    BY QueueAssumption DEF QueueAssumption
  <2>3. entries \in Seq(Jobs) /\ finished \in [Jobs -> Seq(Ends \X (1 .. MaxForks + 1))]
    OBVIOUS
  <2>4. bytes \in Int /\ in_flight \in Nat /\ owner \in 0 .. MaxForks + 1 /\ pid \in 1 .. MaxForks + 1
    BY <2>2
  <2>5. sealed \in [Jobs -> 0 .. MaxForks + 1] /\ drains \in 0 .. MaxDrains
    BY <2>2
  <2> HIDE DEF Init
  <2>6. /\ stopping \in BOOLEAN /\ woken \in BOOLEAN /\ hooked \in BOOLEAN /\ raised \subseteq Jobs
        /\ host \in Scenarios
    BY DEF Init
  <2> QED  BY <2>1, <2>3, <2>4, <2>5, <2>6 DEF TypeOK
<1>2. Hands /\ WorkerApart /\ NestedCalls
  BY DEF Hands, WorkerApart, NestedCalls, Submitting, HasOne, HasNone, W, Frames, Levels, Nothing
<1>3. Placed
  <2> SUFFICES ASSUME NEW j \in Jobs
               PROVE  sealed[j] <= pid /\ IsFiniteSet(Cells(InFrames(j))) /\ Places(j) = 0 /\ sealed[j] = 0
    BY DEF Placed, Bit
  <2>1. InFrames(j) = [f \in Frames |-> Occurs(j, <<>>) + Bit(Nothing = j)]
    BY DEF InFrames
  <2>2. IsFiniteSet(Cells(InFrames(j))) /\ Total(InFrames(j)) = 0
    BY <2>1, EmptyHands
  <2>3. Occurs(j, entries) = 0 /\ Len(finished[j]) = 0 /\ Bit(j \in raised) = 0
    <3>1. Occurs(j, <<>>) = 0
      BY OccursOne
    <3>2. finished[j] = <<>> /\ finished[j] \in Seq(Ends \X (1 .. MaxForks + 1))
      OBVIOUS
    <3> QED  BY <3>1, <3>2, EmptyLen DEF Bit
  <2>4. Places(j) = 0
    BY <1>1, <2>2, <2>3, PlacesParts
  <2> QED  BY <2>2, <2>4
<1>4. Sealed
  <2>1. ToSet(<<>>) = {}
    BY DEF ToSet
  <2>2. \A j \in Jobs : ~ Pending(j)
    BY <2>1, QueueAssumption DEF Pending, QueueAssumption
  <2>3. ChildEmitsNothing
    BY DEF ChildEmitsNothing
  <2> QED  BY <2>2, <2>3 DEF Sealed
<1>5. Counted
  BY DEF Counted, W, Frames, Levels, Bit
<1>6. Bounded
  <2>1. Held(<<>>) = 0
    BY WeightEmpty DEF Held
  <2> QED  BY <2>1, QueueAssumption DEF Bounded, InLock, Submitting, Popping, QueueAssumption
<1> QED  BY <1>1, <1>2, <1>3, <1>4, <1>5, <1>6 DEF QInv

\* A child starts with nothing but what a fork without a hook left in the queue.
LEMMA QInvFork ==
  ASSUME QueueAssumption, QInv, NEW f \in Frames, Fork(f)
  PROVE  QInv'
<1> USE DEF queue, flight
<1>0. /\ TypeOK /\ Hands /\ WorkerApart /\ Placed /\ Sealed /\ Counted /\ NestedCalls /\ Bounded
      /\ pid' = pid + 1 /\ pid \in Nat \ {0} /\ pid <= MaxForks /\ MaxForks \in Nat
  BY QueueAssumption DEF QInv, Fork, TypeOK, QueueAssumption
<1>1. /\ pc' = [g \in Frames |-> "idle"] /\ op' = [g \in Frames |-> Nothing]
      /\ hand' = [g \in Frames |-> <<>>] /\ coming' = [g \in Frames |-> Nothing] /\ woken' = FALSE
      /\ UNCHANGED <<stopping, read, drains, sealed, finished, raised, host>>
  BY DEF Fork
<1>2. \/ Reinit /\ hooked' = hooked
      \/ (\A g \in Frames : ~ InLock(g)) /\ hooked' = FALSE /\ UNCHANGED <<queue, flight>>
  BY DEF Fork
<1>3. TypeOK'
  <2>1. /\ pc' \in [Frames -> Pcs] /\ op' \in [Frames -> Ops \cup {"work", Nothing}]
        /\ hand' \in [Frames -> Seq(Jobs)] /\ coming' \in [Frames -> Jobs \cup {Nothing}] /\ woken' \in BOOLEAN
    <3>1. "idle" \in Pcs /\ <<>> \in Seq(Jobs)
      BY DEF Pcs
    <3> QED  BY <1>1, <3>1
  <2>2. pid' \in 1 .. MaxForks + 1 /\ 0 \in 0 .. MaxForks + 1
    BY <1>0
  <2>3. entries' \in Seq(Jobs)
    <3>1. entries \in Seq(Jobs) /\ <<>> \in Seq(Jobs)
      BY <1>0 DEF TypeOK
    <3> QED  BY <1>2, <3>1 DEF Reinit
  <2>4. bytes' \in Int /\ in_flight' \in Nat /\ owner' \in 0 .. MaxForks + 1 /\ hooked' \in BOOLEAN
    <3>1. bytes \in Int /\ in_flight \in Nat /\ owner \in 0 .. MaxForks + 1 /\ hooked \in BOOLEAN
      BY <1>0 DEF TypeOK
    <3>2. CASE Reinit /\ hooked' = hooked
      BY <2>2, <3>1, <3>2 DEF Reinit
    <3>3. CASE hooked' = FALSE /\ UNCHANGED <<queue, flight>>
      BY <3>1, <3>3
    <3> QED  BY <1>2, <3>2, <3>3
  <2>5. /\ stopping' \in BOOLEAN /\ read' \in [Frames -> Int] /\ drains' \in 0 .. MaxDrains
        /\ sealed' \in [Jobs -> 0 .. MaxForks + 1] /\ finished' \in [Jobs -> Seq(Ends \X (1 .. MaxForks + 1))]
        /\ raised' \subseteq Jobs /\ host' \in Scenarios
    BY <1>0, <1>1 DEF TypeOK
  <2> QED  BY <2>1, <2>2, <2>3, <2>4, <2>5 DEF TypeOK
<1>4. Hands' /\ WorkerApart' /\ NestedCalls'
  BY <1>1 DEF Hands, WorkerApart, NestedCalls, Submitting, HasOne, HasNone, W, Frames, Levels, Nothing
<1>5. Placed'
  <2> SUFFICES ASSUME NEW j \in Jobs
               PROVE  /\ sealed'[j] <= pid' /\ IsFiniteSet(Cells(InFrames(j)'))
                      /\ sealed'[j] \in {0, pid'} => Places(j)' = Bit(sealed'[j] # 0)
    BY DEF Placed
  <2>1. InFrames(j)' = [g \in Frames |-> Occurs(j, <<>>) + Bit(Nothing = j)]
    BY <1>1 DEF InFrames
  <2>2. IsFiniteSet(Cells(InFrames(j)')) /\ Total(InFrames(j)') = 0
    BY <2>1, EmptyHands
  <2>3. sealed'[j] = sealed[j] /\ sealed[j] \in Nat /\ sealed[j] <= pid /\ IsFiniteSet(Cells(InFrames(j)))
    BY <1>0, <1>1 DEF Placed, TypeOK
  <2>4. ASSUME sealed[j] = 0  PROVE Places(j)' = 0
    <3>1. Places(j) = 0
      BY <1>0, <2>4 DEF Placed, Bit
    <3>2. Occurs(j, entries) = 0 /\ Len(finished[j]) = 0 /\ Bit(j \in raised) = 0
      BY <1>0, <2>3, <3>1, PlacesParts, SMTT(90)
    <3>3. Occurs(j, entries') = 0
      <4>1. Occurs(j, <<>>) = 0
        BY OccursOne
      <4> QED  BY <1>2, <3>2, <4>1 DEF Reinit
    <3> QED  BY <1>1, <2>2, <3>2, <3>3 DEF Places, InFrames
  <2> QED  BY <1>0, <2>2, <2>3, <2>4 DEF Bit
<1>6. Sealed'
  <2> SUFFICES ASSUME hooked'  PROVE (\A j \in Jobs : ~ Pending(j)') /\ ChildEmitsNothing'
    BY DEF Sealed
  <2>1. hooked /\ entries' = <<>>
    BY <1>2 DEF Reinit
  <2>2. ToSet(<<>>) = {}
    BY DEF ToSet
  <2>3. \A j \in Jobs : ~ Pending(j)'
    BY <1>1, <2>1, <2>2, QueueAssumption DEF Pending, QueueAssumption
  <2>4. ChildEmitsNothing'
    BY <1>0, <1>1, <2>1 DEF Sealed, ChildEmitsNothing
  <2> QED  BY <2>3, <2>4
<1>7. Counted'
  <2>1. W \in Frames
    BY DEF W, Frames, Levels
  <2>2. owner \in Nat /\ owner <= pid /\ in_flight \in Nat /\ (owner = 0 => in_flight = 0)
    BY <1>0 DEF Counted, TypeOK, Bit
  <2> QED  BY <1>0, <1>1, <1>2, <2>1, <2>2 DEF Reinit, Counted, Bit
<1>8. Bounded'
  <2>1. ASSUME ~ Nests'
        PROVE  Len(entries') <= MaxJobs /\ Held(entries') <= MaxBytes /\ bytes' = Held(entries')
    <3>1. ~ Nests
      BY <1>1, <2>1 DEF Nests
    <3>2. CASE Reinit
      <4>1. Held(<<>>) = 0
        BY WeightEmpty DEF Held
      <4> QED  BY <3>2, <4>1, QueueAssumption DEF Reinit, QueueAssumption
    <3>3. CASE (\A g \in Frames : ~ InLock(g)) /\ UNCHANGED <<queue, flight>>
      <4>1. \A g \in Frames : pc[g] \notin Popping
        BY <3>3 DEF InLock, Popping
      <4> QED  BY <1>0, <3>1, <3>3, <4>1 DEF Bounded
    <3> QED  BY <1>2, <3>2, <3>3
  <2>2. \A g \in Frames : ~ InLock(g)' /\ pc'[g] \notin Submitting /\ pc'[g] \notin Popping
    BY <1>1 DEF InLock, Submitting, Popping
  <2> QED  BY <2>1, <2>2 DEF Bounded, Held
<1> QED  BY <1>3, <1>4, <1>5, <1>6, <1>7, <1>8 DEF QInv

\* Every step keeps the invariant.
LEMMA QInvNext ==
  ASSUME QueueAssumption, QInv, [Next]_vars
  PROVE  QInv'
<1>0. TypeOK /\ Hands /\ WorkerApart /\ Placed /\ Sealed /\ Counted /\ NestedCalls /\ Bounded
  BY DEF QInv
<1>1. ASSUME NEW f \in Frames, Step(f)  PROVE QInv'
  <2>1. TypeOK' /\ OnlyFrame(f)
    BY <1>0, <1>1, StepTypes
  <2>2. Hands' /\ WorkerApart' /\ NestedCalls'
    <3>1. InOrder(f)'
      BY <1>0, <1>1, <2>1, StepInOrder
    <3>2. \A g \in Frames : InOrder(g)
      BY <1>0, FramesInOrder
    <3>3. \A g \in Frames \ {f} : InOrder(g)'
      BY <2>1, <3>2 DEF OnlyFrame, InOrder
    <3>4. \A g \in Frames : InOrder(g)'
      BY <3>1, <3>3
    <3>5. W \in Frames
      BY DEF W, Frames, Levels
    <3> QED  BY <3>4, <3>5 DEF Hands, WorkerApart, NestedCalls, InOrder
  <2>3. Placed'
    BY <1>0, <1>1, <2>1, PlacedStep
  <2>4. Sealed'
    BY <1>0, <1>1, <2>1, SealedStep
  <2>5. Counted'
    BY <1>0, <1>1, <2>1, CountedStep
  <2>6. Bounded'
    BY <1>0, <1>1, <2>1, BoundedStep
  <2> QED  BY <2>1, <2>2, <2>3, <2>4, <2>5, <2>6 DEF QInv
<1>2. ASSUME NEW f \in Frames, Fork(f)  PROVE QInv'
  BY <1>2, QInvFork
<1>3. CASE UNCHANGED vars
  <2>1. TypeOK' /\ Hands' /\ WorkerApart'
    BY <1>0, <1>3 DEF vars, TypeOK, Hands, WorkerApart
  <2>2. Placed'
    BY <1>0, <1>3 DEF vars, Placed, InFrames, Places
  <2>3. Sealed'
    BY <1>0, <1>3 DEF vars, Sealed, Pending, ChildEmitsNothing
  <2>4. Counted' /\ NestedCalls'
    BY <1>0, <1>3 DEF vars, Counted, NestedCalls
  <2>5. Bounded'
    BY <1>0, <1>3 DEF vars, Bounded, Nests, InLock, Held
  <2> QED  BY <2>1, <2>2, <2>3, <2>4, <2>5 DEF QInv
<1> QED  BY <1>1, <1>2, <1>3 DEF Next, Step

\* What a sealed job's one place, the bounds, and the count of jobs in flight come to
\* (JobsAccounted), for any number of jobs, threads, drains and forks, and whatever runs nested.
THEOREM JobsAreAccounted == Spec => []JobsAccounted
<1>1. Init => QInv
  BY QInvInit, QueueAssumption
<1>2. QInv /\ [Next]_vars => QInv'
  BY QInvNext, QueueAssumption
<1>3. QInv => JobsAccounted
  <2> SUFFICES ASSUME QInv  PROVE JobsAccounted
    OBVIOUS
  <2>1. OnePlace
    BY DEF QInv, Placed, OnePlace, TypeOK, Bit
  <2>2. ChildEmitsNothing
    BY DEF QInv, Sealed, ChildEmitsNothing
  <2>3. Backlog
    <3>1. Popping \subseteq {"room", "pop", "evicting", "taken", "leftTaken"}
      BY DEF Popping
    <3> QED  BY <3>1 DEF QInv, Bounded, Backlog, InLock
  <2>4. InFlightIsWorkers
    <3> SUFFICES ASSUME Waiting  PROVE in_flight > 0 <=> pc[W] \in {"run", "done"}
      BY DEF InFlightIsWorkers, W
    <3>1. owner \in {0, pid}
      BY DEF Waiting, QInv, Counted
    <3>2. in_flight = Bit(pc[W] \in {"run", "done"})
      BY <3>1 DEF QInv, Counted
    <3> QED  BY <3>2 DEF Bit
  <2> QED  BY <2>1, <2>2, <2>3, <2>4 DEF QInv, JobsAccounted
<1> QED  BY <1>1, <1>2, <1>3, PTL DEF Spec
=============================================================================
