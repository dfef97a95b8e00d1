---------------------------- MODULE Ledger_proofs ----------------------------
(***************************************************************************)
(* The fold discipline of the drop ledger, for every set of losses, every  *)
(* bound and every host: folds exclude one another, and a shutdown handler *)
(* never runs above one.                                                   *)
(***************************************************************************)
EXTENDS Ledger, TLAPS

\* The steps of a fold proper: between the flag's set and its end.
FoldPcs == LockPcs \ {"took", "ended"}

\* What may follow a fold, or a fold that could not be had.
NextPcs == {"over", "attached", "failed", "unsent", "returned", "done"}

Shape ==
  /\ pc \in [Frames -> Pcs]
  /\ op \in [Frames -> Ops \cup {Nothing}]
  /\ ret \in [Frames -> [next : NextPcs, whole : BOOLEAN]]
  /\ fold \in Frames \cup {Nobody}
  /\ host \in Scenarios

\* The lock is one thread's, and the flag was set by a frame that holds it.
LockHeld ==
  /\ \A f, g \in Frames : pc[f] \in LockPcs /\ pc[g] \in LockPcs => f[1] = g[1]
  /\ fold # Nobody => pc[fold] \in LockPcs /\ pc[fold] # "took"
  /\ \A f \in Frames : pc[f] \in FoldPcs => fold = f

\* A nested frame that has, or had, the lock is not above a fold of its thread,
\* and neither is a handler; base frames run no handler.
NestedApart ==
  \A u \in Threads :
    /\ pc[<<u, "nested">>] \in LockPcs \cup {"after"} => fold # <<u, "base">>
    /\ op[<<u, "nested">>] = "signal" => fold # <<u, "base">>
    /\ op[<<u, "base">>] # "signal"
    /\ pc[<<u, "nested">>] = "idle" => op[<<u, "nested">>] # "signal"

FoldInv == Shape /\ LockHeld /\ NestedApart

-----------------------------------------------------------------------------
\* Nobody is told apart from every frame.
LEMMA NobodyIsNoFrame == Nobody \notin Frames
  BY DEF Nobody, Frames, Threads, Levels

\* A frame is the base or the nested one of its thread.
LEMMA FrameParts ==
  \A f \in Frames : /\ f[1] \in Threads
                    /\ f = <<f[1], "base">> \/ f = <<f[1], "nested">>
                    /\ Base(f) \in Frames /\ Nested(f) \in Frames
                    /\ Base(f)[1] = f[1] /\ Nested(f)[1] = f[1]
  BY DEF Frames, Threads, Levels, Base, Nested

\* A step of a frame that is in no fold, to a place outside the lock: the last
\* step of a fold's end included.
LEMMA OutsideStep ==
  ASSUME FoldInv, NEW f \in Frames, Runs(f),
         NEW label \in Pcs \ LockPcs, NEW what \in Ops \cup {Nothing},
         fold # f, fold' = fold, host' = host,
         pc' = [pc EXCEPT ![f] = label],
         op' = [op EXCEPT ![f] = what],
         ret' \in [Frames -> [next : NextPcs, whole : BOOLEAN]],
         label = "after" => pc[f] = "ended",
         what = "signal" => op[f] = "signal" /\ label # "idle"
  PROVE  FoldInv'
  <1>1. Shape'
    BY DEF FoldInv, Shape
  <1>2. LockHeld'
    BY NobodyIsNoFrame DEF FoldInv, Shape, LockHeld, FoldPcs
  <1>3. NestedApart'
    <2> SUFFICES ASSUME NEW u \in Threads
        PROVE  /\ pc'[<<u, "nested">>] \in LockPcs \cup {"after"} => fold # <<u, "base">>
               /\ op'[<<u, "nested">>] = "signal" => fold # <<u, "base">>
               /\ op'[<<u, "base">>] # "signal"
               /\ pc'[<<u, "nested">>] = "idle" => op'[<<u, "nested">>] # "signal"
      BY DEF NestedApart
    <2>1. <<u, "base">> \in Frames /\ <<u, "nested">> \in Frames
      BY DEF Frames, Levels
    <2>2. "ended" \in LockPcs
      BY DEF LockPcs
    <2>3. CASE f = <<u, "nested">>
      BY <2>1, <2>2, <2>3 DEF FoldInv, Shape, NestedApart
    <2>4. CASE f # <<u, "nested">>
      BY <2>1, <2>4 DEF FoldInv, Shape, NestedApart
    <2> QED BY <2>3, <2>4
  <1> QED BY <1>1, <1>2, <1>3 DEF FoldInv

\* The lock is taken.
LEMMA AcquireStep ==
  ASSUME FoldInv, NEW f \in Frames, Runs(f), Free(f), NEW what \in Ops \cup {Nothing},
         fold' = fold, host' = host,
         pc' = [pc EXCEPT ![f] = "took"],
         op' = [op EXCEPT ![f] = what],
         ret' \in [Frames -> [next : NextPcs, whole : BOOLEAN]],
         what = "signal" => op[f] = "signal"
  PROVE  FoldInv'
  <1>1. Shape'
    BY DEF FoldInv, Shape, Pcs, LockPcs
  <1>2. LockHeld'
    BY NobodyIsNoFrame DEF FoldInv, Shape, LockHeld, FoldPcs, Free, Thread
  <1>3. NestedApart'
    BY NobodyIsNoFrame, ZenonT(200) DEF FoldInv, Shape, NestedApart, LockPcs, Frames, Threads, Levels, Free
  <1> QED BY <1>1, <1>2, <1>3 DEF FoldInv

\* A step of a fold.
LEMMA InsideStep ==
  ASSUME FoldInv, NEW f \in Frames, pc[f] \in FoldPcs,
         NEW label \in FoldPcs \cup {"ended"},
         fold' = fold, host' = host, op' = op, ret' = ret,
         pc' = [pc EXCEPT ![f] = label]
  PROVE  FoldInv'
  <1>1. Shape'
    BY DEF FoldInv, Shape, Pcs, LockPcs, FoldPcs
  <1>2. LockHeld'
    BY NobodyIsNoFrame DEF FoldInv, Shape, LockHeld, FoldPcs, LockPcs
  <1>3. NestedApart'
    BY DEF FoldInv, Shape, NestedApart, LockPcs, FoldPcs, Frames, Threads, Levels
  <1> QED BY <1>1, <1>2, <1>3 DEF FoldInv

\* A call that is not a handler's and folds, if it can, before it goes on.
LEMMA FoldThenStep ==
  ASSUME FoldInv, NEW f \in Frames, Runs(f), pc[f] \notin LockPcs,
         NEW whole \in BOOLEAN, NEW next \in NextPcs,
         NEW what \in Ops \cup {Nothing}, what = "signal" => op[f] = "signal",
         FoldThen(f, whole, next), op' = [op EXCEPT ![f] = what],
         fold' = fold, host' = host
  PROVE  FoldInv'
  <1>1. fold # f
    BY NobodyIsNoFrame DEF FoldInv, LockHeld
  <1>2. next \in Pcs \ LockPcs /\ next \notin {"after", "idle"}
    BY DEF NextPcs, Pcs, LockPcs
  <1>3. ret' \in [Frames -> [next : NextPcs, whole : BOOLEAN]]
    BY DEF FoldThen, FoldInv, Shape
  <1>4. CASE Free(f)
    BY <1>3, <1>4, AcquireStep DEF FoldThen, Goto
  <1>5. CASE ~Free(f)
    <2>1. pc' = [pc EXCEPT ![f] = next]
      BY <1>5 DEF FoldThen, Goto
    <2> QED BY <1>1, <1>2, <1>3, <2>1, OutsideStep
  <1> QED BY <1>4, <1>5

\* A step of a frame outside the lock that only moves it.
LEMMA MoveStep ==
  ASSUME FoldInv, NEW f \in Frames, Runs(f), pc[f] \notin LockPcs,
         NEW label \in Pcs \ (LockPcs \cup {"after", "idle"}),
         Goto(f, label), UNCHANGED <<ret, op, fold, host>>
  PROVE  FoldInv'
  <1>1. fold # f
    BY NobodyIsNoFrame DEF FoldInv, LockHeld
  <1>2. op' = [op EXCEPT ![f] = op[f]] /\ op[f] \in Ops \cup {Nothing}
    BY DEF FoldInv, Shape
  <1>3. ret' \in [Frames -> [next : NextPcs, whole : BOOLEAN]]
    BY DEF FoldInv, Shape
  <1> QED BY <1>1, <1>2, <1>3, OutsideStep DEF Goto

-----------------------------------------------------------------------------
\* A ledger nothing was recorded in: no frame folds, no handler runs.
LEMMA InitKeeps == Init => FoldInv
  BY NobodyIsNoFrame DEF Init, FoldInv, Shape, LockHeld, NestedApart, FoldPcs, NextPcs, Pcs,
     LockPcs, Ops, Nothing, Frames, Threads, Levels

\* record(), undelivered(), snapshot() and the start of a drain.
LEMMA CallKeeps ==
  ASSUME FoldInv, NEW f \in Frames, NEW x,
         Record(f, x) \/ Read(f) \/ Drain(f, x)
  PROVE  FoldInv'
  <1> USE DEF NextPcs, Ops
  <1>1. pc[f] = "idle" /\ Runs(f) /\ pc[f] \notin LockPcs
    BY DEF Record, Read, Drain, MayCall, At, LockPcs
  <1>2. op' = [op EXCEPT ![f] = "record"] \/ op' = [op EXCEPT ![f] = "read"]
        \/ op' = [op EXCEPT ![f] = "drain"] \/ op' = [op EXCEPT ![f] = "final"]
    BY DEF Record, Read, Drain
  <1>3. PICK what \in {"record", "read", "drain", "final"} : op' = [op EXCEPT ![f] = what]
    BY <1>2
  <1>4. fold' = fold /\ host' = host
    BY DEF Record, Read, Drain, ghosts
  <1>5. \/ FoldThen(f, FALSE, "over") \/ FoldThen(f, TRUE, "over") \/ FoldThen(f, TRUE, "attached")
        \/ Goto(f, "over") /\ UNCHANGED ret
    BY DEF Record, Read, Drain, Recorded, BeginDrain, TryFold
  <1>6. CASE FoldThen(f, FALSE, "over") \/ FoldThen(f, TRUE, "over") \/ FoldThen(f, TRUE, "attached")
    BY <1>1, <1>3, <1>4, <1>6, FoldThenStep
  <1>7. CASE Goto(f, "over") /\ UNCHANGED ret
    <2>1. fold # f
      BY <1>1, NobodyIsNoFrame DEF FoldInv, LockHeld
    <2>2. "over" \in Pcs \ LockPcs
      BY DEF Pcs, LockPcs
    <2>3. ret' \in [Frames -> [next : NextPcs, whole : BOOLEAN]]
      BY <1>7 DEF FoldInv, Shape
    <2> QED BY <1>1, <1>3, <1>4, <1>7, <2>1, <2>2, <2>3, OutsideStep DEF Goto
  <1> QED BY <1>5, <1>6, <1>7

\* Setting the flag: a thread that has the lock finds nobody folding, since its
\* nested frame is idle and no nested frame takes the lock inside a fold.
LEMMA TakeKeeps ==
  ASSUME FoldInv, NEW f \in Frames, Take(f)
  PROVE  FoldInv'
  <1>1. pc[f] = "took" /\ Runs(f) /\ fold' = f /\ pc' = [pc EXCEPT ![f] = "inbox"]
        /\ UNCHANGED <<ret, op, host>>
    BY DEF Take, At, Goto, ghosts
  <1>2. \A g \in Frames : pc[g] \in LockPcs => g[1] = f[1]
    BY <1>1 DEF FoldInv, LockHeld, LockPcs
  <1>3. fold = Nobody
    <2> SUFFICES ASSUME fold # Nobody PROVE FALSE
      OBVIOUS
    <2>1. fold \in Frames /\ pc[fold] \in LockPcs /\ fold # f /\ fold[1] = f[1]
      BY <1>1, <1>2 DEF FoldInv, Shape, LockHeld
    <2>2. CASE f = <<f[1], "base">>
      <3>1. fold = Nested(f)
        BY <2>1, <2>2, FrameParts DEF Nested
      <3> QED BY <3>1, <2>1, <2>2, <1>1 DEF Runs, LockPcs
    <2>3. CASE f = <<f[1], "nested">>
      <3>1. fold = <<f[1], "base">>
        BY <2>1, <2>3, FrameParts
      <3>2. f[1] \in Threads
        BY FrameParts
      <3> QED BY <1>1, <2>3, <3>1, <3>2 DEF FoldInv, NestedApart, LockPcs
    <2> QED BY <2>2, <2>3, FrameParts
  <1>4. Shape'
    BY <1>1 DEF FoldInv, Shape, Pcs, LockPcs
  <1>5. LockHeld'
    BY <1>1, <1>2, <1>3, NobodyIsNoFrame DEF FoldInv, Shape, LockHeld, FoldPcs, LockPcs
  <1>6. NestedApart'
    <2> SUFFICES ASSUME NEW u \in Threads
        PROVE  /\ pc'[<<u, "nested">>] \in LockPcs \cup {"after"} => f # <<u, "base">>
               /\ op[<<u, "nested">>] = "signal" => f # <<u, "base">>
               /\ op[<<u, "base">>] # "signal"
               /\ pc'[<<u, "nested">>] = "idle" => op[<<u, "nested">>] # "signal"
      BY <1>1 DEF NestedApart
    <2>1. <<u, "base">> \in Frames /\ <<u, "nested">> \in Frames
      BY DEF Frames, Levels
    <2>2. f = <<u, "base">> => pc[<<u, "nested">>] = "idle"
      BY <1>1 DEF Runs, Nested
    <2> QED BY <1>1, <2>1, <2>2 DEF FoldInv, Shape, NestedApart, LockPcs
  <1> QED BY <1>4, <1>5, <1>6 DEF FoldInv

\* The steps between the flag's set and its end.
LEMMA FoldKeeps ==
  ASSUME FoldInv, NEW f \in Frames,
         FoldInbox(f) \/ Settle(f) \/ DropOldest(f) \/ LeaveOut(f) \/ HandOut(f) \/ Cut(f)
  PROVE  FoldInv'
  <1>1. fold' = fold /\ host' = host /\ op' = op /\ ret' = ret
    BY DEF FoldInbox, Settle, DropOldest, LeaveOut, HandOut, Cut, FoldFrame, ghosts
  <1>2. pc[f] \in FoldPcs
    BY DEF FoldInbox, Settle, DropOldest, LeaveOut, HandOut, Cut, At, FoldPcs, LockPcs
  <1>3. \E label \in FoldPcs \cup {"ended"} : pc' = [pc EXCEPT ![f] = label]
    BY DEF FoldInbox, Settle, DropOldest, LeaveOut, HandOut, Cut, Goto, AfterInbox, FoldPcs, LockPcs
  <1> QED BY <1>1, <1>2, <1>3, InsideStep

\* _end_fold(): the flag, the lock, the held handler, and what follows.
LEMMA EndKeeps ==
  ASSUME FoldInv, NEW f \in Frames, EndFold(f)
  PROVE  FoldInv'
  <1>1. host' = host
    BY DEF EndFold, ghosts
  <1>2. CASE At(f, "ended") /\ fold = f /\ fold' = Nobody /\ UNCHANGED <<held, pc, ret, op>>
    <2>1. Shape'
      BY <1>1, <1>2 DEF FoldInv, Shape
    <2>2. LockHeld'
      BY <1>2 DEF FoldInv, LockHeld, At, FoldPcs
    <2>3. NestedApart'
      <3>1. \A u \in Threads : Nobody # <<u, "base">>
        BY NobodyIsNoFrame DEF Frames, Levels
      <3> QED BY <1>2, <3>1 DEF FoldInv, NestedApart
    <2> QED BY <2>1, <2>2, <2>3 DEF FoldInv
  <1>3. CASE At(f, "ended") /\ fold # f /\ Goto(f, "after") /\ UNCHANGED <<fold, held, ret, op>>
    <2>1. op' = [op EXCEPT ![f] = op[f]] /\ op[f] \in Ops \cup {Nothing}
      BY <1>3 DEF FoldInv, Shape
    <2>2. ret' \in [Frames -> [next : NextPcs, whole : BOOLEAN]]
      BY <1>3 DEF FoldInv, Shape
    <2>3. "after" \in Pcs \ LockPcs
      BY DEF Pcs, LockPcs
    <2> QED BY <1>1, <1>3, <2>1, <2>2, <2>3, OutsideStep DEF Goto, At
  <1>4. CASE At(f, "after") /\ RunHeld(f) /\ UNCHANGED fold
    <2> DEFINE g == IF f[2] = "base" THEN Nested(f) ELSE f
    <2>1. g \in Frames /\ g = Nested(f)
      BY FrameParts DEF Nested
    <2>2. pc' = [pc EXCEPT ![g] = "signal"] /\ op' = [op EXCEPT ![g] = "signal"] /\ ret' = ret
      BY <1>4 DEF RunHeld, Goto
    <2>3. fold # f /\ fold # Base(f)
      <3>1. fold # f
        BY <1>4, NobodyIsNoFrame DEF FoldInv, LockHeld, At, LockPcs
      <3>2. f[1] \in Threads /\ (f = <<f[1], "nested">> => fold # Base(f))
        BY <1>4, FrameParts DEF FoldInv, NestedApart, At, Base
      <3> QED BY <3>1, <3>2, FrameParts DEF Base
    <2>4. fold # g
      <3>1. f[2] = "base" => pc[Nested(f)] = "idle"
        BY <1>4 DEF At, Runs
      <3> QED BY <2>1, <2>3, <3>1, NobodyIsNoFrame DEF FoldInv, LockHeld, LockPcs
    <2>5. Shape'
      BY <1>1, <1>4, <2>1, <2>2 DEF FoldInv, Shape, Pcs, Ops
    <2>6. LockHeld'
      BY <1>4, <2>1, <2>2, <2>4, NobodyIsNoFrame DEF FoldInv, Shape, LockHeld, FoldPcs, LockPcs
    <2>7. NestedApart'
      <3> SUFFICES ASSUME NEW u \in Threads
          PROVE  /\ pc'[<<u, "nested">>] \in LockPcs \cup {"after"} => fold # <<u, "base">>
                 /\ op'[<<u, "nested">>] = "signal" => fold # <<u, "base">>
                 /\ op'[<<u, "base">>] # "signal"
                 /\ pc'[<<u, "nested">>] = "idle" => op'[<<u, "nested">>] # "signal"
        BY <1>4 DEF NestedApart
      <3>1. <<u, "base">> \in Frames /\ <<u, "nested">> \in Frames /\ g # <<u, "base">>
        BY <2>1 DEF Frames, Levels, Nested
      <3>2. CASE g = <<u, "nested">>
        BY <2>1, <2>2, <2>3, <3>1, <3>2 DEF FoldInv, Shape, NestedApart, LockPcs, Nested, Base
      <3>3. CASE g # <<u, "nested">>
        BY <2>1, <2>2, <3>1, <3>3 DEF FoldInv, Shape, NestedApart
      <3> QED BY <3>2, <3>3
    <2> QED BY <2>5, <2>6, <2>7 DEF FoldInv
  <1>5. CASE At(f, "after") /\ Goto(f, ret[f].next) /\ UNCHANGED <<fold, held, ret, op>>
    <2>1. pc[f] \notin LockPcs /\ Runs(f)
      BY <1>5 DEF At, LockPcs
    <2>2. ret[f].next \in Pcs \ (LockPcs \cup {"after", "idle"})
      BY DEF FoldInv, Shape, NextPcs, Pcs, LockPcs
    <2> QED BY <1>1, <1>5, <2>1, <2>2, MoveStep
  <1> QED BY <1>2, <1>3, <1>4, <1>5 DEF EndFold

\* A drain from its envelope to its settle, and the handler's own.
LEMMA SendKeeps ==
  ASSUME FoldInv, NEW f \in Frames,
         \/ Attached(f) \/ Post(f) \/ Count(f) \/ FailedSend(f) \/ Unsent(f) \/ Returned(f)
         \/ Done(f) \/ Handler(f) \/ CutShort(f)
  PROVE  FoldInv'
  <1>1. fold' = fold /\ host' = host /\ op' = op
    BY DEF Attached, Post, Count, FailedSend, Unsent, Returned, Done, Handler, CutShort, ghosts
  <1>2. Runs(f) /\ pc[f] \notin LockPcs
    BY DEF Attached, Post, Count, FailedSend, Unsent, Returned, Done, Handler, CutShort, At, LockPcs
  <1>3. \/ \E whole \in BOOLEAN, next \in NextPcs : FoldThen(f, whole, next)
        \/ ret' = ret /\ \E label \in NextPcs \cup {"post", "count"} : Goto(f, label)
    <2> USE DEF NextPcs
    <2>1. CASE Attached(f) \/ Post(f) \/ Returned(f) \/ CutShort(f)
      BY <2>1 DEF Attached, Post, Returned, CutShort
    <2>2. CASE Count(f)
      BY <2>2 DEF Count, Recorded
    <2>3. CASE FailedSend(f)
      BY <2>3 DEF FailedSend, Recorded
    <2>4. CASE Unsent(f)
      BY <2>4 DEF Unsent, TryFold
    <2>5. CASE Done(f)
      BY <2>5 DEF Done, TryFold
    <2>6. CASE Handler(f)
      BY <2>6 DEF Handler, BeginDrain, TryFold
    <2> QED BY <2>1, <2>2, <2>3, <2>4, <2>5, <2>6
  <1>4. CASE \E whole \in BOOLEAN, next \in NextPcs : FoldThen(f, whole, next)
    <2>1. op' = [op EXCEPT ![f] = op[f]] /\ op[f] \in Ops \cup {Nothing}
      BY <1>1 DEF FoldInv, Shape
    <2> QED BY <1>1, <1>2, <1>4, <2>1, FoldThenStep
  <1>5. CASE ret' = ret /\ \E label \in NextPcs \cup {"post", "count"} : Goto(f, label)
    <2>1. NextPcs \cup {"post", "count"} \subseteq Pcs \ (LockPcs \cup {"after", "idle"})
      BY DEF NextPcs, Pcs, LockPcs
    <2> QED BY <1>1, <1>2, <1>5, <2>1, MoveStep
  <1> QED BY <1>3, <1>4, <1>5

\* A call returns.
LEMMA OverKeeps ==
  ASSUME FoldInv, NEW f \in Frames, Over(f)
  PROVE  FoldInv'
  <1>1. fold # f
    BY NobodyIsNoFrame DEF Over, At, FoldInv, LockHeld, LockPcs
  <1>2. "idle" \in Pcs \ LockPcs /\ Nothing # "signal"
    BY DEF Pcs, LockPcs, Nothing
  <1>3. ret' \in [Frames -> [next : NextPcs, whole : BOOLEAN]]
    BY DEF Over, FoldInv, Shape
  <1>4. Runs(f) /\ pc' = [pc EXCEPT ![f] = "idle"] /\ op' = [op EXCEPT ![f] = Nothing]
        /\ fold' = fold /\ host' = host
    BY DEF Over, At, Goto, ghosts
  <1> QED BY <1>1, <1>2, <1>3, <1>4, OutsideStep

\* A signal lands: held above a fold of its thread, run at once otherwise.
LEMMA SignalKeeps ==
  ASSUME FoldInv, NEW f \in Frames, Signal(f)
  PROVE  FoldInv'
  <1>1. At(f, "idle") /\ "signal" \in host.calls[f] /\ UNCHANGED <<fold, ret, host>>
    BY DEF Signal, MayCall, ghosts
  <1>2. f = <<f[1], "nested">> /\ f[1] \in Threads
    BY <1>1, FrameParts, LedgerAssumption DEF FoldInv, Shape
  <1>3. CASE pc' = pc /\ op' = op
    BY <1>1, <1>3 DEF FoldInv, Shape, LockHeld, NestedApart
  <1>4. CASE fold # Base(f) /\ Goto(f, "signal") /\ op' = [op EXCEPT ![f] = "signal"]
    <2>1. pc' = [pc EXCEPT ![f] = "signal"] /\ fold # <<f[1], "base">>
      BY <1>4 DEF Goto, Base
    <2>2. fold # f
      BY <1>1, NobodyIsNoFrame DEF At, FoldInv, LockHeld, LockPcs
    <2>3. Shape'
      BY <1>1, <1>4, <2>1 DEF FoldInv, Shape, Pcs, Ops
    <2>4. LockHeld'
      BY <1>1, <2>1, <2>2, NobodyIsNoFrame DEF FoldInv, Shape, LockHeld, FoldPcs, LockPcs
    <2>5. NestedApart'
      <3> SUFFICES ASSUME NEW u \in Threads
          PROVE  /\ pc'[<<u, "nested">>] \in LockPcs \cup {"after"} => fold # <<u, "base">>
                 /\ op'[<<u, "nested">>] = "signal" => fold # <<u, "base">>
                 /\ op'[<<u, "base">>] # "signal"
                 /\ pc'[<<u, "nested">>] = "idle" => op'[<<u, "nested">>] # "signal"
        BY <1>1 DEF NestedApart
      <3>1. <<u, "base">> \in Frames /\ <<u, "nested">> \in Frames /\ f # <<u, "base">>
        BY <1>2 DEF Frames, Levels
      <3>2. CASE f = <<u, "nested">>
        BY <1>4, <2>1, <3>1, <3>2 DEF FoldInv, Shape, NestedApart, LockPcs
      <3>3. CASE f # <<u, "nested">>
        BY <1>4, <2>1, <3>1, <3>3 DEF FoldInv, Shape, NestedApart
      <3> QED BY <3>2, <3>3
    <2> QED BY <2>3, <2>4, <2>5 DEF FoldInv
  <1> QED BY <1>3, <1>4 DEF Signal, Lands

\* The fork's child has one idle frame and a new lock.
LEMMA ForkKeeps ==
  ASSUME FoldInv, NEW f \in Frames, Fork(f)
  PROVE  FoldInv'
  <1>1. \A g \in Frames : pc'[g] = "idle" /\ op'[g] = Nothing
    BY DEF Fork
  <1>2. Shape'
    BY DEF FoldInv, Shape, Fork, Reinit, NextPcs, Pcs, LockPcs
  <1>3. LockHeld'
    BY <1>1 DEF LockHeld, Fork, Reinit, FoldPcs, LockPcs
  <1>4. NestedApart'
    <2>1. \A u \in Threads : <<u, "base">> \in Frames /\ <<u, "nested">> \in Frames
      BY DEF Frames, Levels
    <2> QED BY <1>1, <2>1 DEF NestedApart, LockPcs, Nothing
  <1> QED BY <1>2, <1>3, <1>4 DEF FoldInv

\* No operation, and no step of one, breaks the fold discipline.
LEMMA NextKeeps == FoldInv /\ [Next]_vars => FoldInv'
  <1> SUFFICES ASSUME FoldInv, [Next]_vars PROVE FoldInv'
    OBVIOUS
  <1>1. CASE Elapse
    BY <1>1 DEF Elapse, frames, ghosts, FoldInv, Shape, LockHeld, NestedApart
  <1>2. ASSUME NEW f \in Frames, NEW x, Record(f, x) \/ Read(f) \/ Drain(f, x)
        PROVE  FoldInv'
    BY <1>2, CallKeeps
  <1>3. ASSUME NEW f \in Frames, FoldStep(f) PROVE FoldInv'
    BY <1>3, TakeKeeps, FoldKeeps, EndKeeps DEF FoldStep
  <1>4. ASSUME NEW f \in Frames, Sends(f) \/ CutShort(f) PROVE FoldInv'
    BY <1>4, SendKeeps, OverKeeps DEF Sends
  <1>5. ASSUME NEW f \in Frames, Signal(f) \/ Fork(f) PROVE FoldInv'
    BY <1>5, SignalKeeps, ForkKeeps
  <1>6. CASE UNCHANGED vars
    BY <1>6 DEF vars, frames, ghosts, FoldInv, Shape, LockHeld, NestedApart
  <1> QED BY <1>1, <1>2, <1>3, <1>4, <1>5, <1>6 DEF Next

\* The lock is never two threads', and a frame folds only with the flag its own:
\* folds exclude one another, on one thread as on two.
THEOREM FoldDiscipline == Spec => []FoldInv
  BY InitKeeps, NextKeeps, PTL DEF Spec

\* At most one frame is inside a fold.
FoldsExclude == \A f, g \in Frames : pc[f] \in FoldPcs /\ pc[g] \in FoldPcs => f = g

\* Two folds never overlap: a nested frame cannot fold inside its own thread's.
THEOREM OneFold == Spec => []FoldsExclude
  <1>1. FoldInv => FoldsExclude
    BY DEF FoldInv, LockHeld, FoldsExclude
  <1> QED BY <1>1, FoldDiscipline, PTL

\* hold_signal() and the nested frames' own folds keep every shutdown handler out
\* of the folds of the thread it runs on, a handler run as a fold ends included.
THEOREM HandlersSeeWholeTables == Spec => []SignalSeesWhole
  <1>1. FoldInv => SignalSeesWhole
    <2> SUFFICES ASSUME FoldInv, NEW f \in Frames, op[f] = "signal" PROVE fold # Base(f)
      BY DEF SignalSeesWhole
    <2>1. f[1] \in Threads /\ (f = <<f[1], "base">> \/ f = <<f[1], "nested">>)
      BY FrameParts
    <2> QED BY <2>1 DEF FoldInv, NestedApart, Base
  <1> QED BY <1>1, FoldDiscipline, PTL
=============================================================================
