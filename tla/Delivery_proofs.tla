-------------------------- MODULE Delivery_proofs --------------------------
(***************************************************************************)
(* What Client accounts for, for every number of threads, items and nested *)
(* frames: each item is in one place, the buffers keep to their bounds,    *)
(* and no batch goes back into a buffer that was emptied for good.         *)
(***************************************************************************)
EXTENDS Client_proofs

-----------------------------------------------------------------------------
(* The inductive invariant, on top of that of Client_proofs.               *)

\* Where a capture may be.
CapturePcs == {"idle", "admit", "submit", "enter", "room", "evict", "append",
               "snapshot", "pop", "count"}

\* What runs nested is a capture, until a signal lands; nothing nested closes.
NestedCaptures ==
  \A f \in Frames : f[2] = "nested" =>
    /\ pc[f] # "idle" => host.calls[f] # {}
    /\ op[f] # "close"
    /\ signals = 0 => /\ pc[f] \in CapturePcs
                      /\ op[f] \in {Nothing, "span", "snapshot", "deferred"}

\* A frame has in its hands what it needs where it is, and no more.
DrainPcs == {"hook", "export", "undelivered", "giveBack", "prepend"}

HandsFree ==
  \A f \in Frames :
    /\ pc[f] \notin CarriesSpan \cup CarriesSnapshot \cup {"append"} => item[f] = Nothing
    /\ pc[f] = "states" => batch[f]["snapshot"] = <<>>

\* Until a signal lands no drain runs inside a block that holds the buffer.
NothingStale ==
  signals = 0 => orphaned = {} /\ resent = {} /\ \A f \in Frames : ~ old[f].stale

Popped(f) == IF pc[f] = "count" THEN ToSet(old[f].items) ELSE {}
Hands     == {item[f] : f \in Frames} \ {Nothing}
Drained   == UNION {InSeqs(batch[f]) : f \in Frames}
Kept      == Hands \cup jobs \cup InSeqs(buf) \cup Drained \cup ToSet(wire)
InPop     == UNION {Popped(f) : f \in Frames}
Lost      == {i \in Items : ledger[i] # <<>>}

\* What was captured is kept, being counted, counted once or left out, and
\* never two of these.
Conserved ==
  signals = 0 =>
    /\ captured = Kept \cup InPop \cup Lost \cup filtered
    /\ Kept \cap InPop = {} /\ Kept \cap Lost = {} /\ Kept \cap filtered = {}
    /\ InPop \cap Lost = {} /\ InPop \cap filtered = {} /\ Lost \cap filtered = {}
    /\ \A f, g \in Frames : f # g => Popped(f) \cap Popped(g) = {}
    /\ \A i \in Items : Len(ledger[i]) <= 1

Bound == MaxSpans + Bit(Nests)

\* f is about to put an item of kind k in the client's buffer, and needs to make no room.
Adds(f, k) ==
  \/ pc[f] = "append" /\ ~ old[f].stale /\ Kind(item[f]) = k
  \/ pc[f] = "prepend" /\ ~ old[f].stale /\ Kind(NextBack(f)) = k
  \/ pc[f] = "count" /\ k = "snapshot"
  \/ pc[f] = "pop" /\ old[f].stale /\ k = "snapshot"

RoomLeft ==
  \A k \in Kinds :
    /\ Len(buf[k]) <= Bound
    /\ \A f \in Frames : Adds(f, k) => Len(buf[k]) < Bound
    /\ \A f \in Frames :
         f[2] = "base" /\ Adds(f, k) /\ Adds(Nested(f), k) => Len(buf[k]) + 1 < Bound

Adding(f) == IF pc[f] = "prepend" THEN NextBack(f) ELSE item[f]

BytesLeft ==
  ~ Nests =>
    /\ Len(buf["span"]) > 1 => Bytes(buf["span"]) <= MaxBytes
    /\ \A f \in Frames :
         Adds(f, "span") =>
           buf["span"] = <<>> \/ Bytes(buf["span"]) + Size[Adding(f)] <= MaxBytes

ClosePcs == {"stop", "parse", "admit", "enter", "room", "evict", "append", "acquire", "swap",
             "spans", "states", "hook", "export", "undelivered", "release", "abandon",
             "leaveSpans", "leaveStates", "closeTransport"}

\* Whoever gives a batch back to a closed client has the buffer its final drain waits for.
FinalWaits ==
  /\ \A f \in Frames : op[f] = "close" => pc[f] \in ClosePcs
  /\ closed =>
       \A f \in Frames : pc[f] \in {"giveBack", "prepend"} =>
         \E g \in Frames : Closing(g) /\ Thread(g) # Thread(f)

OneDrain == signals = 0 => \A f, g \in Frames : InExport(f) /\ InExport(g) => f = g

SentPart ==
  \A f \in Frames : pc[f] = "export" =>
    \A k \in Kinds : sent[f][k] \in Subsequences(batch[f][k])

DInv ==
  /\ NestedCaptures /\ HandsFree /\ NothingStale /\ Conserved
  /\ RoomLeft /\ BytesLeft /\ FinalWaits /\ OneDrain /\ SentPart

-----------------------------------------------------------------------------
(* Who runs nested.                                                        *)

\* The steps of a capture.
Captures(f) ==
  \/ \E i \in Items : Capture(f, i)
  \/ \E i \in Spans : CaptureDeferred(f, i)
  \/ Submit(f) \/ Admit(f) \/ EnterBuffer(f) \/ Room(f) \/ Evict(f) \/ Append1(f)
  \/ EnterSnapshot(f) \/ PopSnapshot(f) \/ CountSnapshot(f)

\* The calls of other frames, the scenario and the signals.
LEMMA CallsStep ==
  ASSUME TypeOK, NEW f \in Frames, Start(f) \/ Continue(f) \/ Export(f)
  PROVE  /\ \A g \in Frames : g # f => op'[g] = op[g]
         /\ signals' = signals \/ (ShutdownFlush(f) /\ signals' = signals + 1)
         /\ closed' = closed \/ (Close(f) /\ closed' = TRUE)
<1> USE DEF Start, Continue, Export, Capture, CaptureDeferred, Parse, Flush, Call, ShutdownFlush,
            Periodic, Close, Submit, Admit, Admitted, EnterBuffer, Room, Evict, Append1,
            EnterSnapshot, PopSnapshot, CountSnapshot, StopWorkers, ParseJob, ParsesDone, Acquire,
            Decline, Swap, TakeSpans, TakeStates, HookReturns, HookDrops, Disposed, Undelivered, GiveBack,
            Prepend, GivenBack, Release, Abandon, LeaveSpans, LeaveStates, CloseTransport, ExportDelivers, ExportFails,
            ExportDeclines, flags
<1>1. \A g \in Frames : g # f => op'[g] = op[g]
  BY ZenonT(200) DEF TypeOK
<1>2. signals' = signals \/ (ShutdownFlush(f) /\ signals' = signals + 1)
  OBVIOUS
<1>3. closed' = closed \/ (Close(f) /\ closed' = TRUE)
  OBVIOUS
<1> QED  BY <1>1, <1>2, <1>3

\* Before any signal a nested frame only captures.
LEMMA NestedOnly ==
  ASSUME TypeOK, NestedCaptures, NEW f \in Frames, f[2] = "nested", signals' = 0,
         Start(f) \/ Continue(f) \/ Export(f)
  PROVE  Captures(f) /\ signals = 0
<1>1. signals = 0 /\ ~ ShutdownFlush(f)
  <2>1. signals \in Nat
    BY ClientAssumption DEF TypeOK
  <2>2. signals' = signals \/ (ShutdownFlush(f) /\ signals' = signals + 1)
    BY CallsStep
  <2>3. ShutdownFlush(f) => signals' = signals + 1
    BY DEF ShutdownFlush
  <2> QED  BY <2>1, <2>2, <2>3
<1>2. /\ pc[f] \in CapturePcs /\ op[f] \in {Nothing, "span", "snapshot", "deferred"}
      /\ host.calls[f] \subseteq {"span", "snapshot", "deferred", "signal"}
  BY <1>1, ClientAssumption DEF NestedCaptures, TypeOK
<1>3. ~ (\E i \in Spans : Parse(f, i)) /\ ~ Flush(f) /\ ~ Periodic(f) /\ ~ Close(f)
  BY <1>2 DEF Parse, Flush, Periodic, Close, Call, MayCall
<1>4. /\ ~ StopWorkers(f) /\ ~ (\E i \in Spans : ParseJob(f, i)) /\ ~ ParsesDone(f) /\ ~ Acquire(f)
      /\ ~ Decline(f) /\ ~ Swap(f) /\ ~ StoreBy(f) /\ ~ HookReturns(f) /\ ~ HookDrops(f)
      /\ ~ Undelivered(f) /\ ~ GiveBack(f) /\ ~ Prepend(f) /\ ~ GivenBack(f) /\ ~ Release(f) /\ ~ Abandon(f)
      /\ ~ CloseTransport(f) /\ ~ Export(f)
  BY <1>2 DEF CapturePcs, StoreBy, TakenBy, At, StopWorkers, ParseJob, ParsesDone, Acquire, Decline, Swap, TakeSpans, TakeStates,
              HookReturns, HookDrops, Undelivered, GiveBack, Prepend, GivenBack, Release, Abandon, LeaveSpans, LeaveStates,
              CloseTransport, Export, ExportDelivers, ExportFails, ExportDeclines
<1> QED  BY <1>1, <1>3, <1>4 DEF Start, Continue, Captures, StoreBy, TakenBy

\* A nested frame stays inside a capture, or a signal landed.
LEMMA NestedStep ==
  ASSUME TypeOK, NestedCaptures, NEW f \in Frames, Start(f) \/ Continue(f) \/ Export(f)
  PROVE  NestedCaptures'
<1>1. /\ \A g \in Frames : g # f => pc'[g] = pc[g] /\ op'[g] = op[g]
      /\ host' = host /\ (signals' = 0 => signals = 0)
  <2>1. signals' = 0 => signals = 0
    <3>1. signals \in Nat
      BY ClientAssumption DEF TypeOK
    <3>2. signals' = signals \/ signals' = signals + 1
      BY CallsStep
    <3> QED  BY <3>1, <3>2
  <2> QED  BY <2>1, PcMoves, CallsStep
<1>2. ASSUME f[2] = "nested"
      PROVE  /\ pc'[f] # "idle" => host.calls[f] # {}
             /\ op'[f] # "close"
  <2>1. pc[f] # "idle" \/ Start(f)
    BY DEF Continue, Export, At, Submit, Admit, EnterBuffer, Room, Evict, Append1, EnterSnapshot,
           PopSnapshot, CountSnapshot, StopWorkers, ParseJob, ParsesDone, Acquire, Decline, Swap,
           TakeSpans, TakeStates, HookReturns, HookDrops, Undelivered, GiveBack, Prepend, GivenBack, Release,
           Abandon, LeaveSpans, LeaveStates, CloseTransport, ExportDelivers, ExportFails, ExportDeclines
  <2>2. Start(f) => host.calls[f] # {}
    BY DEF Start, Capture, CaptureDeferred, Parse, Flush, ShutdownFlush, Periodic, Close, Call,
        MayCall
  <2>3. "close" \notin host.calls[f]
    <3>1. host \in Scenarios
      BY DEF TypeOK
    <3> QED  BY <1>2, <3>1, ClientAssumption
  <2>4. ~ Close(f)
    BY <2>3 DEF Close, Call, MayCall
  <2>5. op[f] # "close" /\ op \in [Frames -> Ops \cup {Nothing}]
    BY <1>2 DEF NestedCaptures, TypeOK
  <2>6. op'[f] # "close"
    <3>1. Start(f) => op' = op \/ \E what : what # "close" /\ op' = [op EXCEPT ![f] = what]
      BY <2>4 DEF Start, Capture, CaptureDeferred, Parse, Flush, ShutdownFlush, Periodic, Call, Kind
    <3>2. Continue(f) \/ Export(f) => op' = op \/ op' = [op EXCEPT ![f] = Nothing]
      BY DEF Continue, Export, Submit, Admit, Admitted, EnterBuffer, Room, Evict, Append1,
             EnterSnapshot, PopSnapshot, CountSnapshot, StopWorkers, ParseJob, ParsesDone, Acquire,
             Decline, Swap, TakeSpans, TakeStates, HookReturns, HookDrops, Undelivered, GiveBack, Prepend,
             GivenBack, Release, Abandon, LeaveSpans, LeaveStates, CloseTransport, ExportDelivers, ExportFails,
             ExportDeclines
    <3> QED  BY <2>5, <3>1, <3>2 DEF Nothing
  <2> QED  BY <1>2, <2>1, <2>2, <2>6 DEF NestedCaptures
<1>3. ASSUME f[2] = "nested", signals' = 0
      PROVE  pc'[f] \in CapturePcs /\ op'[f] \in {Nothing, "span", "snapshot", "deferred"}
  <2>1. Captures(f) /\ op[f] \in {Nothing, "span", "snapshot", "deferred"}
    BY <1>3, NestedOnly DEF NestedCaptures
  <2>2. pc'[f] \in CapturePcs
    <3>1. ASSUME Admitted(f)  PROVE \E label \in CapturePcs : pc' = [pc EXCEPT ![f] = label]
      <4>1. op[f] \notin {"flush", "signal", "close"}
        BY <2>1 DEF Nothing
      <4> QED  BY <3>1, <4>1 DEF Admitted, Goto, CapturePcs
    <3>2. CASE Admit(f) \/ Append1(f)
      <4>1. Admitted(f) \/ pc' = [pc EXCEPT ![f] = "enter"]
        BY <3>2 DEF Admit, Append1, Goto
      <4> QED  BY <3>1, <4>1 DEF TypeOK, CapturePcs
    <3>3. CASE Captures(f) /\ ~ Admit(f) /\ ~ Append1(f)
      <4>1. \E label \in CapturePcs : pc' = [pc EXCEPT ![f] = label] \/ pc' = pc
        BY <3>3 DEF Captures, CapturePcs, Capture, CaptureDeferred, Submit, EnterBuffer, Room,
            Evict,
                    EnterSnapshot, PopSnapshot, CountSnapshot, Goto
      <4>2. pc[f] \in CapturePcs
        BY <1>3, NestedOnly DEF NestedCaptures
      <4> QED  BY <4>1, <4>2 DEF TypeOK
    <3> QED  BY <2>1, <3>2, <3>3
  <2>3. op'[f] \in {Nothing, "span", "snapshot", "deferred"}
    BY <2>1 DEF Captures, TypeOK, Capture, CaptureDeferred, Submit, Admit, Admitted,
                EnterBuffer, Room, Evict, Append1, EnterSnapshot, PopSnapshot, CountSnapshot, Kind
  <2> QED  BY <2>2, <2>3
<1> QED  BY <1>1, <1>2, <1>3 DEF NestedCaptures

-----------------------------------------------------------------------------
(* Where a frame is when it acts.                                          *)

\* Every action but a call's first stands at one label.
LEMMA Labels ==
  ASSUME NEW f \in Frames
  PROVE
    /\ Start(f) => pc[f] = "idle"
    /\ Submit(f) => pc[f] = "submit"
    /\ Admit(f) => pc[f] = "admit"
    /\ EnterBuffer(f) => pc[f] = "enter"
    /\ Room(f) => pc[f] = "room"
    /\ Evict(f) => pc[f] = "evict"
    /\ Append1(f) => pc[f] = "append"
    /\ EnterSnapshot(f) => pc[f] = "snapshot"
    /\ PopSnapshot(f) => pc[f] = "pop"
    /\ CountSnapshot(f) => pc[f] = "count"
    /\ StopWorkers(f) => pc[f] = "stop"
    /\ (\E i \in Spans : ParseJob(f, i)) \/ ParsesDone(f) => pc[f] = "parse"
    /\ Acquire(f) \/ Decline(f) => pc[f] = "acquire"
    /\ Swap(f) => pc[f] = "swap"
    /\ TakeSpans(f) => pc[f] = "spans"
    /\ TakeStates(f) => pc[f] = "states"
    /\ HookReturns(f) \/ HookDrops(f) => pc[f] = "hook"
    /\ Export(f) => pc[f] = "export"
    /\ Undelivered(f) => pc[f] = "undelivered"
    /\ GiveBack(f) \/ GivenBack(f) => pc[f] = "giveBack"
    /\ Prepend(f) => pc[f] = "prepend"
    /\ Release(f) => pc[f] = "release"
    /\ Abandon(f) => pc[f] = "abandon"
    /\ LeaveSpans(f) => pc[f] = "leaveSpans"
    /\ LeaveStates(f) => pc[f] = "leaveStates"
    /\ CloseTransport(f) => pc[f] = "closeTransport"
  BY DEF At, MayCall, Start, Capture, CaptureDeferred, Parse, Flush, ShutdownFlush, Periodic, Close,
         Call, Submit, Admit, EnterBuffer, Room, Evict, Append1, EnterSnapshot, PopSnapshot,
         CountSnapshot, StopWorkers, ParseJob, ParsesDone, Acquire, Decline, Swap, TakeSpans, TakeStates,
         HookReturns, HookDrops, Export, ExportDelivers, ExportFails, ExportDeclines, Undelivered,
         GiveBack, GivenBack, Prepend, Release, Abandon, LeaveSpans, LeaveStates, CloseTransport

\* A frame that has, or is about to have, an item in its hands is in a capture's steps.
LEMMA HandSteps ==
  ASSUME NEW f \in Frames, Start(f) \/ Continue(f) \/ Export(f),
         pc[f] \in CarriesSpan \cup CarriesSnapshot \cup {"append"}
  PROVE  \/ Submit(f) \/ Admit(f) \/ EnterBuffer(f) \/ Room(f) \/ Evict(f) \/ Append1(f)
         \/ EnterSnapshot(f) \/ PopSnapshot(f) \/ CountSnapshot(f)
<1>1. pc[f] \in {"submit", "admit", "enter", "room", "evict", "append", "snapshot", "pop", "count"}
  BY DEF CarriesSpan, CarriesSnapshot
<1> QED  BY <1>1, Labels DEF Continue

\* A frame leaves a drain by disposing of its batch.
LEMMA DrainSteps ==
  ASSUME NEW f \in Frames, Start(f) \/ Continue(f) \/ Export(f), pc[f] \in DrainPcs
  PROVE  \/ HookReturns(f) \/ HookDrops(f) \/ Export(f) \/ Undelivered(f) \/ GiveBack(f)
         \/ GivenBack(f) \/ Prepend(f)
  BY Labels DEF Continue, DrainPcs

\* A drain touches no other drain's batch.
LEMMA BatchOthers ==
  ASSUME TypeOK, NEW f \in Frames, Start(f) \/ Continue(f) \/ Export(f)
  PROVE  \A g \in Frames : g # f => batch'[g] = batch[g]
<1>1. batch' = batch \/ BatchBy(f)
  BY WhatChanges
<1> QED  BY <1>1 DEF BatchBy, TakenBy, TypeOK, TakeSpans, TakeStates, Take, HookDrops,
                     ExportDelivers, ExportFails, Undelivered, GiveBack, Prepend, GivenBack,
                     Disposed, WithoutNext

\* A frame's hands are empty when its call has no item; a drain takes the spans first.
LEMMA HandsStep ==
  ASSUME TypeOK, InHand, Empties, HandsFree,
         NEW f \in Frames, Start(f) \/ Continue(f) \/ Export(f)
  PROVE  HandsFree'
<1>1. \A g \in Frames : g # f => pc'[g] = pc[g] /\ item'[g] = item[g] /\ batch'[g] = batch[g]
  BY PcMoves, HandStep, BatchOthers
<1> DEFINE Carrying == CarriesSpan \cup CarriesSnapshot \cup {"append"}
<1>2. pc'[f] \notin Carrying => item'[f] = Nothing
  <2>1. CASE pc[f] \in Carrying
    <3>1. ASSUME Admitted(f)  PROVE item'[f] = Nothing
      BY <3>1 DEF Admitted, TypeOK
    <3>2. CASE Submit(f) \/ Admit(f) \/ Append1(f)
      BY <3>1, <3>2 DEF Submit, Admit, Append1, Goto, TypeOK, CarriesSpan
    <3>3. CASE EnterBuffer(f) \/ Room(f) \/ Evict(f)
      BY <3>3 DEF EnterBuffer, Room, Evict, Goto, TypeOK, CarriesSpan
    <3>4. CASE EnterSnapshot(f) \/ PopSnapshot(f) \/ CountSnapshot(f)
      BY <3>4 DEF EnterSnapshot, PopSnapshot, CountSnapshot, Goto, TypeOK, CarriesSnapshot
    <3> QED  BY <2>1, HandSteps, <3>2, <3>3, <3>4
  <2>2. CASE pc[f] \notin Carrying
    <3>1. item[f] = Nothing
      BY <2>2 DEF HandsFree
    <3>2. item' = item \/ ItemBy(f)
      BY WhatChanges
    <3>3. CASE ItemBy(f)
      <4>1. ~ Submit(f) /\ ~ Admit(f) /\ ~ Append1(f)
        BY <2>2, Labels DEF CarriesSpan
      <4>2. \/ \E i \in Items : Capture(f, i)
            \/ \E i \in Spans : CaptureDeferred(f, i) \/ Parse(f, i) \/ ParseJob(f, i)
        BY <3>3, <4>1 DEF ItemBy
      <4> QED  BY <4>2, <3>1, ZenonT(200) DEF Capture, CaptureDeferred, Parse, ParseJob, Goto, TypeOK,
          CarriesSpan,
                           CarriesSnapshot
    <3> QED  BY <3>1, <3>2, <3>3
  <2> QED  BY <2>1, <2>2
<1>3. pc'[f] = "states" => batch'[f]["snapshot"] = <<>>
  <2> SUFFICES ASSUME pc'[f] = "states"  PROVE batch'[f]["snapshot"] = <<>>
    OBVIOUS
  <2>1. TakeSpans(f)
    <3>1. Swap(f) \/ TakeSpans(f) \/ Abandon(f) \/ LeaveSpans(f)
      BY WhereTo
    <3> QED  BY <3>1 DEF Swap, Abandon, LeaveSpans, Goto, TypeOK
  <2>2. batch[f] = Empty
    BY <2>1, Labels DEF Empties
  <2> QED  BY <2>1, <2>2 DEF TakeSpans, Take, Empty, Kinds, TypeOK
<1> QED  BY <1>1, <1>2, <1>3 DEF HandsFree

\* The two frames of a thread.
LEMMA TwoFrames ==
  ASSUME NEW f \in Frames, f[2] = "base"
  PROVE  /\ Nested(f) \in Frames /\ Nested(f)[2] = "nested" /\ Nested(f) # f
         /\ Thread(Nested(f)) = Thread(f)
         /\ \A g \in Frames : Thread(g) = Thread(f) => g = f \/ g = Nested(f)
<1>1. f \in (Threads \cup {Worker, Parser}) \X {"base", "nested"} /\ f = <<f[1], "base">>
  BY DEF Frames, Levels
<1>2. \A g \in Frames : g = <<g[1], g[2]>> /\ g[2] \in {"base", "nested"}
  BY DEF Frames, Levels
<1> QED  BY <1>1, <1>2 DEF Nested, Thread, Frames, Levels

\* Before any signal what is not a capture's step is a base frame's, with nothing nested in it.
LEMMA Uninterrupted ==
  ASSUME TypeOK, NestedCaptures, signals' = 0,
         NEW f \in Frames, Start(f) \/ Continue(f) \/ Export(f), ~ Captures(f)
  PROVE  \A g \in Frames : Thread(g) = Thread(f) /\ g # f => pc[g] = "idle"
<1>1. f[2] = "base"
  <2>1. f[2] # "nested"
    BY NestedOnly
  <2> QED  BY <2>1 DEF Frames, Levels
<1>2. pc[Nested(f)] = "idle"
  <2>1. Runs(f)
    BY PcMoves
  <2> QED  BY <1>1, <2>1 DEF Runs
<1> QED  BY <1>1, <1>2, TwoFrames

\* Before any signal nothing is swapped away under a frame that refers to it.
LEMMA StaleStep ==
  ASSUME TypeOK, NestedCaptures, NothingStale, AllFiled, NestedLive, OldestIsThere,
         NEW f \in Frames, Start(f) \/ Continue(f) \/ Export(f)
  PROVE  NothingStale'
<1> SUFFICES ASSUME signals' = 0
             PROVE  orphaned' = {} /\ resent' = {} /\ \A g \in Frames : ~ old'[g].stale
  BY DEF NothingStale
<1>1. orphaned = {} /\ resent = {} /\ \A g \in Frames : ~ old[g].stale
  <2>1. signals = 0
    <3>1. signals \in Nat
      BY ClientAssumption DEF TypeOK
    <3>2. signals' = signals \/ signals' = signals + 1
      BY CallsStep
    <3> QED  BY <3>1, <3>2
  <2> QED  BY <2>1 DEF NothingStale
<1>2. orphaned' = {} /\ resent' = {}
  <2>1. StoreBy(f) => orphaned' = orphaned
    <3>1. ASSUME NEW k \in Kinds, Store(f, k)  PROVE orphaned' = orphaned
      BY <1>1, <3>1 DEF Store, Taken
    <3> QED  BY <3>1, StoreStep
  <2>2. TakenBy(f) => resent' = resent
    <3>1. ASSUME NEW k \in Kinds, Take(f, k)  PROVE resent' = resent
      BY <1>1, <3>1 DEF Take
    <3> QED  BY <3>1, StoreStep
  <2>3. (orphaned' = orphaned \/ OrphanedBy(f)) /\ (resent' = resent \/ ResentBy(f))
    BY WhatChanges
  <2> QED  BY <1>1, <2>1, <2>2, <2>3 DEF OrphanedBy, ResentBy, Append1, CountSnapshot, Prepend
<1>3. old' = old \/ OldBy(f)
  BY WhatChanges
<1>4. CASE StoreBy(f)
  <2>1. PICK k \in Kinds : Stores(f, k)
    BY <1>4, StoreStep
  <2>2. Orphan(f, k) /\ pc[f] \in {"spans", "states", "leaveSpans", "leaveStates"}
    BY <2>1, StoreStep DEF Store
  <2>3. ~ Captures(f)
    BY <2>2, Labels DEF Captures, Start
  <2>4. \A g \in Frames : Thread(g) = Thread(f) /\ g # f => pc[g] = "idle"
    BY <2>3, Uninterrupted
  <2>5. \A g \in Frames : Thread(g) = Thread(f) /\ g # f => ~ Holds(g, k)
    BY <2>4 DEF Holds
  <2>6. old' = [g \in Frames |-> IF g = f THEN Live ELSE old[g]]
    BY <2>2, <2>5 DEF Orphan
  <2> QED  BY <1>1, <1>2, <2>6 DEF Live
<1>5. CASE \/ Room(f) \/ EnterSnapshot(f) \/ CountSnapshot(f) \/ GiveBack(f) \/ Swap(f)
           \/ Abandon(f)
  <2>1. old' = [old EXCEPT ![f] = [stale |-> FALSE, items |-> <<>>]]
    BY <1>5 DEF Room, EnterSnapshot, CountSnapshot, GiveBack, Swap, Abandon, Live
  <2> QED  BY <1>1, <1>2, <2>1 DEF TypeOK
<1>6. CASE PopSnapshot(f)
  <2>1. \E s : old' = [old EXCEPT ![f].items = s]
    BY <1>6 DEF PopSnapshot
  <2> QED  BY <1>1, <1>2, <2>1 DEF TypeOK
<1> QED  BY <1>1, <1>2, <1>3, <1>4, <1>5, <1>6 DEF OldBy

\* The export slot is taken only when no frame has it.
LEMMA SlotStep ==
  ASSUME TypeOK, NestedCaptures, OneDrain, NEW f \in Frames, Start(f) \/ Continue(f) \/ Export(f)
  PROVE  OneDrain'
<1> SUFFICES ASSUME signals' = 0  PROVE \A g, h \in Frames : InExport(g)' /\ InExport(h)' => g = h
  BY DEF OneDrain
<1>1. \A g, h \in Frames : InExport(g) /\ InExport(h) => g = h
  <2>1. signals = 0
    <3>1. signals \in Nat
      BY ClientAssumption DEF TypeOK
    <3>2. signals' = signals \/ signals' = signals + 1
      BY CallsStep
    <3> QED  BY <3>1, <3>2
  <2> QED  BY <2>1 DEF OneDrain
<1>2. \A g \in Frames : g # f => pc'[g] = pc[g]
  BY PcMoves
<1>3. CASE ~ Acquire(f)
  <2>1. InExport(f)' => InExport(f)
    <3>1. CASE pc[f] = "idle"
      <4>1. Start(f)
        BY <3>1, Labels DEF Continue
      <4>2. \E label \in {"idle", "admit", "snapshot", "submit", "parse", "acquire", "stop"} :
              pc' = pc \/ pc' = [pc EXCEPT ![f] = label]
        BY <4>1 DEF Start, Capture, CaptureDeferred, Parse, Flush, ShutdownFlush, Periodic, Close,
            Call,
                    Goto
      <4> QED  BY <3>1, <4>2 DEF TypeOK, InExport
    <3>2. CASE pc[f] \in CarriesSpan \cup CarriesSnapshot \cup {"append"}
      BY <3>2, HandSteps, ZenonT(200) DEF TypeOK, Submit, Admit, Admitted, EnterBuffer, Room, Evict, Append1,
                             EnterSnapshot, PopSnapshot, CountSnapshot, Goto, InExport
    <3>3. CASE pc[f] \in {"stop", "parse", "acquire", "abandon", "leaveSpans", "leaveStates",
                           "closeTransport"}
      <4>1. \/ StopWorkers(f) \/ (\E i \in Spans : ParseJob(f, i)) \/ ParsesDone(f) \/ Decline(f)
            \/ Abandon(f) \/ LeaveSpans(f) \/ LeaveStates(f) \/ CloseTransport(f)
        BY <3>3, <1>3, Labels DEF Continue
      <4> QED  BY <4>1 DEF TypeOK, StopWorkers, ParseJob, ParsesDone, Decline, Abandon, LeaveSpans, LeaveStates,
                            CloseTransport, Goto, InExport
    <3> QED  BY <3>1, <3>2, <3>3 DEF TypeOK, Pcs, InExport, CarriesSpan, CarriesSnapshot
  <2> QED  BY <1>1, <1>2, <2>1 DEF InExport
<1>4. CASE Acquire(f)
  <2>1. ~ Captures(f)
    <3>1. pc[f] = "acquire"
      BY <1>4, Labels
    <3> QED  BY <3>1, Labels DEF Captures, Start
  <2>2. \A g \in Frames : g # f => ~ InExport(g)
    <3>1. \A g \in Frames : Thread(g) = Thread(f) /\ g # f => pc[g] = "idle"
      BY <2>1, Uninterrupted
    <3> QED  BY <3>1, <1>4 DEF Acquire, CanTakeExport, InExport
  <2> QED  BY <1>2, <2>2 DEF InExport
<1> QED  BY <1>3, <1>4

\* What is exported stays a part of the batch, in its order.
LEMMA PartStep ==
  ASSUME TypeOK, AllFiled, GivesBack, SentPart, NEW f \in Frames,
      Start(f) \/ Continue(f) \/ Export(f)
  PROVE  SentPart'
<1>1. \A g \in Frames : g # f => pc'[g] = pc[g] /\ batch'[g] = batch[g]
  BY PcMoves, BatchOthers
<1>2. \A g \in Frames : g # f => sent'[g] = sent[g]
  <2>1. sent' = sent \/ SentBy(f)
    BY WhatChanges
  <2> QED  BY <2>1 DEF SentBy, TypeOK, Swap, TakeSpans, TakeStates, HookReturns, HookDrops, ExportDelivers,
                       ExportFails, Undelivered, GivenBack, Disposed
<1>3. pc'[f] = "export" => \A k \in Kinds : sent'[f][k] \in Subsequences(batch'[f][k])
  <2> SUFFICES ASSUME pc'[f] = "export"
               PROVE  \A k \in Kinds : sent'[f][k] \in Subsequences(batch'[f][k])
    OBVIOUS
  <2>1. HookReturns(f)
    BY WhereTo
  <2>2. PICK kept \in Subsequences(batch[f]["span"]), states \in Subsequences(batch[f]["snapshot"]) :
          sent' = [sent EXCEPT ![f] = [k \in Kinds |-> IF k = "span" THEN kept ELSE states]]
    BY <2>1 DEF HookReturns
  <2>3. sent'[f]["span"] = kept /\ sent'[f]["snapshot"] = states /\ batch' = batch
    BY <2>1, <2>2 DEF HookReturns, TypeOK, Kinds
  <2> QED  BY <2>3 DEF Kinds
<1> QED  BY <1>1, <1>2, <1>3 DEF SentPart

-----------------------------------------------------------------------------
(* A batch on its way back, and a close().                                 *)

\* The actions of a close(), and where each leads.
LEMMA CloseMoves ==
  ASSUME TypeOK, NEW f \in Frames, Start(f) \/ Continue(f) \/ Export(f),
         op[f] = "close", pc[f] \in ClosePcs
  PROVE  /\ op'[f] = "close" => pc'[f] \in ClosePcs
         /\ ~ TakeStates(f) /\ ~ LeaveStates(f)
            /\ pc[f] \notin {"hook", "export", "undelivered", "release", "closeTransport"}
            => /\ op'[f] = "close"
               /\ pc'[f] \notin {"hook", "export", "undelivered", "release", "closeTransport"}
<1>1. CASE pc[f] \in {"stop", "parse", "acquire"}
  <2>1. \/ StopWorkers(f) \/ (\E i \in Spans : ParseJob(f, i)) \/ ParsesDone(f) \/ Acquire(f) \/ Decline(f)
    BY <1>1, Labels DEF Continue
  <2> QED  BY <2>1 DEF TypeOK, ClosePcs, StopWorkers, ParseJob, ParsesDone, Acquire, Decline, Goto
<1>2. CASE pc[f] \in {"admit", "enter", "room", "evict", "append"}
  <2>1. Admit(f) \/ EnterBuffer(f) \/ Room(f) \/ Evict(f) \/ Append1(f)
    BY <1>2, Labels DEF Continue
  <2>2. ASSUME Admitted(f)  PROVE op' = op /\ pc' = [pc EXCEPT ![f] = "parse"]
    BY <2>2 DEF Admitted, Goto
  <2> QED  BY <2>1, <2>2 DEF TypeOK, ClosePcs, Admit, EnterBuffer, Room, Evict, Append1, Goto
<1>3. CASE pc[f] \in {"swap", "spans", "states", "abandon", "leaveSpans", "leaveStates"}
  <2>1. Swap(f) \/ Abandon(f) \/ StoreBy(f)
    BY <1>3, Labels DEF Continue, StoreBy, TakenBy
  <2> QED  BY <2>1 DEF TypeOK, ClosePcs, StoreBy, TakenBy, Swap, TakeSpans, TakeStates, Abandon,
                       LeaveSpans, LeaveStates, Goto
<1>4. CASE pc[f] \in {"hook", "export", "undelivered", "release", "closeTransport"}
  <2>1. \/ HookReturns(f) \/ HookDrops(f) \/ Export(f) \/ Undelivered(f) \/ Release(f)
        \/ CloseTransport(f)
    BY <1>4, Labels DEF Continue
  <2> QED  BY <1>4, <2>1 DEF TypeOK, ClosePcs, HookReturns, HookDrops, Export, ExportDelivers,
                        ExportFails, ExportDeclines, Undelivered, Release, CloseTransport, Disposed,
                        Goto, Nothing
<1> QED  BY <1>1, <1>2, <1>3, <1>4 DEF ClosePcs

\* The final drain waits for whoever gives a batch back.
LEMMA FinalStep ==
  ASSUME TypeOK, BufferOwned, NestedCaptures, FinalWaits,
         NEW f \in Frames, Start(f) \/ Continue(f) \/ Export(f)
  PROVE  FinalWaits'
<1>1. \A g \in Frames : g # f => pc'[g] = pc[g] /\ op'[g] = op[g]
  BY PcMoves, CallsStep
<1>2. closed' = closed \/ (Close(f) /\ closed' = TRUE)
  BY CallsStep
<1>3. Runs(f) /\ NestedCaptures'
  BY PcMoves, NestedStep
<1>4. \A g \in Frames : op[g] = "close" => pc[g] \in ClosePcs
  BY DEF FinalWaits
<1>5. ASSUME Close(f)
      PROVE  ~ closed /\ op'[f] = "close" /\ pc'[f] = "stop" /\ Closing(f)'
  <2>1. ~ closed /\ op'[f] = "close" /\ pc'[f] = "stop"
    BY <1>5 DEF Close, Call, Goto, TypeOK
  <2> QED  BY <2>1 DEF Closing
<1>6. op'[f] = "close" => pc'[f] \in ClosePcs
  <2>1. CASE op[f] = "close"
    BY <2>1, <1>4, CloseMoves
  <2>2. CASE op[f] # "close" /\ ~ Close(f)
    <3>1. Start(f) => op' = op \/ \E what : what # "close" /\ op' = [op EXCEPT ![f] = what]
      BY <2>2 DEF Start, Capture, CaptureDeferred, Parse, Flush, ShutdownFlush, Periodic, Call, Kind
    <3>2. Continue(f) \/ Export(f) => op' = op \/ op' = [op EXCEPT ![f] = Nothing]
      BY DEF Continue, Export, Submit, Admit, Admitted, EnterBuffer, Room, Evict, Append1,
             EnterSnapshot, PopSnapshot, CountSnapshot, StopWorkers, ParseJob, ParsesDone, Acquire,
             Decline, Swap, TakeSpans, TakeStates, HookReturns, HookDrops, Undelivered, GiveBack, Prepend,
             GivenBack, Release, Abandon, LeaveSpans, LeaveStates, CloseTransport, ExportDelivers, ExportFails,
             ExportDeclines
    <3> QED  BY <2>2, <3>1, <3>2 DEF TypeOK, Nothing
  <2>3. CASE Close(f)
    BY <2>3, <1>5 DEF ClosePcs
  <2> QED  BY <2>1, <2>2, <2>3
<1>7. ASSUME closed', NEW h \in Frames, pc'[h] \in {"giveBack", "prepend"}
      PROVE  \E g \in Frames : Closing(g)' /\ Thread(g) # Thread(h)
  <2>1. CASE Close(f)
    <3>1. h # f /\ pc[h] = pc'[h]
      BY <1>1, <1>5, <1>7, <2>1
    <3>2. f[2] = "base"
      BY <1>3, <1>5, <2>1 DEF NestedCaptures, Frames, Levels
    <3>3. Thread(h) # Thread(f)
      BY <1>3, <1>7, <3>1, <3>2, TwoFrames DEF Runs
    <3> QED  BY <1>5, <2>1, <3>3
  <2>2. CASE ~ Close(f) /\ h = f
    <3>1. closed
      BY <1>2, <1>7, <2>2
    <3>2. pc[f] \in {"giveBack", "prepend"}
      <4>1. Undelivered(f) \/ GiveBack(f) \/ Prepend(f)
        BY <1>7, <2>2, WhereTo
      <4>2. Undelivered(f) => pc'[f] = "release"
        BY <3>1 DEF Undelivered, Disposed, Goto, TypeOK
      <4> QED  BY <1>7, <2>2, <4>1, <4>2, Labels
    <3>3. PICK g \in Frames : Closing(g) /\ Thread(g) # Thread(f)
      BY <3>1, <3>2 DEF FinalWaits
    <3> QED  BY <1>1, <2>2, <3>3 DEF Closing
  <2>3. CASE ~ Close(f) /\ h # f
    <3>1. closed /\ pc[h] \in {"giveBack", "prepend"}
      BY <1>1, <1>2, <1>7, <2>3
    <3>2. PICK g \in Frames : Closing(g) /\ Thread(g) # Thread(h)
      BY <3>1 DEF FinalWaits
    <3>3. CASE g # f
      BY <1>1, <3>2, <3>3 DEF Closing
    <3>4. CASE g = f
      <4>1. ~ TakeStates(f) /\ ~ LeaveStates(f)
        BY <3>1, <3>2, <3>4, Labels DEF BufferOwned, InBuffer
      <4>2. op[f] = "close" /\ pc[f] \notin {"hook", "export", "undelivered", "release", "closeTransport"}
        BY <3>2, <3>4 DEF Closing
      <4>3. Closing(f)'
        BY <1>4, <4>1, <4>2, CloseMoves DEF Closing
      <4> QED  BY <3>2, <3>4, <4>3
    <3> QED  BY <3>3, <3>4
  <2> QED  BY <2>1, <2>2, <2>3
<1> QED  BY <1>1, <1>4, <1>6, <1>7 DEF FinalWaits

-----------------------------------------------------------------------------
(* The bounds.                                                             *)

\* Where a frame is that stores.
LEMMA StoreLabels ==
  ASSUME NEW f \in Frames, NEW k \in Kinds
  PROVE  /\ Stores(f, k) => pc[f] \in {"spans", "states", "leaveSpans", "leaveStates"}
         /\ Stores(f, k) => StoreBy(f) /\ InBuffer(f)
  BY StoreStep

\* Who puts an item in the buffer has its lock.
LEMMA AddsIn ==
  ASSUME NEW f \in Frames, NEW k, Adds(f, k)
  PROVE  InBuffer(f) /\ pc[f] \in {"append", "prepend", "count", "pop"}
  BY DEF Adds, InBuffer

\* What each action makes of the two lengths.
LEMMA LengthAfter ==
  ASSUME TypeOK, InHand, AllFiled, OldestIsThere, GivesBack,
         NEW f \in Frames, Start(f) \/ Continue(f) \/ Export(f), NEW k \in Kinds
  PROVE  /\ Len(buf[k]) \in Nat /\ Len(buf'[k]) \in Nat
         /\ Len(buf'[k]) <= Len(buf[k]) + 1
         /\ Len(buf'[k]) > Len(buf[k]) => Adds(f, k) /\ (Append1(f) \/ Prepend(f))
         /\ Stores(f, k) => Len(buf'[k]) = 0
         /\ PopSnapshot(f) /\ ~ old[f].stale /\ k = "snapshot" => Len(buf'[k]) + 1 = Len(buf[k])
<1>1. buf \in [Kinds -> Seq(Items)] /\ buf[k] \in Seq(Items) /\ Len(buf[k]) \in Nat
  BY DEF TypeOK
<1>2. buf' = buf \/ BufBy(f)
  BY WhatChanges
<1>3. ASSUME NEW s \in Seq(Items), s # <<>>  PROVE Len(Tail(s)) + 1 = Len(s) /\ Len(Tail(s)) \in Nat
  BY <1>3
<1>4. ASSUME NEW s \in Seq(Items), NEW x \in Items
      PROVE  Len(Append(s, x)) = Len(s) + 1 /\ Len(<<x>> \o s) = Len(s) + 1
  <2>1. <<x>> \in Seq(Items) /\ Len(<<x>>) = 1
    BY <1>4
  <2> QED  BY <1>4, <2>1, AppendProperties, ConcatProperties
<1>5. CASE buf' = buf /\ ~ Stores(f, k) /\ (PopSnapshot(f) => old[f].stale)
  BY <1>1, <1>5
<1>6. CASE Stores(f, k)
  <2>1. buf' = [buf EXCEPT ![k] = <<>>] /\ ~ PopSnapshot(f)
    <3>1. Store(f, k) /\ pc[f] \in {"spans", "leaveSpans", "states", "leaveStates"}
      BY <1>6, StoreStep
    <3> QED  BY <3>1, Labels DEF Store
  <2>2. Len(buf'[k]) = 0
    BY <1>1, <2>1
  <2> QED  BY <1>1, <2>1, <2>2
<1>7. CASE Evict(f)
  <2>1. ~ Stores(f, k) /\ ~ PopSnapshot(f)
    BY <1>7, Labels, StoreLabels
  <2>2. CASE old[f].stale
    <3>1. buf' = buf
      BY <1>7, <2>2 DEF Evict
    <3> QED  BY <1>5, <2>1, <3>1
  <2>3. CASE ~ old[f].stale
    <3>1. buf["span"] \in Seq(Items) /\ buf["span"] # <<>> /\ buf' = [buf EXCEPT !["span"] = Tail(@)]
      BY <1>1, <1>7, <2>3, Finds DEF Evict, Kinds
    <3>2. CASE k = "span"
      <4>1. buf'[k] = Tail(buf["span"])
        BY <1>1, <3>1, <3>2
      <4>2. Len(buf'[k]) + 1 = Len(buf[k]) /\ Len(buf'[k]) \in Nat
        BY <1>3, <3>1, <3>2, <4>1
      <4> QED  BY <1>1, <2>1, <4>2
    <3>3. CASE k # "span"
      <4>1. buf'[k] = buf[k]
        BY <1>1, <3>1, <3>3
      <4> QED  BY <1>1, <2>1, <4>1
    <3> QED  BY <3>2, <3>3
  <2> QED  BY <2>2, <2>3
<1>8. CASE PopSnapshot(f) /\ ~ old[f].stale
  <2>1. ~ Stores(f, k)
    BY <1>8, Labels, StoreLabels
  <2>2. /\ buf["snapshot"] \in Seq(Items) /\ buf["snapshot"] # <<>>
        /\ buf' = [buf EXCEPT !["snapshot"] = Tail(@)]
    BY <1>1, <1>8, Finds DEF PopSnapshot, Kinds
  <2>3. CASE k = "snapshot"
    <3>1. buf'[k] = Tail(buf["snapshot"])
      BY <1>1, <2>2, <2>3
    <3>2. Len(buf'[k]) + 1 = Len(buf[k]) /\ Len(buf'[k]) \in Nat
      BY <1>3, <2>2, <2>3, <3>1
    <3> QED  BY <1>1, <2>1, <3>2
  <2>4. CASE k # "snapshot"
    <3>1. buf'[k] = buf[k]
      BY <1>1, <2>2, <2>4
    <3> QED  BY <1>1, <2>1, <2>4, <3>1
  <2> QED  BY <2>3, <2>4
<1>9. ASSUME NEW x \in Items, buf' = [buf EXCEPT ![Kind(x)] = Append(@, x)]
             \/ buf' = [buf EXCEPT ![Kind(x)] = <<x>> \o @]
      PROVE  /\ Len(buf'[k]) \in Nat /\ Len(buf'[k]) <= Len(buf[k]) + 1
             /\ Len(buf'[k]) > Len(buf[k]) => Kind(x) = k
  <2>1. CASE Kind(x) = k
    <3>1. buf'[k] = Append(buf[k], x) \/ buf'[k] = <<x>> \o buf[k]
      BY <1>1, <1>9, <2>1
    <3>2. Len(buf'[k]) = Len(buf[k]) + 1
      BY <1>1, <1>4, <3>1
    <3> QED  BY <1>1, <2>1, <3>2
  <2>2. CASE Kind(x) # k
    <3>1. buf'[k] = buf[k]
      BY <1>1, <1>9, <2>2
    <3> QED  BY <1>1, <3>1
  <2> QED  BY <2>1, <2>2
<1>10. CASE Append1(f)
  <2>1. ~ Stores(f, k) /\ ~ PopSnapshot(f) /\ pc[f] = "append"
    BY <1>10, Labels, StoreLabels
  <2>2. CASE old[f].stale
    <3>1. buf' = buf
      BY <1>10, <2>2 DEF Append1
    <3> QED  BY <1>5, <2>1, <3>1
  <2>3. CASE ~ old[f].stale
    <3>1. item[f] \in Items /\ buf' = [buf EXCEPT ![Kind(item[f])] = Append(@, item[f])]
      BY <1>10, <2>1, <2>3 DEF Append1, InHand
    <3>2. /\ Len(buf'[k]) \in Nat /\ Len(buf'[k]) <= Len(buf[k]) + 1
          /\ Len(buf'[k]) > Len(buf[k]) => Kind(item[f]) = k
      BY <1>9, <3>1
    <3> QED  BY <1>1, <1>10, <2>1, <2>3, <3>2 DEF Adds
  <2> QED  BY <2>2, <2>3
<1>11. CASE Prepend(f)
  <2>1. ~ Stores(f, k) /\ ~ PopSnapshot(f) /\ pc[f] = "prepend"
    BY <1>11, Labels, StoreLabels
  <2>2. CASE old[f].stale
    <3>1. buf' = buf
      BY <1>11, <2>2 DEF Prepend
    <3> QED  BY <1>5, <2>1, <3>1
  <2>3. CASE ~ old[f].stale
    <3>1. NextBack(f) \in Items
      BY <2>1, NextLeaves DEF GivesBack, TypeOK
    <3>2. buf' = [buf EXCEPT ![Kind(NextBack(f))] = <<NextBack(f)>> \o @]
      BY <1>11, <2>3 DEF Prepend
    <3>3. /\ Len(buf'[k]) \in Nat /\ Len(buf'[k]) <= Len(buf[k]) + 1
          /\ Len(buf'[k]) > Len(buf[k]) => Kind(NextBack(f)) = k
      BY <1>9, <3>1, <3>2
    <3> QED  BY <1>1, <1>11, <2>1, <2>3, <3>3 DEF Adds
  <2> QED  BY <2>2, <2>3
<1>12. PopSnapshot(f) /\ old[f].stale => buf' = buf /\ ~ Stores(f, k)
  BY Labels, StoreLabels DEF PopSnapshot
<1>13. CASE StoreBy(f) /\ ~ Stores(f, k)
  <2>1. PICK j \in Kinds : Stores(f, j)
    BY <1>13, StoreStep
  <2>2. j # k /\ buf' = [buf EXCEPT ![j] = <<>>]
    BY <1>13, <2>1, StoreStep DEF Store
  <2>3. buf'[k] = buf[k] /\ ~ PopSnapshot(f)
    BY <1>1, <2>1, <2>2, Labels, StoreLabels
  <2> QED  BY <1>1, <1>13, <2>3
<1> QED  BY <1>2, <1>5, <1>6, <1>7, <1>8, <1>10, <1>11, <1>12, <1>13 DEF BufBy

\* Who is about to put an item in was before, or found that it fits, or just made room.
LEMMA AddsAfter ==
  ASSUME TypeOK, InHand, AllFiled, GivesBack, OldestIsThere, NestedLive,
         NEW f \in Frames, Start(f) \/ Continue(f) \/ Export(f),
         NEW g \in Frames, NEW k \in Kinds, Adds(g, k)'
  PROVE  \/ Adds(g, k) /\ ~ Stores(f, k)
         \/ Stores(f, k)
         \/ /\ g = f /\ buf' = buf
            /\ \E x \in Items : Kind(x) = k /\ Fits(x) /\ Adding(f)' = x
         \/ g = f /\ PopSnapshot(f) /\ ~ old[f].stale /\ k = "snapshot"
<1>1. CASE Stores(f, k)
  BY <1>1
<1>2. CASE g # f /\ ~ Stores(f, k)
  <2>1. pc'[g] = pc[g] /\ item'[g] = item[g] /\ batch'[g] = batch[g]
    BY <1>2, PcMoves, HandStep, BatchOthers
  <2>2. CASE old'[g] = old[g]
    BY <1>2, <2>1, <2>2 DEF Adds, NextBack
  <2>3. CASE StoreBy(f)
    <3>1. PICK j \in Kinds : Stores(f, j)
      BY <2>3, StoreStep
    <3>2. j # k /\ Orphan(f, j)
      BY <1>2, <3>1, StoreStep DEF Store
    <3>3. CASE Holds(g, j)
      <4>1. pc[g] \notin {"append", "prepend"} \/ ~ Adds(g, k)'
        BY <2>1, <3>2, <3>3 DEF Holds, Adds, NextBack
      <4>2. pc[g] = "pop" /\ k = "snapshot" => FALSE
        BY <3>2, <3>3 DEF Holds, Kinds
      <4> QED  BY <1>2, <2>1, <4>1, <4>2 DEF Adds
    <3>4. CASE ~ Holds(g, j)
      <4>1. old'[g] = old[g]
        BY <1>2, <3>2, <3>4 DEF Orphan
      <4> QED  BY <2>2, <4>1
    <3> QED  BY <3>3, <3>4
  <2> QED  BY <1>2, <2>2, <2>3, OldStep
<1>3. CASE g = f /\ ~ Stores(f, k)
  <2>1. pc'[f] \in {"append", "prepend", "count", "pop"}
    BY <1>3 DEF Adds
  <2>2. CASE pc'[f] = "append"
    <3>1. Room(f) \/ EnterSnapshot(f) \/ CountSnapshot(f)
      BY <2>2, WhereTo
    <3>2. item' = item /\ Kind(item[f]) = k
      BY <1>3, <2>2, <3>1 DEF Adds, Room, EnterSnapshot, CountSnapshot
    <3>3. CASE Room(f) \/ EnterSnapshot(f)
      <4>1. Fits(item[f]) /\ buf' = buf
        BY <2>2, <3>3 DEF Room, EnterSnapshot, Goto, TypeOK
      <4>2. item[f] \in Items /\ Adding(f)' = item[f]
        BY <2>2, <3>2, <3>3, Labels DEF InHand, Items, CarriesSpan, CarriesSnapshot, Adding
      <4> QED  BY <1>3, <3>2, <4>1, <4>2
    <3>4. CASE CountSnapshot(f)
      <4>1. pc[f] = "count" /\ item[f] \in Snapshots
        BY <3>4, Labels DEF InHand, CarriesSnapshot
      <4>2. k = "snapshot"
        BY <3>2, <4>1, ClientAssumption DEF Kind
      <4> QED  BY <1>3, <4>1, <4>2 DEF Adds
    <3> QED  BY <3>1, <3>3, <3>4
  <2>3. CASE pc'[f] = "prepend"
    <3>1. GiveBack(f)
      <4>1. Undelivered(f) \/ GiveBack(f) \/ Prepend(f)
        BY <2>3, WhereTo
      <4> QED  BY <2>3, <4>1 DEF Undelivered, Prepend, Disposed, Goto, TypeOK
    <3>2. Fits(NextBack(f)) /\ batch' = batch /\ buf' = buf /\ batch[f] # Empty
      <4>1. GiveBack(f) /\ ~ Fits(NextBack(f)) => pc' = pc /\ pc[f] = "giveBack"
        BY <3>1, Labels DEF GiveBack
      <4> QED  BY <2>3, <3>1, <4>1 DEF GiveBack
    <3>3. NextBack(f) \in Items /\ NextBack(f)' = NextBack(f) /\ Kind(NextBack(f)) = k
      BY <1>3, <2>3, <3>2, NextLeaves DEF NextBack, Adds, TypeOK
    <3>4. Adding(f)' = NextBack(f)
      BY <2>3, <3>3 DEF Adding
    <3> QED  BY <1>3, <3>2, <3>3, <3>4
  <2>4. CASE pc'[f] = "count"
    <3>1. PopSnapshot(f) /\ k = "snapshot"
      <4>1. EnterSnapshot(f) \/ PopSnapshot(f)
        BY <2>4, WhereTo
      <4> QED  BY <1>3, <2>4, <4>1 DEF EnterSnapshot, Goto, TypeOK, Adds
    <3> QED  BY <1>3, <3>1, Labels DEF Adds
  <2>5. CASE pc'[f] = "pop"
    <3>1. EnterSnapshot(f)
      <4>1. EnterSnapshot(f) \/ PopSnapshot(f)
        BY <2>5, WhereTo
      <4> QED  BY <2>5, <4>1 DEF PopSnapshot, Goto, TypeOK
    <3>2. ~ old'[f].stale
      BY <3>1 DEF EnterSnapshot, TypeOK, Live
    <3> QED  BY <1>3, <2>5, <3>2 DEF Adds
  <2> QED  BY <2>1, <2>2, <2>3, <2>4, <2>5
<1> QED  BY <1>1, <1>2, <1>3

\* Only a nested frame moves while another of its thread holds the buffer.
LEMMA RoomStep ==
  ASSUME TypeOK, InHand, AllFiled, GivesBack, OldestIsThere, NestedLive, BufferOwned,
         NestedCaptures, RoomLeft, NEW f \in Frames, Start(f) \/ Continue(f) \/ Export(f)
  PROVE  RoomLeft'
<1>1. Bound' = Bound /\ Bound \in Nat /\ MaxSpans \in Nat \ {0} /\ MaxSpans <= Bound
  <2>1. host' = host
    BY PcMoves
  <2>2. Nests' = Nests
    BY <2>1 DEF Nests
  <2>3. Bit(Nests) \in {0, 1} /\ MaxSpans \in Nat \ {0}
    BY ClientAssumption DEF Bit
  <2> QED  BY <2>2, <2>3 DEF Bound
<1>2. ASSUME NEW g \in Frames, g[2] = "nested", pc[g] # "idle"  PROVE Bound = MaxSpans + 1
  <2>1. Nests
    BY <1>2 DEF NestedCaptures, Nests
  <2> QED  BY <2>1 DEF Bound, Bit
<1>3. Runs(f) /\ \A g \in Frames : g # f => pc'[g] = pc[g]
  BY PcMoves
<1> SUFFICES ASSUME NEW k \in Kinds
             PROVE  /\ Len(buf'[k]) <= Bound
                    /\ \A g \in Frames : Adds(g, k)' => Len(buf'[k]) < Bound
                    /\ \A g \in Frames :
                         g[2] = "base" /\ Adds(g, k)' /\ Adds(Nested(g),
                             k)' => Len(buf'[k]) + 1 < Bound
  BY <1>1 DEF RoomLeft
<1> DEFINE n == Len(buf[k])
           m == Len(buf'[k])
<1>4. /\ n \in Nat /\ m \in Nat /\ m <= n + 1
      /\ m > n => Adds(f, k) /\ (Append1(f) \/ Prepend(f))
      /\ Stores(f, k) => m = 0
      /\ PopSnapshot(f) /\ ~ old[f].stale /\ k = "snapshot" => m + 1 = n
  BY LengthAfter
<1>5. /\ n <= Bound
      /\ \A g \in Frames : Adds(g, k) => n < Bound
      /\ \A g \in Frames : g[2] = "base" /\ Adds(g, k) /\ Adds(Nested(g), k) => n + 1 < Bound
  BY DEF RoomLeft
<1> HIDE DEF n, m
<1>6. m <= Bound
  BY <1>1, <1>4, <1>5
<1>7. ASSUME NEW g \in Frames, Adds(g, k)'  PROVE m < Bound
  <2>1. CASE Adds(g, k) /\ g # f
    <3>1. CASE m > n
      <4>1. Adds(f, k)
        BY <1>4, <3>1
      <4>2. Thread(f) = Thread(g) /\ pc[g] # "idle"
        BY <2>1, <4>1, AddsIn DEF BufferOwned
      <4>3. f = Nested(g) /\ g[2] = "base"
        BY <1>3, <2>1, <4>2, Interrupts
      <4>4. n + 1 < Bound
        BY <1>5, <2>1, <4>1, <4>3
      <4> QED  BY <1>1, <1>4, <4>4
    <3>2. CASE ~ m > n
      <4>1. n < Bound
        BY <1>5, <2>1
      <4> QED  BY <1>1, <1>4, <3>2, <4>1
    <3> QED  BY <3>1, <3>2
  <2>2. CASE Adds(g, k) /\ g = f
    <3>1. ~ Append1(f) /\ ~ Prepend(f)
      <4>1. pc'[f] \in {"append", "prepend", "count", "pop"}
        BY <1>7, <2>2 DEF Adds
      <4>2. Prepend(f) => pc'[f] = "giveBack"
        BY DEF Prepend, Goto, TypeOK
      <4>3. Append1(f) => pc'[f] \in {"parse", "idle"}
        BY DEF Append1, Admitted, Goto, TypeOK
      <4> QED  BY <4>1, <4>2, <4>3
    <3>2. ~ m > n /\ n < Bound
      BY <1>4, <1>5, <2>2, <3>1
    <3> QED  BY <1>1, <1>4, <3>2
  <2>3. CASE Stores(f, k)
    BY <1>1, <1>4, <2>3
  <2>4. CASE buf' = buf /\ \E x \in Items : Kind(x) = k /\ Fits(x)
    <3>1. m = n /\ (n = 0 \/ n < MaxSpans)
      BY <2>4 DEF Fits, m, n
    <3> QED  BY <1>1, <1>4, <3>1
  <2>5. CASE PopSnapshot(f) /\ ~ old[f].stale /\ k = "snapshot"
    BY <1>1, <1>4, <1>5, <2>5
  <2> QED  BY <1>7, <2>1, <2>2, <2>3, <2>4, <2>5, AddsAfter
<1>8. ASSUME NEW g \in Frames, g[2] = "base", Adds(g, k)', Adds(Nested(g), k)'
      PROVE  m + 1 < Bound
  <2> DEFINE h == Nested(g)
  <2>1. h \in Frames /\ h[2] = "nested" /\ h # g /\ Thread(h) = Thread(g)
        /\ \A x \in Frames : Thread(x) = Thread(g) => x = g \/ x = h
    BY <1>8, TwoFrames
  <2>2. InBuffer(g)' /\ InBuffer(h)' /\ pc'[h] \in {"append", "prepend", "count", "pop"}
        /\ pc'[g] \in {"append", "prepend", "count", "pop"}
    BY <1>8 DEF Adds, InBuffer
  <2> HIDE DEF h
  <2>3. f # g
    <3>1. f = g => pc[h] = "idle" /\ pc'[h] = pc[h]
      BY <1>3, <1>8, <2>1 DEF Runs, h
    <3> QED  BY <2>2, <3>1
  <2>4. ~ Stores(f, k)
    <3>1. ASSUME Stores(f, k)  PROVE FALSE
      <4>1. InBuffer(f) /\ StoreBy(f)
        BY <3>1, StoreLabels
      <4>2. pc'[f] \in {"states", "hook", "release", "leaveStates", "closeTransport"}
        BY <4>1 DEF StoreBy, TakenBy, TakeSpans, TakeStates, LeaveSpans, LeaveStates, Goto, TypeOK
      <4>3. f # h /\ pc[g] = pc'[g]
        BY <1>3, <2>2, <2>3, <4>2
      <4>4. Thread(g) = Thread(f)
        BY <2>2, <4>1, <4>3 DEF BufferOwned, InBuffer
      <4> QED  BY <2>1, <2>3, <4>3, <4>4
    <3> QED  BY <3>1
  <2>5. Adds(g, k)
    BY <1>8, <2>3, <2>4, AddsAfter
  <2>6. n < Bound
    BY <1>5, <2>5
  <2>7. CASE Adds(h, k)
    <3>1. n + 1 < Bound
      BY <1>5, <1>8, <2>5, <2>7 DEF h
    <3>2. ~ m > n
      <4>1. ASSUME m > n  PROVE FALSE
        <5>1. Adds(f, k) /\ (Append1(f) \/ Prepend(f))
          BY <1>4, <4>1
        <5>2. f = h
          BY <2>1, <2>3, <2>5, <5>1, AddsIn DEF BufferOwned
        <5>3. Prepend(f) => pc'[f] = "giveBack"
          BY DEF Prepend, Goto, TypeOK
        <5>4. Append1(f) => pc'[f] \in {"parse", "idle"}
          BY DEF Append1, Admitted, Goto, TypeOK
        <5> QED  BY <2>2, <5>1, <5>2, <5>3, <5>4
      <4> QED  BY <4>1
    <3> QED  BY <1>1, <1>4, <3>1, <3>2
  <2>8. CASE f = h /\ buf' = buf /\ \E x \in Items : Kind(x) = k /\ Fits(x)
    <3>1. m = n /\ (n = 0 \/ n < MaxSpans)
      BY <2>8 DEF Fits, m, n
    <3>2. Bound = MaxSpans + 1
      <4>1. pc[h] # "idle"
        <5>1. pc[h] = "idle" => pc'[h] \notin {"append", "prepend", "count", "pop"}
          <6>1. ASSUME pc[h] = "idle"  PROVE Start(f)
            BY <2>8, <6>1, Labels DEF Continue
          <6>2. ASSUME Start(f)
                PROVE  \E label \in {"idle", "admit", "snapshot", "submit", "parse", "acquire",
                    "stop"} :
                         pc' = pc \/ pc' = [pc EXCEPT ![f] = label]
            BY <6>2 DEF Start, Capture, CaptureDeferred, Parse, Flush, ShutdownFlush, Periodic,
                Close,
                        Call, Goto
          <6> QED  BY <2>8, <6>1, <6>2 DEF TypeOK
        <5> QED  BY <2>2, <5>1
      <4> QED  BY <1>2, <2>1, <4>1
    <3> QED  BY <1>1, <1>4, <3>1, <3>2
  <2>9. CASE f = h /\ PopSnapshot(f) /\ ~ old[f].stale /\ k = "snapshot"
    BY <1>1, <1>4, <2>6, <2>9
  <2> QED  BY <1>8, <2>1, <2>4, <2>7, <2>8, <2>9, AddsAfter DEF h
<1> QED  BY <1>6, <1>7, <1>8 DEF n, m

-----------------------------------------------------------------------------
(* Nothing is lost in silence, or counted twice.                           *)

\* A signal that has not landed had not landed before.
LEMMA NoSignal ==
  ASSUME TypeOK, NEW f \in Frames, Start(f) \/ Continue(f) \/ Export(f), signals' = 0
  PROVE  signals = 0
<1>1. signals \in Nat
  BY ClientAssumption DEF TypeOK
<1>2. signals' = signals \/ signals' = signals + 1
  BY CallsStep
<1> QED  BY <1>1, <1>2

Hand(f)      == {item[f]} \ {Nothing}
Others(f)    == UNION {Hand(g) \cup InSeqs(batch[g]) : g \in Frames \ {f}}
OtherPops(f) == UNION {Popped(g) : g \in Frames \ {f}}

\* What is kept is kept by f, by the other frames, or by the client.
LEMMA Holdings ==
  ASSUME NEW f \in Frames
  PROVE  /\ Kept = Others(f) \cup Hand(f) \cup jobs \cup InSeqs(buf) \cup InSeqs(batch[f]) \cup ToSet(wire)
         /\ InPop = OtherPops(f) \cup Popped(f)
<1>1. Hands = Hand(f) \cup UNION {Hand(g) : g \in Frames \ {f}}
  <2>1. \A x : x \in Hands <=> x # Nothing /\ \E g \in Frames : x = item[g]
    BY DEF Hands
  <2>2. \A x, g : x \in Hand(g) <=> x # Nothing /\ x = item[g]
    BY DEF Hand
  <2> QED  BY <2>1, <2>2
<1>2. Drained = InSeqs(batch[f]) \cup UNION {InSeqs(batch[g]) : g \in Frames \ {f}}
  BY DEF Drained
<1>3. Others(f) = (UNION {Hand(g) : g \in Frames \ {f}}) \cup UNION {InSeqs(batch[g]) : g \in Frames \ {f}}
  BY DEF Others
<1>4. InPop = OtherPops(f) \cup Popped(f)
  BY DEF InPop, OtherPops
<1> QED  BY <1>1, <1>2, <1>3, <1>4 DEF Kept

\* The same after a step.
LEMMA HoldingsAfter ==
  ASSUME NEW f \in Frames
  PROVE  /\ Kept' = Others(f)' \cup Hand(f)' \cup jobs' \cup InSeqs(buf') \cup InSeqs(batch'[f]) \cup ToSet(wire')
         /\ InPop' = OtherPops(f)' \cup Popped(f)'
<1>0. InSeqs(buf)' = InSeqs(buf') /\ ToSet(wire)' = ToSet(wire') /\ \A g : InSeqs(batch[g])' = InSeqs(batch'[g])
  BY DEF InSeqs, ToSet
<1>1. Hands' = Hand(f)' \cup UNION {Hand(g)' : g \in Frames \ {f}}
  <2>1. \A x : x \in Hands' <=> x # Nothing /\ \E g \in Frames : x = item'[g]
    BY DEF Hands
  <2>2. \A x, g : x \in Hand(g)' <=> x # Nothing /\ x = item'[g]
    BY DEF Hand
  <2> QED  BY <2>1, <2>2
<1>2. Drained' = InSeqs(batch'[f]) \cup UNION {InSeqs(batch'[g]) : g \in Frames \ {f}}
  BY DEF Drained, InSeqs
<1>3. Others(f)' = (UNION {Hand(g)' : g \in Frames \ {f}}) \cup UNION {InSeqs(batch'[g]) : g \in Frames \ {f}}
  BY DEF Others, InSeqs
<1>4. InPop' = OtherPops(f)' \cup Popped(f)'
  BY DEF InPop, OtherPops
<1>5. Kept' = Hands' \cup jobs' \cup InSeqs(buf') \cup Drained' \cup ToSet(wire')
  BY DEF Kept, InSeqs, ToSet
<1> QED  BY <1>1, <1>2, <1>3, <1>4, <1>5

\* No two of them keep the same item.
LEMMA HoldingsApart ==
  ASSUME TypeOK, AllFiled, Apart, resent = {}, NEW f \in Frames
  PROVE  /\ Hand(f) \subseteq Items /\ jobs \subseteq Items /\ InSeqs(buf) \subseteq Items
         /\ InSeqs(batch[f]) \subseteq Items
         /\ Others(f) \cap (Hand(f) \cup jobs \cup InSeqs(buf) \cup InSeqs(batch[f]) \cup ToSet(wire)) = {}
         /\ Hand(f) \cap (jobs \cup InSeqs(buf) \cup InSeqs(batch[f]) \cup ToSet(wire)) = {}
         /\ jobs \cap (InSeqs(buf) \cup InSeqs(batch[f]) \cup ToSet(wire)) = {}
         /\ InSeqs(buf) \cap (InSeqs(batch[f]) \cup ToSet(wire)) = {}
         /\ InSeqs(batch[f]) \cap ToSet(wire) = {}
<1>1. Hand(f) \subseteq Items /\ jobs \subseteq Items
  BY DEF TypeOK, Hand, Items
<1>2. \A b : Filed(b) => InSeqs(b) \subseteq Items
  BY ToSetSeq DEF Filed, InSeqs, Items
<1>3. InSeqs(buf) \subseteq Items /\ InSeqs(batch[f]) \subseteq Items
  BY <1>2 DEF AllFiled
<1>4. /\ Hand(f) \cap (jobs \cup InSeqs(buf) \cup InSeqs(batch[f]) \cup ToSet(wire)) = {}
      /\ jobs \cap (InSeqs(buf) \cup InSeqs(batch[f]) \cup ToSet(wire)) = {}
      /\ InSeqs(buf) \cap (InSeqs(batch[f]) \cup ToSet(wire)) = {}
      /\ InSeqs(batch[f]) \cap ToSet(wire) = {}
  BY DEF Apart, Hand
<1>5. ASSUME NEW g \in Frames \ {f}
      PROVE  (Hand(g) \cup InSeqs(batch[g]))
               \cap (Hand(f) \cup jobs \cup InSeqs(buf) \cup InSeqs(batch[f]) \cup ToSet(wire)) = {}
  BY <1>5 DEF Apart, Hand
<1>6. Others(f) \cap (Hand(f) \cup jobs \cup InSeqs(buf) \cup InSeqs(batch[f]) \cup ToSet(wire)) = {}
  BY <1>5 DEF Others
<1> QED  BY <1>1, <1>3, <1>4, <1>6

\* What other frames have, and are about to count, f does not touch.
LEMMA OthersStep ==
  ASSUME TypeOK, InHand, AllFiled, GivesBack, NestedLive, OldestIsThere, NestedCaptures,
      signals' = 0,
         NEW f \in Frames, Start(f) \/ Continue(f) \/ Export(f)
  PROVE  /\ Others(f)' = Others(f) /\ OtherPops(f)' = OtherPops(f)
         /\ \A g \in Frames : g # f => Popped(g)' = Popped(g)
<1>1. \A g \in Frames : g # f => item'[g] = item[g] /\ batch'[g] = batch[g] /\ pc'[g] = pc[g]
  BY HandStep, BatchOthers, PcMoves
<1>2. \A g \in Frames \ {f} : Hand(g)' = Hand(g) /\ InSeqs(batch'[g]) = InSeqs(batch[g])
  BY <1>1 DEF Hand
<1>3. Others(f)' = UNION {Hand(g)' \cup InSeqs(batch'[g]) : g \in Frames \ {f}}
  BY DEF Others, InSeqs
<1>4. ASSUME NEW g \in Frames, g # f  PROVE Popped(g)' = Popped(g)
  <2>1. CASE old'[g] = old[g]
    BY <1>1, <1>4, <2>1 DEF Popped
  <2>2. CASE StoreBy(f)
    <3>0. PICK k \in Kinds : Stores(f, k)
      BY <2>2, StoreStep
    <3>1. ~ Captures(f)
      BY <3>0, StoreLabels, Labels DEF Captures, Start
    <3>2. Thread(g) = Thread(f) => pc[g] = "idle" /\ pc'[g] = "idle"
      BY <1>1, <1>4, <3>1, Uninterrupted
    <3>3. Thread(g) # Thread(f) => old'[g] = old[g]
      <4>1. Orphan(f, k)
        BY <3>0, StoreStep DEF Store
      <4> QED  BY <4>1 DEF Orphan
    <3> QED  BY <2>1, <3>2, <3>3 DEF Popped
  <2> QED  BY <1>4, <2>1, <2>2, OldStep
<1>5. OtherPops(f)' = UNION {Popped(g)' : g \in Frames \ {f}}
  BY DEF OtherPops
<1> QED  BY <1>2, <1>3, <1>4, <1>5 DEF Others, OtherPops

\* What a step of f may move is with f, or with the client.
Local(f) == Hand(f) \cup jobs \cup InSeqs(buf) \cup InSeqs(batch[f]) \cup ToSet(wire)

\* The same after a step.
LEMMA LocalAfter ==
  ASSUME NEW f \in Frames
  PROVE  /\ Local(f)' = Hand(f)' \cup jobs' \cup InSeqs(buf') \cup InSeqs(batch'[f]) \cup ToSet(wire')
         /\ Hand(f)' = {item'[f]} \ {Nothing}
         /\ Popped(f)' = IF pc'[f] = "count" THEN ToSet(old'[f].items) ELSE {}
  BY DEF Local, Hand, InSeqs, ToSet, Popped

\* A step takes in the new items, counts the lost ones and those popped before, pops, and sets
\* aside what the host's filter left out.
Flows(f, new, lost, popped, counted, aside) ==
  /\ new \cap captured = {} /\ captured' = captured \cup new
  /\ lost \subseteq Local(f) \cup new /\ popped \cup aside \subseteq Local(f)
  /\ lost \cap aside = {} /\ lost \cap popped = {} /\ popped \cap aside = {}
  /\ Local(f)' = (Local(f) \cup new) \ (lost \cup popped \cup aside)
  /\ counted \subseteq Popped(f) /\ Popped(f)' = (Popped(f) \cup popped) \ counted
  /\ filtered' = filtered \cup aside
  /\ \/ lost \cup counted = {} /\ ledger' = ledger
     \/ \E reason \in Reasons : Record(lost \cup counted, reason)

\* A record of items that were not lost before.
LEMMA RecordLost ==
  ASSUME ledger \in [Items -> Seq(Reasons)], NEW lost \in SUBSET Items, lost \cap Lost = {},
         \A i \in Items : Len(ledger[i]) <= 1, NEW reason \in Reasons, Record(lost, reason)
  PROVE  Lost' = Lost \cup lost /\ \A i \in Items : Len(ledger'[i]) <= 1
<1>1. \A i \in lost : ledger[i] = <<>>
  BY DEF Lost
<1>2. \A i \in lost : Len(ledger'[i]) <= 1 /\ ledger'[i] # <<>>
  <2>1. <<>> \in Seq(Reasons)
    OBVIOUS
  <2>2. Len(Append(<<>>, reason)) = Len(<<>>) + 1
    BY <2>1, AppendProperties
  <2>3. Len(Append(<<>>, reason)) <= 1 /\ Append(<<>>, reason) # <<>>
    BY <2>2
  <2>4. \A i \in lost : ledger'[i] = Append(ledger[i], reason)
    BY DEF Record
  <2> QED  BY <1>1, <2>3, <2>4
<1>3. \A i \in Items \ lost : ledger'[i] = ledger[i]
  BY DEF Record
<1>4. \A i \in Items : Len(ledger'[i]) <= 1
  BY <1>2, <1>3
<1>5. \A i \in Items : ledger'[i] # <<>> <=> ledger[i] # <<>> \/ i \in lost
  BY <1>2, <1>3
<1>6. Lost' = {i \in Items : ledger'[i] # <<>>}
  BY DEF Lost
<1>7. Lost' = Lost \cup lost
  BY <1>5, <1>6 DEF Lost
<1> QED  BY <1>4, <1>7

\* A step that only moves items conserves them.
LEMMA FlowsConserve ==
  ASSUME TypeOK, InHand, AllFiled, GivesBack, NestedLive, OldestIsThere, NestedCaptures, Apart,
         signals' = 0, Conserved, Held, resent = {},
         NEW f \in Frames, Start(f) \/ Continue(f) \/ Export(f),
         NEW new \in SUBSET Items, NEW lost \in SUBSET Items, NEW popped \in SUBSET Items,
         NEW counted \in SUBSET Items, NEW aside \in SUBSET Items,
         Flows(f, new, lost, popped, counted, aside)
  PROVE  Conserved'
<1>1. /\ captured = Kept \cup InPop \cup Lost \cup filtered
      /\ Kept \cap InPop = {} /\ Kept \cap Lost = {} /\ Kept \cap filtered = {}
      /\ InPop \cap Lost = {} /\ InPop \cap filtered = {} /\ Lost \cap filtered = {}
      /\ \A g, h \in Frames : g # h => Popped(g) \cap Popped(h) = {}
      /\ \A i \in Items : Len(ledger[i]) <= 1
  BY NoSignal DEF Conserved
<1>2. Kept = Others(f) \cup Local(f) /\ InPop = OtherPops(f) \cup Popped(f)
  BY Holdings DEF Local
<1>3. Kept' = Others(f)' \cup Local(f)' /\ InPop' = OtherPops(f)' \cup Popped(f)'
  BY HoldingsAfter, LocalAfter
<1>4. Others(f) \cap Local(f) = {}
  BY HoldingsApart DEF Local
<1>5. /\ Others(f)' = Others(f) /\ OtherPops(f)' = OtherPops(f)
      /\ \A g \in Frames : g # f => Popped(g)' = Popped(g)
  BY OthersStep
<1>6. OtherPops(f) \cap Popped(f) = {}
  BY <1>1 DEF OtherPops
<1>7. Lost' = Lost \cup lost \cup counted /\ \A i \in Items : Len(ledger'[i]) <= 1
  <2>1. CASE lost \cup counted = {} /\ ledger' = ledger
    <3>1. Lost' = Lost
      BY <2>1 DEF Lost
    <3> QED  BY <1>1, <2>1, <3>1
  <2>2. ASSUME NEW reason \in Reasons, Record(lost \cup counted, reason)
        PROVE  Lost' = Lost \cup lost \cup counted /\ \A i \in Items : Len(ledger'[i]) <= 1
    <3>1. (lost \cup counted) \cap Lost = {}
      BY <1>1, <1>2 DEF Flows, Lost, TypeOK
    <3>2. lost \cup counted \in SUBSET Items /\ ledger \in [Items -> Seq(Reasons)]
      BY DEF TypeOK
    <3>3. Lost' = Lost \cup (lost \cup counted) /\ \A i \in Items : Len(ledger'[i]) <= 1
      BY <1>1, <2>2, <3>1, <3>2, RecordLost
    <3> QED  BY <3>3
  <2> QED  BY <2>1, <2>2 DEF Flows
<1>8. /\ new \cap captured = {} /\ captured' = captured \cup new
      /\ lost \subseteq Local(f) \cup new /\ popped \cup aside \subseteq Local(f)
      /\ lost \cap aside = {} /\ lost \cap popped = {} /\ popped \cap aside = {}
      /\ Local(f)' = (Local(f) \cup new) \ (lost \cup popped \cup aside)
      /\ counted \subseteq Popped(f) /\ Popped(f)' = (Popped(f) \cup popped) \ counted
      /\ filtered' = filtered \cup aside
  BY DEF Flows
<1>9. Kept' = (Kept \cup new) \ (lost \cup popped \cup aside)
  BY <1>1, <1>2, <1>3, <1>4, <1>5, <1>8
<1>10. InPop' = (InPop \cup popped) \ counted
  BY <1>1, <1>2, <1>3, <1>5, <1>6, <1>8
<1>11. /\ captured' = Kept' \cup InPop' \cup Lost' \cup filtered'
       /\ Kept' \cap InPop' = {} /\ Kept' \cap Lost' = {} /\ Kept' \cap filtered' = {}
       /\ InPop' \cap Lost' = {} /\ InPop' \cap filtered' = {} /\ Lost' \cap filtered' = {}
  <2>1. captured' = Kept' \cup InPop' \cup Lost' \cup filtered'
    BY <1>1, <1>2, <1>7, <1>8, <1>9, <1>10
  <2>2. popped \subseteq Kept /\ aside \subseteq Kept /\ lost \subseteq Kept \cup new /\ counted \subseteq InPop
        /\ new \cap (Kept \cup InPop \cup Lost \cup filtered) = {}
    BY <1>1, <1>2, <1>8
  <2> QED  BY <1>1, <1>7, <1>8, <1>9, <1>10, <2>1, <2>2
<1>12. \A g, h \in Frames : g # h => Popped(g)' \cap Popped(h)' = {}
  <2>1. \A g \in Frames : g # f => Popped(g) \subseteq InPop /\ Popped(g) \cap Popped(f) = {}
    BY <1>1 DEF InPop
  <2>2. \A g \in Frames : g # f => Popped(g)' \cap Popped(f)' = {}
    BY <1>1, <1>2, <1>5, <1>8, <2>1
  <2> QED  BY <1>1, <1>5, <2>2
<1> QED  BY <1>7, <1>11, <1>12 DEF Conserved

\* What is with f or with the client was captured.
LEMMA LocalHeld ==
  ASSUME Held, NEW f \in Frames
  PROVE  Local(f) \subseteq captured
  BY DEF Held, Local, Hand

\* A step that moves no item.
LEMMA Still ==
  ASSUME NEW f \in Frames, pc[f] # "count", pc'[f] # "count",
         captured' = captured, item' = item, jobs' = jobs, buf' = buf, batch' = batch, wire' = wire,
         filtered' = filtered, ledger' = ledger
  PROVE  Flows(f, {}, {}, {}, {}, {})
<1>1. Local(f)' = Local(f)
  BY LocalAfter DEF Local, Hand
<1>2. Popped(f)' = Popped(f)
  BY LocalAfter DEF Popped
<1> QED  BY <1>1, <1>2 DEF Flows

\* A step that only loses items f or the client had.
LEMMA Loses ==
  ASSUME NEW f \in Frames, NEW lost \in SUBSET Local(f), pc[f] # "count", pc'[f] # "count",
         captured' = captured, Local(f)' = Local(f) \ lost, filtered' = filtered,
         NEW reason \in Reasons, Record(lost, reason)
  PROVE  Flows(f, {}, lost, {}, {}, {})
<1>1. Popped(f) = {} /\ Popped(f)' = {}
  BY LocalAfter DEF Popped
<1>2. Record(lost \cup {}, reason)
  BY DEF Record
<1> QED  BY <1>1, <1>2 DEF Flows

\* A capture call takes the item in, or counts it.
LEMMA TakesIn ==
  ASSUME TypeOK, HandsFree, Held, NEW f \in Frames, NEW i \in Items, i \notin captured,
         captured' = captured \cup {i}, pc[f] = "idle", pc'[f] # "count",
         jobs' = jobs, buf' = buf, batch' = batch, wire' = wire, filtered' = filtered,
         \/ Record({i}, "after_close") /\ item' = item
         \/ ledger' = ledger /\ item' = [item EXCEPT ![f] = i]
  PROVE  \E lost \in SUBSET Items : Flows(f, {i}, lost, {}, {}, {})
<1>1. Hand(f) = {}
  BY DEF HandsFree, Hand, CarriesSpan, CarriesSnapshot
<1>2. i \notin Local(f)
  BY LocalHeld
<1>3. Popped(f)' = {} /\ Popped(f) = {}
  BY LocalAfter DEF Popped
<1>4. CASE Record({i}, "after_close") /\ item' = item
  <2>1. Local(f)' = Local(f)
    BY <1>4, LocalAfter DEF Local, Hand
  <2>2. Record({i} \cup {}, "after_close") /\ "after_close" \in Reasons
    BY <1>4 DEF Record, Reasons
  <2>3. Flows(f, {i}, {i}, {}, {}, {})
    BY <1>2, <1>3, <2>1, <2>2 DEF Flows
  <2> QED  BY <2>3
<1>5. CASE ledger' = ledger /\ item' = [item EXCEPT ![f] = i]
  <2>1. item'[f] = i /\ i # Nothing
    BY <1>5, ClientAssumption DEF TypeOK
  <2>2. Local(f)' = Local(f) \cup {i}
    BY <1>1, <2>1, LocalAfter DEF Local
  <2>3. Flows(f, {i}, {}, {}, {}, {})
    BY <1>2, <1>3, <1>5, <2>2 DEF Flows
  <2> QED  BY <2>3
<1> QED  BY <1>4, <1>5

\* What a call's first step moves.
LEMMA FlowsAtStart ==
  ASSUME TypeOK, HandsFree, Held, NEW f \in Frames, Start(f)
  PROVE  \E new, lost \in SUBSET Items : Flows(f, new, lost, {}, {}, {})
<1>0. pc[f] = "idle"
  BY Labels
<1>1. ASSUME NEW i \in Items, Capture(f, i)  PROVE \E lost \in SUBSET Items : Flows(f, {i}, lost, {}, {}, {})
  <2>1. pc' = pc \/ pc' = [pc EXCEPT ![f] = "admit"] \/ pc' = [pc EXCEPT ![f] = "snapshot"]
    BY <1>1 DEF Capture, Goto
  <2>2. pc'[f] # "count"
    BY <1>0, <2>1 DEF TypeOK
  <2>3. /\ i \notin captured /\ captured' = captured \cup {i}
        /\ jobs' = jobs /\ buf' = buf /\ batch' = batch /\ wire' = wire /\ filtered' = filtered
        /\ \/ Record({i}, "after_close") /\ item' = item
           \/ ledger' = ledger /\ item' = [item EXCEPT ![f] = i]
    BY <1>1 DEF Capture, drainer, outcomes
  <2> QED  BY <1>0, <2>2, <2>3, TakesIn
<1>2. ASSUME NEW i \in Spans, CaptureDeferred(f, i)
      PROVE  \E lost \in SUBSET Items : Flows(f, {i}, lost, {}, {}, {})
  <2>1. pc' = pc \/ pc' = [pc EXCEPT ![f] = "submit"]
    BY <1>2 DEF CaptureDeferred, Goto
  <2>2. pc'[f] # "count" /\ i \in Items
    BY <1>0, <2>1 DEF TypeOK, Items
  <2>3. /\ i \notin captured /\ captured' = captured \cup {i}
        /\ jobs' = jobs /\ buf' = buf /\ batch' = batch /\ wire' = wire /\ filtered' = filtered
        /\ \/ Record({i}, "after_close") /\ item' = item
           \/ ledger' = ledger /\ item' = [item EXCEPT ![f] = i]
    BY <1>2 DEF CaptureDeferred, drainer, outcomes
  <2> QED  BY <1>0, <2>2, <2>3, TakesIn
<1>3. ASSUME NEW i \in Spans, Parse(f, i)  PROVE Flows(f, {}, {}, {}, {}, {})
  <2>1. /\ i \in jobs /\ jobs' = jobs \ {i} /\ item' = [item EXCEPT ![f] = i] /\ Goto(f, "admit")
        /\ captured' = captured /\ buf' = buf /\ batch' = batch /\ wire' = wire
        /\ filtered' = filtered /\ ledger' = ledger
    BY <1>3 DEF Parse, drainer, outcomes
  <2>2. item'[f] = i /\ i # Nothing /\ pc'[f] = "admit"
    BY <2>1, ClientAssumption DEF TypeOK, Items, Goto
  <2>3. Hand(f) = {}
    BY <1>0 DEF HandsFree, Hand, CarriesSpan, CarriesSnapshot
  <2>4. Local(f)' = Local(f)
    BY <2>1, <2>2, <2>3, LocalAfter DEF Local
  <2>5. Popped(f)' = {} /\ Popped(f) = {}
    BY <1>0, <2>2, LocalAfter DEF Popped
  <2> QED  BY <2>1, <2>4, <2>5 DEF Flows
<1>4. ASSUME Flush(f) \/ ShutdownFlush(f) \/ Periodic(f) \/ Close(f)  PROVE Flows(f, {}, {}, {}, {}, {})
  <2>1. /\ captured' = captured /\ item' = item /\ jobs' = jobs /\ buf' = buf /\ batch' = batch
        /\ wire' = wire /\ filtered' = filtered /\ ledger' = ledger
        /\ \E label \in {"parse", "acquire", "stop"} : Goto(f, label)
    BY <1>4 DEF Flush, ShutdownFlush, Periodic, Close, Call, drainer, outcomes
  <2>2. pc'[f] # "count"
    BY <2>1 DEF Goto, TypeOK
  <2> QED  BY <1>0, <2>1, <2>2, Still
<1> QED
  <2>1. \A i \in Spans : i \in Items
    BY DEF Items
  <2> QED  BY <1>1, <1>2, <1>3, <1>4, <2>1, ZenonT(200) DEF Start

\* What a step of a capture moves.
LEMMA FlowsInCapture ==
  ASSUME TypeOK, InHand, AllFiled, OldestIsThere, Apart, resent = {}, NEW f \in Frames,
         ~ old[f].stale,
         \/ Submit(f) \/ Admit(f) \/ EnterBuffer(f) \/ Room(f) \/ Evict(f) \/ Append1(f)
         \/ EnterSnapshot(f) \/ PopSnapshot(f) \/ CountSnapshot(f)
  PROVE  \E lost, popped, counted \in SUBSET Items : Flows(f, {}, lost, popped, counted, {})
<1>0. Local(f) \subseteq Items
  BY HoldingsApart DEF Local, TypeOK, ToSet
<1>1. ASSUME Submit(f)  PROVE Flows(f, {}, {}, {}, {}, {})
  <2>1. /\ captured' = captured /\ buf' = buf /\ batch' = batch /\ wire' = wire
        /\ filtered' = filtered /\ ledger' = ledger /\ pc[f] = "submit"
    BY <1>1, Labels DEF Submit, drainer, outcomes
  <2>2. pc'[f] # "count"
    BY <1>1 DEF Submit, Goto, TypeOK
  <2>3. item[f] \in Items /\ item[f] # Nothing
    BY <2>1, ClientAssumption DEF InHand, CarriesSpan, Items
  <2>4. Hand(f)' \cup jobs' = Hand(f) \cup jobs
    <3>1. CASE jobs' = jobs \cup {item[f]} /\ item' = [item EXCEPT ![f] = Nothing]
      BY <2>3, <3>1, LocalAfter DEF Hand, TypeOK
    <3>2. CASE jobs' = jobs /\ item' = item
      BY <3>2, LocalAfter DEF Hand
    <3>3. ASSUME NEW j \in jobs, jobs' = (jobs \ {j}) \cup {item[f]}, item' = [item EXCEPT ![f] = j]
          PROVE  Hand(f)' \cup jobs' = Hand(f) \cup jobs
      <4>1. j \in Items /\ j # Nothing /\ item'[f] = j
        BY <3>3, ClientAssumption DEF TypeOK, Items
      <4> QED  BY <2>3, <3>3, <4>1, LocalAfter DEF Hand
    <3> QED  BY <1>1, <3>1, <3>2, <3>3 DEF Submit
  <2>5. Local(f)' = Local(f)
    BY <2>1, <2>4, LocalAfter DEF Local
  <2>6. Popped(f) = {} /\ Popped(f)' = {}
    BY <2>1, <2>2, LocalAfter DEF Popped
  <2> QED  BY <2>1, <2>5, <2>6 DEF Flows
<1>2. ASSUME Admit(f)  PROVE \E lost \in SUBSET Items : Flows(f, {}, lost, {}, {}, {})
  <2>1. /\ captured' = captured /\ jobs' = jobs /\ buf' = buf /\ batch' = batch /\ wire' = wire
        /\ filtered' = filtered /\ pc[f] = "admit"
    BY <1>2, Labels DEF Admit, drainer, outcomes
  <2>2. pc'[f] # "count"
    BY <1>2 DEF Admit, Admitted, Goto, TypeOK
  <2>3. item[f] \in Items /\ item[f] # Nothing
    BY <2>1, ClientAssumption DEF InHand, CarriesSpan, Items
  <2>4. CASE ~ drained
    BY <1>2, <2>1, <2>2, <2>4, Still DEF Admit
  <2>5. CASE drained
    <3>1. Record({item[f]}, "shutdown_tail") /\ "shutdown_tail" \in Reasons /\ item'[f] = Nothing
      BY <1>2, <2>5 DEF Admit, Admitted, TypeOK, Reasons
    <3>2. Hand(f) = {item[f]} /\ Hand(f)' = {}
      BY <2>3, <3>1, LocalAfter DEF Hand
    <3>3. Local(f)' = Local(f) \ {item[f]} /\ item[f] \in Local(f)
      BY <2>1, <3>2, LocalAfter, HoldingsApart DEF Local
    <3>4. Flows(f, {}, {item[f]}, {}, {}, {})
      BY <2>1, <2>2, <3>1, <3>3, Loses
    <3> QED  BY <2>3, <3>4
  <2> QED  BY <2>4, <2>5
<1>3. ASSUME EnterBuffer(f) \/ Room(f) \/ EnterSnapshot(f)  PROVE Flows(f, {}, {}, {}, {}, {})
  <2>1. /\ captured' = captured /\ item' = item /\ jobs' = jobs /\ buf' = buf /\ batch' = batch
        /\ wire' = wire /\ filtered' = filtered /\ ledger' = ledger
        /\ \E label \in {"room", "append", "evict", "pop"} : Goto(f, label)
    BY <1>3 DEF EnterBuffer, Room, EnterSnapshot, drainer, outcomes
  <2>2. pc[f] # "count" /\ pc'[f] # "count"
    BY <1>3, <2>1, Labels DEF Goto, TypeOK
  <2> QED  BY <2>1, <2>2, Still
<1>4. ASSUME Evict(f)  PROVE \E lost \in SUBSET Items : Flows(f, {}, lost, {}, {}, {})
  <2> DEFINE x == Head(buf["span"])
  <2>1. /\ captured' = captured /\ item' = item /\ jobs' = jobs /\ batch' = batch /\ wire' = wire
        /\ filtered' = filtered /\ pc[f] # "count" /\ pc'[f] # "count"
        /\ Record({x}, "queue_overflow") /\ "queue_overflow" \in Reasons
        /\ buf' = [buf EXCEPT !["span"] = Tail(@)]
    BY <1>4, Labels DEF Evict, Goto, TypeOK, drainer, outcomes, Reasons
  <2>2. buf["span"] # <<>> /\ "span" \in Kinds
    BY <1>4, Finds DEF Kinds
  <2>3. x \in InSeqs(buf) /\ InSeqs(buf') = InSeqs(buf) \ {x}
    BY <2>1, <2>2, OldestLeaves
  <2> HIDE DEF x
  <2>4. Local(f)' = Local(f) \ {x} /\ x \in Local(f)
    <3>1. Hand(f)' = Hand(f)
      BY <2>1, LocalAfter DEF Hand
    <3>2. Local(f)' = Hand(f) \cup jobs \cup (InSeqs(buf) \ {x}) \cup InSeqs(batch[f]) \cup ToSet(wire)
      BY <2>1, <2>3, <3>1, LocalAfter
    <3>3. x \notin Hand(f) \cup jobs \cup InSeqs(batch[f]) \cup ToSet(wire)
      BY <2>3, HoldingsApart
    <3>4. Local(f) = Hand(f) \cup jobs \cup InSeqs(buf) \cup InSeqs(batch[f]) \cup ToSet(wire)
      BY DEF Local
    <3> QED  BY <2>3, <3>2, <3>3, <3>4
  <2>5. Flows(f, {}, {x}, {}, {}, {})
    BY <2>1, <2>4, Loses
  <2> QED  BY <1>0, <2>4, <2>5
<1>5. ASSUME Append1(f)  PROVE Flows(f, {}, {}, {}, {}, {})
  <2>1. /\ captured' = captured /\ jobs' = jobs /\ batch' = batch /\ wire' = wire
        /\ filtered' = filtered /\ ledger' = ledger /\ pc[f] = "append"
        /\ buf' = [buf EXCEPT ![Kind(item[f])] = Append(@, item[f])]
    BY <1>5, Labels DEF Append1, drainer, outcomes
  <2>2. pc'[f] # "count" /\ item'[f] = Nothing
    BY <1>5 DEF Append1, Admitted, Goto, TypeOK
  <2>3. item[f] \in Items /\ item[f] # Nothing /\ item[f] \notin InSeqs(buf) /\ Filed(buf)
    BY <2>1, ClientAssumption DEF InHand, Apart, AllFiled, Items
  <2>4. InSeqs(buf') = InSeqs(buf) \cup {item[f]}
    BY <2>1, <2>3, FiledWith
  <2>5. Hand(f) = {item[f]} /\ Hand(f)' = {}
    BY <2>2, <2>3, LocalAfter DEF Hand
  <2>6. Local(f)' = Local(f)
    BY <2>1, <2>4, <2>5, LocalAfter DEF Local
  <2>7. Popped(f) = {} /\ Popped(f)' = {}
    BY <2>1, <2>2, LocalAfter DEF Popped
  <2> QED  BY <2>1, <2>6, <2>7 DEF Flows
<1>6. ASSUME PopSnapshot(f)  PROVE \E popped \in SUBSET Items : Flows(f, {}, {}, popped, {}, {})
  <2> DEFINE x == Head(buf["snapshot"])
  <2>1. /\ captured' = captured /\ item' = item /\ jobs' = jobs /\ batch' = batch /\ wire' = wire
        /\ filtered' = filtered /\ ledger' = ledger /\ pc[f] = "pop"
        /\ buf' = [buf EXCEPT !["snapshot"] = Tail(@)]
    BY <1>6, Labels DEF PopSnapshot, drainer, outcomes
  <2>2. pc'[f] = "count" /\ old'[f].items = <<x>>
    BY <1>6 DEF PopSnapshot, Goto, TypeOK
  <2>3. buf["snapshot"] # <<>> /\ "snapshot" \in Kinds
    BY <1>6, Finds DEF Kinds
  <2>4. x \in InSeqs(buf) /\ InSeqs(buf') = InSeqs(buf) \ {x}
    BY <2>1, <2>3, OldestLeaves
  <2> HIDE DEF x
  <2>5. Local(f)' = Local(f) \ {x} /\ x \in Local(f)
    <3>1. Hand(f)' = Hand(f)
      BY <2>1, LocalAfter DEF Hand
    <3>2. Local(f)' = Hand(f) \cup jobs \cup (InSeqs(buf) \ {x}) \cup InSeqs(batch[f]) \cup ToSet(wire)
      BY <2>1, <2>4, <3>1, LocalAfter
    <3>3. x \notin Hand(f) \cup jobs \cup InSeqs(batch[f]) \cup ToSet(wire)
      BY <2>4, HoldingsApart
    <3>4. Local(f) = Hand(f) \cup jobs \cup InSeqs(buf) \cup InSeqs(batch[f]) \cup ToSet(wire)
      BY DEF Local
    <3> QED  BY <2>4, <3>2, <3>3, <3>4
  <2>6. Popped(f) = {} /\ Popped(f)' = {x}
    <3>1. ToSet(<<x>>) = {x}
      BY DEF ToSet
    <3> QED  BY <2>1, <2>2, <3>1, LocalAfter DEF Popped
  <2>7. Flows(f, {}, {}, {x}, {}, {})
    BY <2>1, <2>5, <2>6 DEF Flows
  <2> QED  BY <1>0, <2>5, <2>7
<1>7. ASSUME CountSnapshot(f)  PROVE \E counted \in SUBSET Items : Flows(f, {}, {}, {}, counted, {})
  <2>1. /\ captured' = captured /\ item' = item /\ jobs' = jobs /\ buf' = buf /\ batch' = batch
        /\ wire' = wire /\ filtered' = filtered /\ pc[f] = "count"
        /\ Record(ToSet(old[f].items), "queue_overflow") /\ "queue_overflow" \in Reasons
    BY <1>7, Labels DEF CountSnapshot, drainer, outcomes, Reasons
  <2>2. pc'[f] = "append"
    BY <1>7 DEF CountSnapshot, Goto, TypeOK
  <2>3. Popped(f) = ToSet(old[f].items) /\ Popped(f)' = {} /\ Popped(f) \subseteq Items
    <3>1. old[f].items \in Seq(Items)
      BY DEF TypeOK
    <3> QED  BY <2>1, <2>2, <3>1, ToSetSeq, LocalAfter DEF Popped
  <2>4. Local(f)' = Local(f)
    BY <2>1, LocalAfter DEF Local, Hand
  <2>5. Record({} \cup Popped(f), "queue_overflow")
    BY <2>1, <2>3 DEF Record
  <2>6. Flows(f, {}, {}, {}, Popped(f), {})
    BY <2>1, <2>3, <2>4, <2>5 DEF Flows
  <2> QED  BY <2>3, <2>6
<1> QED  BY <1>1, <1>2, <1>3, <1>4, <1>5, <1>6, <1>7

\* The items of one kind leave the buffer together.
LEMMA KindLeaves ==
  ASSUME AllFiled, NEW k \in Kinds
  PROVE  /\ InSeqs([buf EXCEPT ![k] = <<>>]) = InSeqs(buf) \ ToSet(buf[k])
         /\ ToSet(buf[k]) \subseteq InSeqs(buf)
<1>1. Filed(buf) /\ buf \in [Kinds -> Seq(Items)] /\ Kinds = {"span", "snapshot"}
  BY DEF AllFiled, Filed, Kinds
<1>2. ToSet(buf["span"]) \cap ToSet(buf["snapshot"]) = {} /\ ToSet(<<>>) = {}
  BY <1>1, FiledApart, OnceEmpty
<1> QED  BY <1>1, <1>2 DEF InSeqs

\* What a drain takes of one kind goes from the buffer to its batch.
LEMMA TakeMoves ==
  ASSUME TypeOK, AllFiled, Empties, HandsFree, Apart, resent = {}, NEW f \in Frames,
         ~ old[f].stale, NEW k \in Kinds, Takes(f, k)
  PROVE  Flows(f, {}, {}, {}, {}, {})
<1>1. /\ captured' = captured /\ item' = item /\ jobs' = jobs /\ wire' = wire
      /\ filtered' = filtered /\ ledger' = ledger
      /\ batch' = [batch EXCEPT ![f][k] = buf[k]] /\ buf' = [buf EXCEPT ![k] = <<>>]
      /\ pc[f] = (IF k = "span" THEN "spans" ELSE "states")
  BY StoreStep DEF Takes, TakeSpans, TakeStates, Take, Store, Taken, outcomes
<1>2. pc[f] # "count" /\ pc'[f] # "count"
  BY <1>1 DEF Takes, TakeSpans, TakeStates, Goto, TypeOK
<1>3. batch[f][k] = <<>> /\ batch \in [Frames -> [Kinds -> Seq(Items)]] /\ Kinds = {"span", "snapshot"}
  BY <1>1 DEF Empties, Empty, HandsFree, Kinds, TypeOK
<1>4. InSeqs(batch'[f]) = InSeqs(batch[f]) \cup ToSet(buf[k])
  <2>1. ToSet(<<>>) = {}
    BY OnceEmpty
  <2> QED  BY <1>1, <1>3, <2>1 DEF InSeqs
<1>5. InSeqs(buf') = InSeqs(buf) \ ToSet(buf[k]) /\ ToSet(buf[k]) \subseteq InSeqs(buf)
  BY <1>1, KindLeaves
<1>6. Local(f)' = Local(f)
  <2>1. Hand(f)' = Hand(f)
    BY <1>1, LocalAfter DEF Hand
  <2> QED  BY <1>1, <1>4, <1>5, <2>1, LocalAfter DEF Local
<1>7. Popped(f) = {} /\ Popped(f)' = {}
  BY <1>2, LocalAfter DEF Popped
<1> QED  BY <1>1, <1>6, <1>7 DEF Flows

\* What _abandon takes of one kind is counted.
LEMMA LeaveLoses ==
  ASSUME TypeOK, AllFiled, Apart, resent = {}, NEW f \in Frames, ~ old[f].stale,
         NEW k \in Kinds, Stores(f, k), ~ Takes(f, k)
  PROVE  Flows(f, {}, ToSet(buf[k]), {}, {}, {}) /\ ToSet(buf[k]) \in SUBSET Items
<1>1. /\ captured' = captured /\ item' = item /\ jobs' = jobs /\ wire' = wire /\ batch' = batch
      /\ filtered' = filtered /\ buf' = [buf EXCEPT ![k] = <<>>]
      /\ Record(ToSet(buf[k]), "shutdown_tail") /\ "shutdown_tail" \in Reasons
  BY StoreStep DEF Takes, Stores, LeaveSpans, LeaveStates, Store, Taken, drainer, outcomes, Reasons,
                   Kinds
<1>2. pc[f] # "count" /\ pc'[f] # "count"
  BY StoreLabels DEF Takes, Stores, LeaveSpans, LeaveStates, Goto, TypeOK
<1>3. InSeqs(buf') = InSeqs(buf) \ ToSet(buf[k]) /\ ToSet(buf[k]) \subseteq InSeqs(buf)
  BY <1>1, KindLeaves
<1>4. /\ InSeqs(buf) \cap (Hand(f) \cup jobs \cup InSeqs(batch[f]) \cup ToSet(wire)) = {}
      /\ InSeqs(buf) \subseteq Items
      /\ Local(f) = Hand(f) \cup jobs \cup InSeqs(buf) \cup InSeqs(batch[f]) \cup ToSet(wire)
  BY HoldingsApart DEF Local
<1>5. Local(f)' = Local(f) \ ToSet(buf[k])
  <2>1. Hand(f)' = Hand(f)
    BY <1>1, LocalAfter DEF Hand
  <2>2. Local(f)' = Hand(f) \cup jobs \cup InSeqs(buf') \cup InSeqs(batch[f]) \cup ToSet(wire)
    BY <1>1, <2>1, LocalAfter
  <2> QED  BY <1>3, <1>4, <2>2
<1>6. ToSet(buf[k]) \subseteq Local(f)
  BY <1>3, <1>4
<1> QED  BY <1>1, <1>2, <1>3, <1>4, <1>5, <1>6, Loses

\* What a step outside a capture moves.
LEMMA FlowsInDrain ==
  ASSUME TypeOK, AllFiled, GivesBack, Empties, HandsFree, PartOfBatch, Apart, resent = {},
         NEW f \in Frames, ~ old[f].stale,
         \/ StopWorkers(f) \/ (\E i \in Spans : ParseJob(f, i)) \/ ParsesDone(f)
         \/ Acquire(f) \/ Decline(f) \/ Swap(f) \/ StoreBy(f) \/ HookReturns(f) \/ HookDrops(f)
         \/ Undelivered(f) \/ GiveBack(f) \/ Prepend(f) \/ GivenBack(f)
         \/ Release(f) \/ Abandon(f) \/ CloseTransport(f) \/ Export(f)
  PROVE  \E lost, aside \in SUBSET Items : Flows(f, {}, lost, {}, {}, aside)
<1> DEFINE b == InSeqs(batch[f])
<1>0. Local(f) \subseteq Items /\ b \subseteq Local(f) /\ Filed(batch[f]) /\ Filed(buf)
      /\ batch \in [Frames -> [Kinds -> Seq(Items)]]
  BY HoldingsApart DEF Local, TypeOK, ToSet, AllFiled
<1>01. /\ b \cap (Hand(f) \cup jobs \cup InSeqs(buf) \cup ToSet(wire)) = {}
       /\ InSeqs(buf) \cap (Hand(f) \cup jobs \cup b \cup ToSet(wire)) = {}
       /\ Local(f) = Hand(f) \cup jobs \cup InSeqs(buf) \cup b \cup ToSet(wire)
  BY HoldingsApart DEF Local
<1>02. InSeqs(Empty) = {}
  BY FiledEmpty
<1>1. ASSUME \/ StopWorkers(f) \/ ParsesDone(f) \/ Acquire(f) \/ Decline(f) \/ HookReturns(f)
             \/ ExportDeclines(f) \/ Release(f) \/ CloseTransport(f) \/ Swap(f) \/ Abandon(f)
      PROVE  Flows(f, {}, {}, {}, {}, {})
  <2>1. /\ captured' = captured /\ item' = item /\ jobs' = jobs /\ buf' = buf /\ batch' = batch
        /\ wire' = wire /\ filtered' = filtered /\ ledger' = ledger
        /\ \E label \in Pcs \ {"count"} : Goto(f, label)
    BY <1>1 DEF StopWorkers, ParsesDone, Acquire, Decline, HookReturns, ExportDeclines, Release,
                CloseTransport, Swap, Abandon, drainer, outcomes, Pcs
  <2>2. pc[f] # "count" /\ pc'[f] # "count"
    BY <1>1, <2>1, Labels DEF Goto, TypeOK, Export
  <2> QED  BY <2>1, <2>2, Still
<1>2. ASSUME NEW i \in Spans, ParseJob(f, i)  PROVE Flows(f, {}, {}, {}, {}, {})
  <2>1. /\ i \in jobs /\ jobs' = jobs \ {i} /\ item' = [item EXCEPT ![f] = i] /\ Goto(f, "admit")
        /\ captured' = captured /\ buf' = buf /\ batch' = batch /\ wire' = wire
        /\ filtered' = filtered /\ ledger' = ledger /\ pc[f] = "parse"
    BY <1>2, Labels DEF ParseJob, drainer, outcomes
  <2>2. item'[f] = i /\ i # Nothing /\ pc'[f] = "admit"
    BY <2>1, ClientAssumption DEF TypeOK, Items, Goto
  <2>3. Hand(f) = {}
    BY <2>1 DEF HandsFree, Hand, CarriesSpan, CarriesSnapshot
  <2>4. Local(f)' = Local(f)
    BY <2>1, <2>2, <2>3, LocalAfter DEF Local
  <2>5. Popped(f)' = {} /\ Popped(f) = {}
    BY <2>1, <2>2, LocalAfter DEF Popped
  <2> QED  BY <2>1, <2>4, <2>5 DEF Flows
<1>3. ASSUME NEW k \in Kinds, Takes(f, k)  PROVE Flows(f, {}, {}, {}, {}, {})
  BY <1>3, TakeMoves
<1>4. ASSUME captured' = captured, item' = item, jobs' = jobs, buf' = buf, Disposed(f)
      PROVE  /\ pc'[f] = "release" /\ Hand(f)' = Hand(f)
             /\ Local(f)' = Hand(f) \cup jobs \cup InSeqs(buf) \cup ToSet(wire')
             /\ wire' = wire => Local(f)' = Local(f) \ b
  <2>1. batch'[f] = Empty /\ pc'[f] = "release"
    BY <1>4 DEF Disposed, Goto, TypeOK
  <2>2. Hand(f)' = Hand(f)
    BY <1>4, LocalAfter DEF Hand
  <2>3. Local(f)' = Hand(f) \cup jobs \cup InSeqs(buf) \cup ToSet(wire')
    BY <1>4, <1>02, <2>1, <2>2, LocalAfter
  <2> QED  BY <1>01, <2>1, <2>2, <2>3
<1>5. ASSUME HookDrops(f) \/ (Undelivered(f) /\ pc' # [pc EXCEPT ![f] = "giveBack"])
      PROVE  Flows(f, {}, b, {}, {}, {})
  <2>1. /\ captured' = captured /\ item' = item /\ jobs' = jobs /\ buf' = buf /\ wire' = wire
        /\ filtered' = filtered /\ pc[f] # "count" /\ Disposed(f)
        /\ \E reason \in Reasons : Record(b, reason)
    BY <1>5, Labels DEF HookDrops, Undelivered, Reasons, outcomes, Goto
  <2>2. Local(f)' = Local(f) \ b /\ pc'[f] # "count"
    BY <1>4, <2>1
  <2> QED  BY <1>0, <2>1, <2>2, Loses
<1>6. ASSUME Undelivered(f), pc' = [pc EXCEPT ![f] = "giveBack"]  PROVE Flows(f, {}, {}, {}, {}, {})
  <2>1. /\ captured' = captured /\ item' = item /\ jobs' = jobs /\ buf' = buf /\ wire' = wire
        /\ filtered' = filtered /\ pc[f] # "count" /\ pc'[f] = "giveBack"
    BY <1>6, Labels DEF Undelivered, outcomes, TypeOK
  <2>2. ~ Disposed(f)
    BY <2>1 DEF Disposed, Goto, TypeOK
  <2>3. batch' = batch /\ ledger' = ledger
    BY <1>6, <2>2 DEF Undelivered
  <2> QED  BY <2>1, <2>3, Still
<1>7. ASSUME ExportDelivers(f) \/ ExportFails(f)
      PROVE  \E lost, aside \in SUBSET Items : Flows(f, {}, lost, {}, {}, aside)
  <2> DEFINE s == InSeqs(sent[f])
  <2>1. /\ captured' = captured /\ item' = item /\ jobs' = jobs /\ buf' = buf
        /\ filtered' = filtered \cup (b \ s) /\ pc[f] = "export" /\ Disposed(f)
    BY <1>7, Labels DEF ExportDelivers, ExportFails, Export
  <2>2. Filed(sent[f]) /\ s \subseteq b
    BY <2>1 DEF PartOfBatch
  <2>3. Popped(f) = {} /\ Popped(f)' = {}
    BY <1>4, <2>1, LocalAfter DEF Popped
  <2>4. CASE ExportFails(f)
    <3>1. Record(s \cup {}, "send_error") /\ "send_error" \in Reasons /\ wire' = wire
      BY <2>4 DEF ExportFails, Record, Reasons
    <3>2. Local(f)' = Local(f) \ (s \cup (b \ s))
      BY <1>4, <2>1, <2>2, <3>1
    <3>3. Flows(f, {}, s, {}, {}, b \ s)
      BY <1>0, <2>1, <2>2, <2>3, <3>1, <3>2 DEF Flows
    <3> QED  BY <1>0, <2>2, <3>3
  <2>5. CASE ExportDelivers(f)
    <3>1. ledger' = ledger /\ wire' = wire \o sent[f]["span"] \o sent[f]["snapshot"]
      BY <2>5 DEF ExportDelivers
    <3>2. ToSet(wire') = ToSet(wire) \cup s
      <4>1. wire \in Seq(Items) /\ sent[f]["span"] \in Seq(Items) /\ sent[f]["snapshot"] \in Seq(Items)
        BY DEF TypeOK, Kinds
      <4> DEFINE u == wire \o sent[f]["span"]
      <4>3. u \in Seq(Items) /\ ToSet(u) = ToSet(wire) \cup ToSet(sent[f]["span"])
        BY <4>1, OnceConcat
      <4>4. wire' = u \o sent[f]["snapshot"]
        BY <3>1
      <4> HIDE DEF u
      <4>5. ToSet(wire') = ToSet(u) \cup ToSet(sent[f]["snapshot"])
        BY <4>1, <4>3, <4>4, OnceConcat
      <4> QED  BY <4>3, <4>5 DEF InSeqs
    <3>3. Local(f)' = Hand(f) \cup jobs \cup InSeqs(buf) \cup ToSet(wire')
      BY <1>4, <2>1
    <3>4. Local(f)' = Local(f) \ (b \ s)
      BY <1>01, <2>2, <3>2, <3>3
    <3>5. Flows(f, {}, {}, {}, {}, b \ s)
      BY <1>0, <2>1, <2>2, <2>3, <3>1, <3>4 DEF Flows
    <3> QED  BY <1>0, <3>5
  <2> QED  BY <1>7, <2>4, <2>5
<1>8. ASSUME GiveBack(f)  PROVE \E lost \in SUBSET Items : Flows(f, {}, lost, {}, {}, {})
  <2> DEFINE x == NextBack(f)
  <2>1. /\ captured' = captured /\ item' = item /\ jobs' = jobs /\ buf' = buf /\ wire' = wire
        /\ filtered' = filtered /\ pc[f] = "giveBack" /\ batch[f] # Empty
        /\ pc' = pc \/ pc' = [pc EXCEPT ![f] = "prepend"]
    BY <1>8, Labels DEF GiveBack, outcomes, Goto
  <2>2. pc'[f] # "count"
    BY <2>1 DEF TypeOK
  <2>3. /\ x \in b /\ x \in Items
        /\ \A g \in Frames : g # f => WithoutNext(f)[g] = batch[g]
        /\ InSeqs(WithoutNext(f)[f]) = b \ {x}
    BY <1>0, <2>1, NextLeaves
  <2>4. CASE Fits(x)
    BY <1>8, <2>1, <2>2, <2>4, Still DEF GiveBack
  <2>5. CASE ~ Fits(x)
    <3>1. Record({x}, "queue_overflow") /\ "queue_overflow" \in Reasons /\ batch' = WithoutNext(f)
      BY <1>8, <2>5 DEF GiveBack, Reasons
    <3>2. Hand(f)' = Hand(f)
      BY <2>1, LocalAfter DEF Hand
    <3> HIDE DEF x
    <3>3. Local(f)' = Hand(f) \cup jobs \cup InSeqs(buf) \cup (b \ {x}) \cup ToSet(wire)
      BY <2>1, <2>3, <3>1, <3>2, LocalAfter
    <3>4. Local(f)' = Local(f) \ {x} /\ x \in Local(f)
      BY <1>01, <2>3, <3>3
    <3>5. Flows(f, {}, {x}, {}, {}, {})
      BY <2>1, <2>2, <3>1, <3>4, Loses
    <3> QED  BY <2>3, <3>5
  <2> QED  BY <2>4, <2>5
<1>9. ASSUME Prepend(f)  PROVE Flows(f, {}, {}, {}, {}, {})
  <2> DEFINE x == NextBack(f)
  <2>1. /\ captured' = captured /\ item' = item /\ jobs' = jobs /\ wire' = wire
        /\ filtered' = filtered /\ ledger' = ledger /\ pc[f] = "prepend" /\ batch[f] # Empty
        /\ pc'[f] = "giveBack" /\ batch' = WithoutNext(f)
        /\ buf' = [buf EXCEPT ![Kind(x)] = <<x>> \o @]
    BY <1>9, Labels DEF Prepend, outcomes, Goto, GivesBack, TypeOK
  <2>2. x \in b /\ x \in Items /\ InSeqs(WithoutNext(f)[f]) = b \ {x}
    BY <1>0, <2>1, NextLeaves
  <2>3. Hand(f)' = Hand(f)
    BY <2>1, LocalAfter DEF Hand
  <2>4. InSeqs(buf') = InSeqs(buf) \cup {x}
    BY <1>0, <1>01, <2>1, <2>2, FiledWith
  <2> HIDE DEF x
  <2>5. Local(f)' = Hand(f) \cup jobs \cup (InSeqs(buf) \cup {x}) \cup (b \ {x}) \cup ToSet(wire)
    BY <2>1, <2>2, <2>3, <2>4, LocalAfter
  <2>6. Local(f)' = Local(f)
    BY <1>01, <2>2, <2>5
  <2>7. Popped(f) = {} /\ Popped(f)' = {}
    BY <2>1, LocalAfter DEF Popped
  <2> QED  BY <2>1, <2>6, <2>7 DEF Flows
<1>10. ASSUME GivenBack(f)  PROVE Flows(f, {}, {}, {}, {}, {})
  <2>1. /\ captured' = captured /\ item' = item /\ jobs' = jobs /\ buf' = buf /\ wire' = wire
        /\ filtered' = filtered /\ ledger' = ledger /\ pc[f] # "count" /\ batch[f] = Empty /\ Disposed(f)
    BY <1>10, Labels DEF GivenBack, outcomes
  <2>2. Local(f)' = Local(f) \ b /\ b = {} /\ pc'[f] = "release"
    BY <1>4, <1>02, <2>1
  <2>3. Popped(f) = {} /\ Popped(f)' = {}
    BY <2>1, <2>2, LocalAfter DEF Popped
  <2> QED  BY <2>1, <2>2, <2>3 DEF Flows
<1>11. ASSUME NEW k \in Kinds, Stores(f, k), ~ Takes(f, k)
       PROVE  \E lost \in SUBSET Items : Flows(f, {}, lost, {}, {}, {})
  BY <1>11, LeaveLoses
<1>12. StoreBy(f) => \E k \in Kinds : Stores(f, k)
  BY StoreStep
<1> QED
  <2>1. {} \in SUBSET Items /\ b \in SUBSET Items
    BY <1>0
  <2> HIDE DEF b
  <2> QED  BY <2>1, <1>1, <1>2, <1>3, <1>5, <1>6, <1>7, <1>8, <1>9, <1>10, <1>11, <1>12
           DEF Export

\* Every step conserves the items, while no signal has landed.
LEMMA ConservedStep ==
  ASSUME TypeOK, InHand, AllFiled, GivesBack, Empties, NestedLive, OldestIsThere, PartOfBatch, Held, Apart,
         NestedCaptures, HandsFree, NothingStale, Conserved,
         NEW f \in Frames, Start(f) \/ Continue(f) \/ Export(f)
  PROVE  Conserved'
<1>1. CASE signals' # 0
  BY <1>1 DEF Conserved
<1>2. CASE signals' = 0
  <2>1. ~ old[f].stale /\ resent = {} /\ {} \in SUBSET Items
    BY <1>2, NoSignal DEF NothingStale
  <2>2. CASE Start(f)
    <3>1. PICK new \in SUBSET Items, lost \in SUBSET Items : Flows(f, new, lost, {}, {}, {})
      BY <2>2, FlowsAtStart
    <3> QED  BY <1>2, <2>1, <3>1, FlowsConserve
  <2>3. CASE \/ Submit(f) \/ Admit(f) \/ EnterBuffer(f) \/ Room(f) \/ Evict(f) \/ Append1(f)
             \/ EnterSnapshot(f) \/ PopSnapshot(f) \/ CountSnapshot(f)
    <3>1. PICK lost \in SUBSET Items, popped \in SUBSET Items, counted \in SUBSET Items :
            Flows(f, {}, lost, popped, counted, {})
      BY <2>1, <2>3, FlowsInCapture
    <3> QED  BY <1>2, <2>1, <3>1, FlowsConserve
  <2>4. CASE \/ StopWorkers(f) \/ (\E i \in Spans : ParseJob(f, i)) \/ ParsesDone(f)
             \/ Acquire(f) \/ Decline(f) \/ Swap(f) \/ StoreBy(f) \/ HookReturns(f)
             \/ HookDrops(f) \/ Undelivered(f) \/ GiveBack(f) \/ Prepend(f) \/ GivenBack(f)
             \/ Release(f) \/ Abandon(f) \/ CloseTransport(f) \/ Export(f)
    <3>1. PICK lost \in SUBSET Items, aside \in SUBSET Items : Flows(f, {}, lost, {}, {}, aside)
      BY <2>1, <2>4, FlowsInDrain
    <3> QED  BY <1>2, <2>1, <3>1, FlowsConserve
  <2> QED  BY <2>2, <2>3, <2>4 DEF Continue, StoreBy, TakenBy
<1> QED  BY <1>1, <1>2

-----------------------------------------------------------------------------
(* The byte budget.                                                        *)

\* A span at either end adds its size to the buffer's.
LEMMA BytesWith ==
  ASSUME NEW s \in Seq(Spans), NEW x \in Spans
  PROVE  /\ Bytes(s) \in Nat /\ Size[x] \in Nat
         /\ Bytes(Append(s, x)) = Bytes(s) + Size[x]
         /\ Bytes(<<x>> \o s) = Bytes(s) + Size[x]
<1>1. Size \in [Spans -> Nat]
  BY ClientAssumption
<1> QED  BY <1>1, WeightWith DEF Bytes

\* The oldest span takes its size with it.
LEMMA BytesTail ==
  ASSUME NEW s \in Seq(Spans), s # <<>>
  PROVE  Bytes(Tail(s)) <= Bytes(s) /\ Bytes(Tail(s)) \in Nat /\ Bytes(s) \in Nat
<1>1. Size \in [Spans -> Nat]
  BY ClientAssumption
<1>2. /\ Weight(Tail(s), Size) \in Nat /\ Weight(s, Size) \in Nat /\ Size[Head(s)] \in Nat
      /\ Weight(s, Size) = Weight(Tail(s), Size) + Size[Head(s)]
  BY <1>1, WeightTail
<1> QED  BY <1>2 DEF Bytes

\* What a step makes of the bytes in the buffer.
LEMMA BytesAfter ==
  ASSUME TypeOK, InHand, AllFiled, GivesBack, OldestIsThere,
         NEW f \in Frames, Start(f) \/ Continue(f) \/ Export(f)
  PROVE  LET b == buf["span"]
             c == buf'["span"]
         IN  /\ Bytes(b) \in Nat /\ Bytes(c) \in Nat /\ Len(b) \in Nat /\ Len(c) \in Nat
             /\ Stores(f, "span") => c = <<>>
             /\ \/ c = b
                \/ c = <<>>
                \/ Evict(f) /\ Bytes(c) <= Bytes(b) /\ Len(c) < Len(b)
                \/ /\ Adds(f, "span") /\ (Append1(f) \/ Prepend(f)) /\ Adding(f) \in Spans
                   /\ Len(c) = Len(b) + 1 /\ Bytes(c) = Bytes(b) + Size[Adding(f)]
<1> DEFINE b == buf["span"]
           c == buf'["span"]
<1>1. /\ buf \in [Kinds -> Seq(Items)] /\ b \in Seq(Spans) /\ "span" \in Kinds /\ "snapshot" \in Kinds
      /\ "span" # "snapshot"
  BY DEF TypeOK, AllFiled, Filed, Kinds
<1>2. <<>> \in Seq(Spans) /\ Bytes(<<>>) \in Nat /\ Len(<<>>) = 0
  <2>1. <<>> \in Seq(Spans) /\ Len(<<>>) = 0
    OBVIOUS
  <2> QED  BY <2>1, WeightEmpty DEF Bytes
<1>3. Bytes(b) \in Nat /\ Len(b) \in Nat
  <2>1. CASE b = <<>>
    BY <1>2, <2>1
  <2>2. CASE b # <<>>
    BY <1>1, <2>2, BytesTail, LenProperties
  <2> QED  BY <2>1, <2>2
<1>4. ASSUME NEW x \in Spans, c = Append(b, x) \/ c = <<x>> \o b
      PROVE  Bytes(c) \in Nat /\ Len(c) \in Nat /\ Len(c) = Len(b) + 1 /\ Bytes(c) = Bytes(b) + Size[x]
  <2>1. Bytes(b) \in Nat /\ Size[x] \in Nat /\ Bytes(c) = Bytes(b) + Size[x]
    BY <1>1, <1>4, BytesWith
  <2>2. Len(c) = Len(b) + 1
    <3>1. c = Append(b, x) => Len(c) = Len(b) + 1
      BY <1>1, AppendProperties
    <3>2. c = <<x>> \o b => Len(c) = 1 + Len(b)
      <4>1. <<x>> \in Seq(Spans) /\ Len(<<x>>) = 1
        OBVIOUS
      <4> QED  BY <1>1, <4>1, ConcatProperties
    <3> QED  BY <1>3, <1>4, <3>1, <3>2
  <2> QED  BY <1>3, <2>1, <2>2
<1> HIDE DEF b, c
<1>5. Stores(f, "span") => c = <<>>
  BY <1>1, StoreStep DEF c, Store
<1>6. CASE buf' = buf
  BY <1>3, <1>6, <1>5 DEF b, c
<1>7. CASE Stores(f, "span")
  BY <1>2, <1>3, <1>5, <1>7 DEF b, c
<1>8. CASE Evict(f) /\ buf' # buf
  <2>1. ~ old[f].stale /\ buf' = [buf EXCEPT !["span"] = Tail(@)] /\ ~ Stores(f, "span")
    BY <1>1, <1>8, Labels, StoreLabels DEF Evict
  <2>2. b # <<>> /\ c = Tail(b)
    BY <1>1, <1>8, <2>1, Finds DEF b, c
  <2>3. Bytes(c) <= Bytes(b) /\ Bytes(c) \in Nat
    BY <1>1, <2>2, BytesTail
  <2>4. Len(c) < Len(b) /\ Len(c) \in Nat
    BY <1>1, <1>3, <2>2
  <2> QED  BY <1>3, <1>8, <2>1, <2>3, <2>4 DEF b, c
<1>9. CASE PopSnapshot(f) /\ buf' # buf
  <2>1. buf' = [buf EXCEPT !["snapshot"] = Tail(@)]
    BY <1>9 DEF PopSnapshot
  <2>2. c = b
    BY <1>1, <2>1 DEF b, c
  <2> QED  BY <1>3, <1>5, <2>2 DEF b, c
<1>10. ASSUME NEW x \in Items, Append1(f) \/ Prepend(f), Adding(f) = x, Adds(f, Kind(x)),
              \/ buf' = [buf EXCEPT ![Kind(x)] = Append(@, x)]
              \/ buf' = [buf EXCEPT ![Kind(x)] = <<x>> \o @]
       PROVE  /\ Bytes(c) \in Nat /\ Len(c) \in Nat
              /\ \/ c = b
                 \/ /\ Adds(f, "span") /\ Adding(f) \in Spans
                    /\ Len(c) = Len(b) + 1 /\ Bytes(c) = Bytes(b) + Size[Adding(f)]
  <2>1. CASE Kind(x) = "span"
    <3>1. x \in Spans
      BY <2>1 DEF Kind
    <3>2. c = Append(b, x) \/ c = <<x>> \o b
      BY <1>1, <1>10, <2>1 DEF b, c
    <3> QED  BY <1>4, <1>10, <2>1, <3>1, <3>2 DEF b, c
  <2>2. CASE Kind(x) # "span"
    <3>1. c = b
      BY <1>1, <1>10, <2>2 DEF b, c
    <3> QED  BY <1>3, <3>1
  <2> QED  BY <2>1, <2>2
<1>11. CASE Append1(f) /\ buf' # buf
  <2>1. ~ old[f].stale /\ pc[f] = "append" /\ ~ Stores(f, "span")
        /\ buf' = [buf EXCEPT ![Kind(item[f])] = Append(@, item[f])]
    BY <1>1, <1>11, Labels, StoreLabels DEF Append1
  <2>2. item[f] \in Items /\ Adding(f) = item[f] /\ Adds(f, Kind(item[f]))
    BY <2>1 DEF InHand, Adding, Adds
  <2>3. /\ Bytes(c) \in Nat /\ Len(c) \in Nat
        /\ \/ c = b
           \/ /\ Adds(f, "span") /\ Adding(f) \in Spans
              /\ Len(c) = Len(b) + 1 /\ Bytes(c) = Bytes(b) + Size[Adding(f)]
    BY <1>10, <1>11, <2>1, <2>2
  <2> QED  BY <1>3, <1>11, <2>1, <2>3 DEF b, c
<1>12. CASE Prepend(f) /\ buf' # buf
  <2>1. ~ old[f].stale /\ pc[f] = "prepend" /\ ~ Stores(f, "span")
        /\ buf' = [buf EXCEPT ![Kind(NextBack(f))] = <<NextBack(f)>> \o @]
    BY <1>1, <1>12, Labels, StoreLabels DEF Prepend
  <2>2. NextBack(f) \in Items /\ Adding(f) = NextBack(f) /\ Adds(f, Kind(NextBack(f)))
    <3>1. NextBack(f) \in Items
      BY <2>1, NextLeaves DEF GivesBack, TypeOK
    <3> QED  BY <2>1, <3>1 DEF Adding, Adds
  <2>3. /\ Bytes(c) \in Nat /\ Len(c) \in Nat
        /\ \/ c = b
           \/ /\ Adds(f, "span") /\ Adding(f) \in Spans
              /\ Len(c) = Len(b) + 1 /\ Bytes(c) = Bytes(b) + Size[Adding(f)]
    BY <1>10, <1>12, <2>1, <2>2
  <2> QED  BY <1>3, <1>12, <2>1, <2>3 DEF b, c
<1>13. CASE StoreBy(f) /\ ~ Stores(f, "span")
  <2>1. PICK j \in Kinds : Stores(f, j)
    BY <1>13, StoreStep
  <2>2. j # "span" /\ buf' = [buf EXCEPT ![j] = <<>>]
    BY <1>13, <2>1, StoreStep DEF Store
  <2>3. c = b
    BY <1>1, <2>2 DEF b, c
  <2> QED  BY <1>3, <1>13, <2>3 DEF b, c
<1>14. buf' = buf \/ BufBy(f)
  BY WhatChanges
<1> QED  BY <1>6, <1>7, <1>8, <1>9, <1>11, <1>12, <1>13, <1>14 DEF BufBy

\* Where nothing runs nested, one frame at most holds the buffer.
LEMMA BytesStep ==
  ASSUME TypeOK, InHand, AllFiled, GivesBack, OldestIsThere, NestedLive, BufferOwned,
         NestedCaptures, BytesLeft, NEW f \in Frames, Start(f) \/ Continue(f) \/ Export(f)
  PROVE  BytesLeft'
<1>1. Nests' = Nests
  <2>1. host' = host
    BY PcMoves
  <2> QED  BY <2>1 DEF Nests
<1>2. CASE Nests
  BY <1>1, <1>2 DEF BytesLeft
<1>3. CASE ~ Nests
  <2> DEFINE b == buf["span"]
             c == buf'["span"]
  <2>1. /\ Bytes(b) \in Nat /\ Bytes(c) \in Nat /\ Len(b) \in Nat /\ Len(c) \in Nat
        /\ Stores(f, "span") => c = <<>>
        /\ \/ c = b
           \/ c = <<>>
           \/ Evict(f) /\ Bytes(c) <= Bytes(b) /\ Len(c) < Len(b)
           \/ /\ Adds(f, "span") /\ (Append1(f) \/ Prepend(f)) /\ Adding(f) \in Spans
              /\ Len(c) = Len(b) + 1 /\ Bytes(c) = Bytes(b) + Size[Adding(f)]
    BY BytesAfter
  <2>2. /\ Len(b) > 1 => Bytes(b) <= MaxBytes
        /\ \A g \in Frames : Adds(g, "span") => b = <<>> \/ Bytes(b) + Size[Adding(g)] <= MaxBytes
    BY <1>3 DEF BytesLeft
  <2> HIDE DEF b, c
  <2>3. ASSUME NEW g \in Frames, g # f, InBuffer(g), InBuffer(f)  PROVE FALSE
    <3>1. Thread(f) = Thread(g) /\ pc[g] # "idle" /\ pc[f] # "idle" /\ Runs(f)
      BY <2>3, PcMoves DEF BufferOwned, InBuffer
    <3>2. f[2] = "nested"
      BY <2>3, <3>1, Interrupts
    <3> QED  BY <1>3, <3>1, <3>2 DEF NestedCaptures, Nests
  <2>4. Len(c) > 1 => Bytes(c) <= MaxBytes
    <3>1. MaxBytes \in Nat /\ Len(<<>>) = 0
      BY ClientAssumption
    <3>2. b = <<>> => Len(b) = 0
      OBVIOUS
    <3>3. CASE c = b \/ c = <<>>
      BY <2>1, <2>2, <3>1, <3>3
    <3>4. CASE Bytes(c) <= Bytes(b) /\ Len(c) < Len(b)
      BY <2>1, <2>2, <3>1, <3>4
    <3>5. CASE Adds(f, "span") /\ Len(c) = Len(b) + 1 /\ Bytes(c) = Bytes(b) + Size[Adding(f)]
      <4>1. b = <<>> \/ Bytes(c) <= MaxBytes
        BY <2>2, <3>5
      <4> QED  BY <3>2, <3>5, <4>1
    <3> QED  BY <2>1, <3>3, <3>4, <3>5
  <2>5. ASSUME NEW g \in Frames, Adds(g, "span")'
        PROVE  c = <<>> \/ Bytes(c) + Size[Adding(g)'] <= MaxBytes
    <3>1. CASE Stores(f, "span")
      BY <2>1, <3>1
    <3>2. CASE Adds(g, "span") /\ g = f
      <4>1. pc[f] \in {"append", "prepend"} /\ pc'[f] \in {"append", "prepend"}
        BY <2>5, <3>2 DEF Adds
      <4>2. Append1(f) \/ Prepend(f)
        <5>1. pc[f] = "append" => Append1(f)
          BY WhereFrom
        <5>2. pc[f] = "prepend" => Prepend(f)
          BY WhereFrom
        <5> QED  BY <4>1, <5>1, <5>2
      <4>3. Prepend(f) => pc'[f] = "giveBack"
        BY DEF Prepend, Goto, TypeOK
      <4>4. Append1(f) => pc'[f] \in {"parse", "idle"}
        BY DEF Append1, Admitted, Goto, TypeOK
      <4> QED  BY <4>1, <4>2, <4>3, <4>4
    <3>3. CASE Adds(g, "span") /\ g # f
      <4>1. InBuffer(g) /\ pc'[g] = pc[g] /\ item'[g] = item[g] /\ batch'[g] = batch[g]
        BY <3>3, AddsIn, PcMoves, HandStep, BatchOthers
      <4>2. Adding(g)' = Adding(g)
        BY <4>1 DEF Adding, NextBack
      <4>3. ~ InBuffer(f)
        BY <2>3, <3>3, <4>1
      <4>4. ~ Evict(f) /\ ~ Append1(f) /\ ~ Prepend(f)
        BY <4>3, Labels DEF InBuffer
      <4>5. c = b \/ c = <<>>
        BY <2>1, <4>4
      <4> QED  BY <2>2, <3>3, <4>2, <4>5
    <3>4. CASE g = f /\ buf' = buf /\ \E x \in Items : Kind(x) = "span" /\ Fits(x) /\ Adding(f)' = x
      <4>1. PICK x \in Items : Kind(x) = "span" /\ Fits(x) /\ Adding(f)' = x
        BY <3>4
      <4>2. x \in Spans
        BY <4>1 DEF Kind
      <4>3. b = <<>> \/ Bytes(b) + Size[x] <= MaxBytes
        BY <4>1, <4>2 DEF Fits, b
      <4>4. c = b
        BY <3>4 DEF b, c
      <4> QED  BY <3>4, <4>1, <4>3, <4>4
    <3>5. "span" \in Kinds /\ "span" # "snapshot"
      BY DEF Kinds
    <3> QED  BY <2>5, <3>1, <3>2, <3>3, <3>4, <3>5, AddsAfter
  <2>6. Bytes(buf["span"])' = Bytes(c) /\ Size' = Size
    BY DEF Bytes, Weight, Total, Cells, c
  <2> QED  BY <1>1, <1>3, <2>4, <2>5, <2>6 DEF BytesLeft, c
<1> QED  BY <1>2, <1>3

-----------------------------------------------------------------------------
(* The invariant holds, and says that every item is in one place.          *)

\* A client that was just made holds nothing.
LEMMA InitDInv == ASSUME ClientAssumption, Init  PROVE DInv
<1>1. /\ pc = [f \in Frames |-> "idle"] /\ op = [f \in Frames |-> Nothing]
      /\ item = [f \in Frames |-> Nothing] /\ old = [f \in Frames |-> Live]
      /\ batch = [f \in Frames |-> Empty] /\ jobs = {} /\ buf = Empty /\ wire = <<>>
      /\ captured = {} /\ filtered = {} /\ orphaned = {} /\ resent = {} /\ closed = FALSE
      /\ ledger = [i \in Items |-> <<>>]
  BY DEF Init
<1>2. InSeqs(Empty) = {} /\ ToSet(<<>>) = {}
  BY FiledEmpty, OnceEmpty
<1>3. NestedCaptures /\ HandsFree
  BY <1>1 DEF NestedCaptures, CapturePcs, HandsFree, Ops, Nothing
<1>4. NothingStale /\ OneDrain /\ SentPart /\ FinalWaits
  BY <1>1 DEF NothingStale, Live, OneDrain, InExport, SentPart, FinalWaits, Nothing
<1>5. Conserved
  <2>1. Kept = {}
    <3>1. Hands = {} /\ Drained = {}
      BY <1>1, <1>2 DEF Hands, Drained
    <3> QED  BY <1>1, <1>2, <3>1 DEF Kept
  <2>2. InPop = {} /\ \A f \in Frames : Popped(f) = {}
    BY <1>1 DEF InPop, Popped
  <2>3. Lost = {} /\ \A i \in Items : Len(ledger[i]) <= 1
    BY <1>1 DEF Lost
  <2> QED  BY <1>1, <2>1, <2>2, <2>3 DEF Conserved
<1>6. Bound \in Nat \ {0} /\ \A k \in Kinds : buf[k] = <<>> /\ Len(buf[k]) = 0
  <2>1. Bit(Nests) \in {0, 1} /\ MaxSpans \in Nat \ {0}
    BY DEF ClientAssumption, Bit
  <2>2. \A k \in Kinds : buf[k] = <<>>
    BY <1>1 DEF Empty
  <2>3. Len(<<>>) = 0
    OBVIOUS
  <2> QED  BY <2>1, <2>2, <2>3 DEF Bound
<1>7. \A f \in Frames, k \in Kinds : ~ Adds(f, k)
  BY <1>1 DEF Adds
<1>8. RoomLeft
  BY <1>6, <1>7 DEF RoomLeft
<1>9. BytesLeft
  <2>1. "span" \in Kinds
    BY DEF Kinds
  <2> QED  BY <1>6, <1>7, <2>1 DEF BytesLeft
<1> QED  BY <1>3, <1>4, <1>5, <1>8, <1>9 DEF DInv

\* Every action of every frame keeps it.
LEMMA NextDInv == ASSUME IInv, DInv, [Next]_vars  PROVE DInv'
<1>1. CASE Next
  <2>1. PICK f \in Frames : Start(f) \/ Continue(f) \/ Export(f)
    BY <1>1 DEF Next
  <2>2. /\ TypeOK /\ InHand /\ AllFiled /\ BufferOwned /\ NestedLive /\ OldestIsThere
        /\ GivesBack /\ Empties /\ Cuts /\ Held /\ PartOfBatch /\ Apart
    BY DEF IInv
  <2>3. /\ NestedCaptures /\ HandsFree /\ NothingStale /\ Conserved
        /\ RoomLeft /\ BytesLeft /\ FinalWaits /\ OneDrain /\ SentPart
    BY DEF DInv
  <2>4. NestedCaptures' /\ HandsFree' /\ NothingStale'
    BY <2>1, <2>2, <2>3, NestedStep, HandsStep, StaleStep
  <2>5. Conserved'
    BY <2>1, <2>2, <2>3, ConservedStep
  <2>6. RoomLeft' /\ BytesLeft'
    BY <2>1, <2>2, <2>3, RoomStep, BytesStep
  <2>7. FinalWaits' /\ OneDrain' /\ SentPart'
    BY <2>1, <2>2, <2>3, FinalStep, SlotStep, PartStep
  <2> QED  BY <2>4, <2>5, <2>6, <2>7 DEF DInv
<1>2. CASE UNCHANGED vars
  <2>1. /\ buf' = buf /\ jobs' = jobs /\ pc' = pc /\ item' = item /\ old' = old /\ batch' = batch
        /\ sent' = sent /\ captured' = captured /\ wire' = wire /\ filtered' = filtered
        /\ ledger' = ledger /\ op' = op /\ closed' = closed /\ signals' = signals
        /\ host' = host /\ orphaned' = orphaned /\ resent' = resent
    BY <1>2 DEF vars
  <2>2. NestedCaptures' /\ HandsFree' /\ NothingStale'
    BY <2>1 DEF DInv, NestedCaptures, HandsFree, NothingStale
  <2>3. FinalWaits' /\ OneDrain' /\ SentPart'
    BY <2>1 DEF DInv, FinalWaits, Closing, OneDrain, InExport, SentPart
  <2>4. Conserved'
    <3>1. /\ Kept' = Kept /\ InPop' = InPop /\ Lost' = Lost /\ \A f \in Frames : Popped(f)' = Popped(f)
      BY <2>1 DEF Kept, Hands, Drained, InPop, Popped, Lost, InSeqs, ToSet
    <3> QED  BY <2>1, <3>1 DEF DInv, Conserved
  <2>5. RoomLeft' /\ BytesLeft'
    <3>1. /\ Bound' = Bound /\ (Nests' <=> Nests)
          /\ \A f \in Frames : Adding(f)' = Adding(f) /\ \A k \in Kinds : Adds(f, k)' <=> Adds(f, k)
      BY <2>1 DEF Bound, Nests, Adding, Adds, NextBack
    <3>2. \A f \in Frames : f[2] = "base" => Nested(f) \in Frames
      BY DEF Frames, Levels, Nested
    <3>3. RoomLeft'
      BY <2>1, <3>1, <3>2 DEF DInv, RoomLeft
    <3>4. BytesLeft'
      <4>1. "span" \in Kinds
        BY DEF Kinds
      <4> QED  BY <2>1, <3>1, <4>1 DEF DInv, BytesLeft
    <3> QED  BY <3>3, <3>4
  <2> QED  BY <2>2, <2>3, <2>4, <2>5 DEF DInv
<1> QED  BY <1>1, <1>2

\* Every reachable state satisfies both invariants.
LEMMA SpecDInv == Spec => [](IInv /\ DInv)
<1>1. Init => IInv /\ DInv
  BY InitIInv, InitDInv, ClientAssumption
<1>2. (IInv /\ DInv) /\ [Next]_vars => (IInv /\ DInv)'
  BY NextIInv, NextDInv
<1> QED  BY <1>1, <1>2, PTL DEF Spec

\* An item is filed under its kind.
LEMMA FiledUnder ==
  ASSUME NEW b, Filed(b), NEW i \in Items
  PROVE  /\ Once(b[Kind(i)])
         /\ i \in ToSet(b[Kind(i)]) <=> i \in InSeqs(b)
<1>1. Kind(i) \in Kinds /\ Kinds = {"span", "snapshot"}
  BY DEF Kind, Kinds
<1>2. \A k \in Kinds : i \in ToSet(b[k]) => Kind(i) = k
  BY FiledApart
<1> QED  BY <1>1, <1>2 DEF Filed, InSeqs

\* What the invariant says of the places an item may be in.
LEMMA EachInOnePlace == ASSUME IInv, DInv  PROVE OnePlace
<1> SUFFICES ASSUME signals = 0, NEW i \in Items  PROVE Places(i) = Bit(i \in captured)
  BY DEF OnePlace
<1>1. TypeOK /\ AllFiled /\ Apart /\ resent = {} /\ Once(wire)
  BY DEF IInv, DInv, NothingStale, OnceBut, Once
<1>2. /\ captured = Kept \cup InPop \cup Lost \cup filtered
      /\ Kept \cap InPop = {} /\ Kept \cap Lost = {} /\ Kept \cap filtered = {}
      /\ InPop \cap Lost = {} /\ InPop \cap filtered = {} /\ Lost \cap filtered = {}
      /\ \A f, g \in Frames : f # g => Popped(f) \cap Popped(g) = {}
      /\ \A j \in Items : Len(ledger[j]) <= 1
      /\ orphaned = {}
  BY DEF DInv, Conserved, NothingStale
<1>3. Cardinality({f \in Frames : item[f] = i}) = Bit(i \in Hands)
  <2> DEFINE H == {f \in Frames : item[f] = i}
  <2>1. i # Nothing
    BY ClientAssumption
  <2>2. \A f, g \in H : f = g
    BY <1>1, <2>1 DEF Apart
  <2>3. H # {} <=> i \in Hands
    BY <2>1 DEF Hands
  <2> HIDE DEF H
  <2>4. Cardinality(H) = Bit(i \in Hands)
    BY <2>2, <2>3, AtMostOne DEF Bit
  <2> QED  BY <2>4 DEF H
<1>4. Cardinality({f \in Frames : pc[f] = "count" /\ i \in ToSet(old[f].items)}) = Bit(i \in InPop)
  <2> DEFINE H == {f \in Frames : pc[f] = "count" /\ i \in ToSet(old[f].items)}
  <2>1. \A f \in Frames : f \in H <=> i \in Popped(f)
    BY DEF Popped
  <2>2. H \subseteq Frames
    OBVIOUS
  <2> HIDE DEF H
  <2>3. \A f, g \in H : f = g
    BY <1>2, <2>1, <2>2
  <2>4. H # {} <=> i \in InPop
    BY <2>1, <2>2 DEF InPop
  <2>5. Cardinality(H) = Bit(i \in InPop)
    BY <2>3, <2>4, AtMostOne DEF Bit
  <2> QED  BY <2>5 DEF H
<1>5. Occurs(i, buf[Kind(i)]) = Bit(i \in InSeqs(buf))
  <2>1. Once(buf[Kind(i)]) /\ (i \in ToSet(buf[Kind(i)]) <=> i \in InSeqs(buf))
    BY <1>1, FiledUnder DEF AllFiled
  <2>2. Occurs(i, buf[Kind(i)]) = Bit(i \in ToSet(buf[Kind(i)]))
    BY <2>1, OccursBit
  <2> QED  BY <2>1, <2>2 DEF Bit
<1>6. Total([f \in Frames |-> Occurs(i, batch[f][Kind(i)])]) = Bit(i \in Drained)
  <2> DEFINE n == [f \in Frames |-> Occurs(i, batch[f][Kind(i)])]
  <2>1. \A f \in Frames : n[f] = Bit(i \in InSeqs(batch[f]))
    <3> SUFFICES ASSUME NEW f \in Frames  PROVE Occurs(i, batch[f][Kind(i)]) = Bit(i \in InSeqs(batch[f]))
      OBVIOUS
    <3>1. /\ Once(batch[f][Kind(i)])
          /\ i \in ToSet(batch[f][Kind(i)]) <=> i \in InSeqs(batch[f])
      BY <1>1, FiledUnder DEF AllFiled
    <3>2. Occurs(i, batch[f][Kind(i)]) = Bit(i \in ToSet(batch[f][Kind(i)]))
      BY <3>1, OccursBit
    <3> QED  BY <3>1, <3>2 DEF Bit
  <2>2. DOMAIN n = Frames /\ n = [f \in Frames |-> n[f]]
    OBVIOUS
  <2> HIDE DEF n
  <2>3. n \in [Frames -> Nat] /\ \A f \in Frames : n[f] \in {0, 1} /\ (n[f] = 1 <=> i \in InSeqs(batch[f]))
    BY <2>1, <2>2 DEF Bit
  <2>4. \A f, g \in Frames : f # g => InSeqs(batch[f]) \cap InSeqs(batch[g]) = {}
    BY <1>1 DEF Apart
  <2>5. \A f, g \in Frames : n[f] = 1 /\ n[g] = 1 => f = g
    BY <2>3, <2>4
  <2>6. Total(n) = Bit(\E f \in Frames : n[f] = 1)
    BY <2>3, <2>5, TotalBit
  <2>7. (\E f \in Frames : n[f] = 1) <=> i \in Drained
    BY <2>3 DEF Drained
  <2>8. Total(n) = Bit(i \in Drained)
    BY <2>6, <2>7 DEF Bit
  <2> QED  BY <2>8 DEF n
<1>7. Occurs(i, wire) = Bit(i \in ToSet(wire))
  BY <1>1, OccursBit
<1>8. Len(ledger[i]) = Bit(i \in Lost)
  <2>1. ledger[i] \in Seq(Reasons) /\ Len(ledger[i]) \in Nat
    BY <1>1, LenProperties DEF TypeOK
  <2>2. Len(ledger[i]) = 0 <=> ledger[i] = <<>>
    BY <2>1, EmptySeq
  <2>3. i \in Lost <=> ledger[i] # <<>>
    BY DEF Lost
  <2> QED  BY <1>2, <2>1, <2>2, <2>3 DEF Bit
<1>9. /\ i \in Hands => i \notin jobs /\ i \notin InSeqs(buf) /\ i \notin Drained /\ i \notin ToSet(wire)
      /\ i \in jobs => i \notin InSeqs(buf) /\ i \notin Drained /\ i \notin ToSet(wire)
      /\ i \in InSeqs(buf) => i \notin Drained /\ i \notin ToSet(wire)
      /\ i \in Drained => i \notin ToSet(wire)
  <2>1. i \in Hands => \E f \in Frames : i = item[f]
    BY DEF Hands
  <2>2. i \in Drained => \E f \in Frames : i \in InSeqs(batch[f])
    BY DEF Drained
  <2> QED  BY <1>1, <2>1, <2>2 DEF Apart
<1>10. /\ i \in captured <=> i \in Kept \/ i \in InPop \/ i \in Lost \/ i \in filtered
       /\ i \in Kept => i \notin InPop /\ i \notin Lost /\ i \notin filtered
       /\ i \in InPop => i \notin Lost /\ i \notin filtered
       /\ i \in Lost => i \notin filtered
       /\ i \notin orphaned
  BY <1>2
<1>11. i \in Kept <=> i \in Hands \/ i \in jobs \/ i \in InSeqs(buf) \/ i \in Drained \/ i \in ToSet(wire)
  BY DEF Kept
<1>12. Places(i) = Bit(i \in Hands) + Bit(i \in InPop) + Bit(i \in jobs) + Bit(i \in InSeqs(buf))
                     + Bit(i \in Drained) + Bit(i \in ToSet(wire)) + Bit(i \in Lost)
                     + Bit(i \in filtered) + Bit(i \in orphaned)
  BY <1>3, <1>4, <1>5, <1>6, <1>7, <1>8 DEF Places
<1> QED  BY <1>9, <1>10, <1>11, <1>12 DEF Bit

\* What every reachable state accounts for, for any number of threads, items and nested frames,
\* and any bounds of the buffer: see Accounted in Client.
THEOREM ItemsAccounted == Spec => []Accounted
<1>1. ASSUME IInv, DInv  PROVE Accounted
  <2>1. TypeOK /\ EvictionsSaid
    BY <1>1 DEF IInv, Said
  <2>2. OnePlace
    BY <1>1, EachInOnePlace
  <2>3. BufferBounded
    BY <1>1 DEF DInv, RoomLeft, BytesLeft, Bound, BufferBounded
  <2>4. NoGiveBackAfterFinal
    BY <1>1 DEF DInv, FinalWaits, NoGiveBackAfterFinal, FinalTaken
  <2> QED  BY <2>1, <2>2, <2>3, <2>4 DEF Accounted
<1>2. (IInv /\ DInv) => Accounted
  BY <1>1
<1> QED  BY <1>2, SpecDInv, PTL
=============================================================================
