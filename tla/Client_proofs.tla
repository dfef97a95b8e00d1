--------------------------- MODULE Client_proofs ---------------------------
(***************************************************************************)
(* For any number of threads, items, finalizers and signals: an item is    *)
(* sent at most once and is then nowhere else, unless a signal's drain     *)
(* took it between another drain's read of its buffer and its store        *)
(* (resent), and every eviction is said once (SentOnce).                   *)
(*                                                                         *)
(* The invariant is about who holds an item.  No two of the frames' hands, *)
(* the queue, the buffer, the batches and the wire hold the same one, but  *)
(* for the resent ones (Apart; Reread is why those two drains are the only *)
(* ones to hold it), everything held was captured (Held), and what a drain *)
(* sends is part of its batch (PartOfBatch).  Evictions need more: a frame *)
(* that decided to evict still finds the oldest item (OldestIsThere),      *)
(* although a nested frame of its own thread may have run in between,      *)
(* emptied that buffer, and either refilled it or made it stale; no other  *)
(* thread can (BufferOwned).                                               *)
(***************************************************************************)
EXTENDS Client, Collections

-----------------------------------------------------------------------------
(* The inductive invariant.                                                *)

\* The frames that carry a span, and those that carry a snapshot.
CarriesSpan     == {"admit", "enter", "room", "evict", "submit"}
CarriesSnapshot == {"snapshot", "pop", "count"}

\* A frame inside a capture carries the item, of the kind the capture is for.
InHand ==
  \A f \in Frames :
    /\ pc[f] \in CarriesSpan => item[f] \in Spans
    /\ pc[f] \in CarriesSnapshot => item[f] \in Snapshots
    /\ pc[f] = "append" => item[f] \in Items

\* Each kind's items in a sequence of their own, none of them twice.
Filed(b) ==
  /\ b \in [Kinds -> Seq(Items)]
  /\ b["span"] \in Seq(Spans) /\ b["snapshot"] \in Seq(Snapshots)
  /\ \A k \in Kinds : Once(b[k])

AllFiled == Filed(buf) /\ \A f \in Frames : Filed(batch[f])

\* The buffer lock is a thread's.
BufferOwned ==
  \A f, g \in Frames : InBuffer(f) /\ InBuffer(g) => Thread(f) = Thread(g)

\* What a nested frame refers to is never swapped away under it.
NestedLive == \A f \in Frames : f[2] = "nested" => ~ old[f].stale

\* The nested frame of f's thread took f's buffer to nothing, and is about to put
\* an item of its own there.
Refills(f, labels, kind) ==
  /\ f[2] = "base"
  /\ pc[Nested(f)] \in labels
  /\ item[Nested(f)] \in kind

OldestIsThere ==
  \A f \in Frames :
    /\ pc[f] = "evict" =>
         IF old[f].stale THEN old[f].items # <<>>
         ELSE buf["span"] # <<>> \/ Refills(f, {"room", "append"}, Spans)
    /\ pc[f] = "pop" /\ ~ old[f].stale =>
         buf["snapshot"] # <<>> \/ Refills(f, {"count", "append"}, Snapshots)
    /\ pc[f] = "count" /\ ~ old[f].stale => Len(old[f].items) = 1

\* A frame about to give an item back has one to give.
GivesBack == \A f \in Frames : pc[f] = "prepend" => batch[f] # Empty

\* Only a drain that took a batch holds one ...
Empties ==
  \A f \in Frames :
    pc[f] \notin {"states", "hook", "export", "undelivered", "giveBack", "prepend"}
      => batch[f] = Empty

\* ... and has evictions to report.
Cuts ==
  \A f \in Frames :
    pc[f] \notin {"hook", "export", "undelivered", "giveBack", "prepend", "release"}
      => cut[f] = 0

\* Everything held was captured, and no two hold the same item.
Held ==
  /\ jobs \subseteq captured
  /\ InSeqs(buf) \subseteq captured
  /\ ToSet(wire) \subseteq captured
  /\ \A f \in Frames : InSeqs(batch[f]) \subseteq captured
  /\ \A f \in Frames : item[f] # Nothing => item[f] \in captured

\* What is about to be exported is part of what was swapped out.
PartOfBatch ==
  \A f \in Frames :
    pc[f] = "export" => Filed(sent[f]) /\ InSeqs(sent[f]) \subseteq InSeqs(batch[f])

\* No two holders hold the same item, but for what was taken twice.
Apart ==
  /\ jobs \cap InSeqs(buf) = {} /\ jobs \cap ToSet(wire) = {}
  /\ InSeqs(buf) \cap ToSet(wire) \subseteq resent
  /\ \A f \in Frames :
       /\ InSeqs(batch[f]) \cap jobs = {}
       /\ InSeqs(batch[f]) \cap InSeqs(buf) = {}
       /\ InSeqs(batch[f]) \cap ToSet(wire) \subseteq resent
       /\ item[f] \notin jobs /\ item[f] \notin InSeqs(buf) /\ item[f] \notin ToSet(wire)
  /\ \A f, g \in Frames :
       /\ item[f] \notin InSeqs(batch[g])
       /\ f # g => InSeqs(batch[f]) \cap InSeqs(batch[g]) = {}
       /\ f # g /\ item[f] = item[g] => item[f] = Nothing

\* Each item once, but for those of X.
OnceBut(s, X) == \A a, b \in DOMAIN s : s[a] = s[b] /\ s[a] \notin X => a = b

\* What a drain read, and a nested one took meanwhile, is in no other frame's hands: the
\* buffer lock keeps the other threads out.
KindsOf(k) == IF k = "span" THEN Spans ELSE Snapshots

Rereads(f, k) ==
  LET s == old[f].items
  IN  /\ s \in Seq(KindsOf(k)) /\ Once(s)
      /\ ToSet(s) \subseteq captured /\ ToSet(s) \cap jobs = {}
      /\ \A g \in Frames : item[g] \notin ToSet(s)
      /\ \A g \in Frames : g # Nested(f) => InSeqs(batch[g]) \cap ToSet(s) = {}

Reread ==
  \A f \in Frames : old[f].stale =>
    /\ pc[f] = "spans" => Rereads(f, "span")
    /\ pc[f] = "states" => Rereads(f, "snapshot")

\* The two sums of EvictionsSaid are of finitely many evictions.
OverflowOf == [i \in Items |-> Occurs("queue_overflow", ledger[i])]
UnsaidOf   == [f \in Frames |-> cut[f] + back[f]]

Said ==
  /\ IsFiniteSet(Cells(OverflowOf)) /\ IsFiniteSet(Cells(UnsaidOf))
  /\ EvictionsSaid

IInv ==
  /\ TypeOK /\ InHand /\ AllFiled
  /\ BufferOwned /\ NestedLive /\ OldestIsThere
  /\ GivesBack /\ Empties /\ Cuts
  /\ Held /\ PartOfBatch /\ OnceBut(wire, resent) /\ Apart /\ Reread
  /\ Said
-----------------------------------------------------------------------------
(* Which actions change a variable, and which lead to a label.             *)

CutBy(f) == TakeStates(f) \/ Release(f)
BackBy(f) == GiveBack(f) \/ GivenBack(f)
SentBy(f) ==
  HookReturns(f) \/ HookDrops(f) \/ ExportDelivers(f) \/ ExportFails(f)
  \/ Undelivered(f) \/ GivenBack(f)
TakenBy(f) == TakeSpans(f) \/ TakeStates(f)
StoreBy(f) == TakenBy(f) \/ LeaveSpans(f) \/ LeaveStates(f)
Takes(f, k) == IF k = "span" THEN TakeSpans(f) ELSE TakeStates(f)
Stores(f, k) ==
  IF k = "span" THEN TakeSpans(f) \/ LeaveSpans(f) ELSE TakeStates(f) \/ LeaveStates(f)
BatchBy(f) ==
  TakenBy(f) \/ HookDrops(f) \/ ExportDelivers(f) \/ ExportFails(f) \/ Undelivered(f)
  \/ GiveBack(f) \/ Prepend(f) \/ GivenBack(f)
BufBy(f) == Evict(f) \/ Append1(f) \/ PopSnapshot(f) \/ Prepend(f) \/ StoreBy(f)
WireBy(f) == ExportDelivers(f)
JobsBy(f) ==
  Submit(f) \/ (\E i \in Spans : Parse(f, i)) \/ (\E i \in Spans : ParseJob(f, i))
ItemBy(f) ==
  (\E i \in Items : Capture(f, i)) \/ (\E i \in Spans : CaptureDeferred(f, i)) \/ Submit(f)
  \/ (\E i \in Spans : Parse(f, i)) \/ (\E i \in Spans : ParseJob(f, i)) \/ Admit(f)
  \/ Append1(f)
CapturedBy(f) ==
  (\E i \in Items : Capture(f, i)) \/ (\E i \in Spans : CaptureDeferred(f, i))
OldBy(f) ==
  Room(f) \/ EnterSnapshot(f) \/ PopSnapshot(f) \/ CountSnapshot(f) \/ Swap(f)
  \/ GiveBack(f) \/ Abandon(f) \/ StoreBy(f)
LedgerBy(f) ==
  (\E i \in Items : Capture(f, i)) \/ (\E i \in Spans : CaptureDeferred(f, i)) \/ Admit(f)
  \/ Evict(f) \/ CountSnapshot(f) \/ HookDrops(f) \/ ExportFails(f) \/ Undelivered(f)
  \/ GiveBack(f) \/ LeaveSpans(f) \/ LeaveStates(f)
DroppedBy(f) ==
  Evict(f) \/ CountSnapshot(f) \/ TakeStates(f) \/ GivenBack(f) \/ LeaveStates(f)
SaidBy(f) == Release(f) \/ LeaveStates(f)
FilteredBy(f) == ExportDelivers(f) \/ ExportFails(f)
OrphanedBy(f) == Append1(f) \/ CountSnapshot(f) \/ Prepend(f) \/ StoreBy(f)
ResentBy(f) == TakenBy(f)

\* A step of f changes a variable only by one of the actions named for it.
LEMMA WhatChanges ==
  ASSUME NEW f \in Frames, Start(f) \/ Continue(f) \/ Export(f)
  PROVE
    /\ cut' = cut \/ CutBy(f)
    /\ back' = back \/ BackBy(f)
    /\ sent' = sent \/ SentBy(f)
    /\ batch' = batch \/ BatchBy(f)
    /\ buf' = buf \/ BufBy(f)
    /\ wire' = wire \/ WireBy(f)
    /\ jobs' = jobs \/ JobsBy(f)
    /\ item' = item \/ ItemBy(f)
    /\ captured' = captured \/ CapturedBy(f)
    /\ old' = old \/ OldBy(f)
    /\ ledger' = ledger \/ LedgerBy(f)
    /\ dropped' = dropped \/ DroppedBy(f)
    /\ said' = said \/ SaidBy(f)
    /\ filtered' = filtered \/ FilteredBy(f)
    /\ orphaned' = orphaned \/ OrphanedBy(f)
    /\ resent' = resent \/ ResentBy(f)
<1> USE DEF Start, Continue, Export, Flush, Call, ShutdownFlush, Periodic,
            Close, EnterBuffer, StopWorkers, ParsesDone, Acquire, Decline,
            CloseTransport, ExportDeclines, flags, drainer, outcomes, strays
<1>1. cut' = cut \/ CutBy(f)
  BY DEF CutBy, Capture, CaptureDeferred, Parse, Submit, Admit, Admitted,
         Room, Evict, Append1, EnterSnapshot, PopSnapshot, CountSnapshot,
         ParseJob, Swap, TakeSpans, HookReturns, HookDrops, Disposed,
         Undelivered, GiveBack, Prepend, GivenBack, Abandon, LeaveSpans,
         LeaveStates, ExportDelivers, ExportFails
<1>2. back' = back \/ BackBy(f)
  BY DEF BackBy, Capture, CaptureDeferred, Parse, Submit, Admit, Admitted,
         Room, Evict, Append1, EnterSnapshot, PopSnapshot, CountSnapshot,
         ParseJob, Swap, TakeSpans, TakeStates, HookReturns, HookDrops,
         Disposed, Undelivered, Prepend, Release, Abandon, LeaveSpans,
         LeaveStates, ExportDelivers, ExportFails
<1>3. sent' = sent \/ SentBy(f)
  BY DEF SentBy, Capture, CaptureDeferred, Parse, Submit, Admit, Admitted,
         Room, Evict, Append1, EnterSnapshot, PopSnapshot, CountSnapshot,
         ParseJob, Swap, TakeSpans, TakeStates, GiveBack, Prepend, Release,
         Abandon, LeaveSpans, LeaveStates
<1>4. batch' = batch \/ BatchBy(f)
  BY DEF BatchBy, TakenBy, Capture, CaptureDeferred, Parse, Submit, Admit,
         Admitted, Room, Evict, Append1, EnterSnapshot, PopSnapshot,
         CountSnapshot, ParseJob, Swap, HookReturns, Release, Abandon,
         LeaveSpans, LeaveStates
<1>5. buf' = buf \/ BufBy(f)
  BY DEF BufBy, TakenBy, StoreBy, Capture, CaptureDeferred, Parse, Submit,
         Admit, Admitted, Room, EnterSnapshot, CountSnapshot, ParseJob, Swap,
         HookReturns, HookDrops, Disposed, Undelivered, GiveBack, GivenBack,
         Release, Abandon, ExportDelivers, ExportFails
<1>6. wire' = wire \/ WireBy(f)
  BY DEF WireBy, Capture, CaptureDeferred, Parse, Submit, Admit, Admitted,
         Room, Evict, Append1, EnterSnapshot, PopSnapshot, CountSnapshot,
         ParseJob, Swap, TakeSpans, TakeStates, HookReturns, HookDrops,
         Disposed, Undelivered, GiveBack, Prepend, GivenBack, Release,
         Abandon, LeaveSpans, LeaveStates, ExportFails
<1>7. jobs' = jobs \/ JobsBy(f)
  BY DEF JobsBy, Capture, CaptureDeferred, Admit, Admitted, Room, Evict,
         Append1, EnterSnapshot, PopSnapshot, CountSnapshot, Swap, TakeSpans,
         TakeStates, HookReturns, HookDrops, Disposed, Undelivered, GiveBack,
         Prepend, GivenBack, Release, Abandon, LeaveSpans, LeaveStates,
         ExportDelivers, ExportFails
<1>8. item' = item \/ ItemBy(f)
  BY DEF ItemBy, Room, Evict, EnterSnapshot, PopSnapshot, CountSnapshot, Swap,
         TakeSpans, TakeStates, HookReturns, HookDrops, Disposed, Undelivered,
         GiveBack, Prepend, GivenBack, Release, Abandon, LeaveSpans,
         LeaveStates, ExportDelivers, ExportFails
<1>9. captured' = captured \/ CapturedBy(f)
  BY DEF CapturedBy, Parse, Submit, Admit, Admitted, Room, Evict, Append1,
         EnterSnapshot, PopSnapshot, CountSnapshot, ParseJob, Swap, TakeSpans,
         TakeStates, HookReturns, HookDrops, Disposed, Undelivered, GiveBack,
         Prepend, GivenBack, Release, Abandon, LeaveSpans, LeaveStates,
         ExportDelivers, ExportFails
<1>10. old' = old \/ OldBy(f)
  BY DEF OldBy, TakenBy, StoreBy, Capture, CaptureDeferred, Parse, Submit,
         Admit, Admitted, Evict, Append1, ParseJob, HookReturns, HookDrops,
         Disposed, Undelivered, Prepend, GivenBack, Release, ExportDelivers,
         ExportFails
<1>11. ledger' = ledger \/ LedgerBy(f)
  BY DEF LedgerBy, Parse, Submit, Room, Append1, EnterSnapshot, PopSnapshot,
         ParseJob, Swap, TakeSpans, TakeStates, HookReturns, Prepend,
         GivenBack, Release, Abandon, ExportDelivers, Admitted, Disposed
<1>12. dropped' = dropped \/ DroppedBy(f)
  BY DEF DroppedBy, Capture, CaptureDeferred, Parse, Submit, Admit, Admitted,
         Room, Append1, EnterSnapshot, PopSnapshot, ParseJob, Swap, TakeSpans,
         HookReturns, HookDrops, Disposed, Undelivered, GiveBack, Prepend,
         Release, Abandon, LeaveSpans, ExportDelivers, ExportFails
<1>13. said' = said \/ SaidBy(f)
  BY DEF SaidBy, Capture, CaptureDeferred, Parse, Submit, Admit, Admitted,
         Room, Evict, Append1, EnterSnapshot, PopSnapshot, CountSnapshot,
         ParseJob, Swap, TakeSpans, TakeStates, HookReturns, HookDrops,
         Disposed, Undelivered, GiveBack, Prepend, GivenBack, Abandon,
         LeaveSpans, ExportDelivers, ExportFails
<1>14. filtered' = filtered \/ FilteredBy(f)
  BY DEF FilteredBy, Capture, CaptureDeferred, Parse, Submit, Admit, Admitted,
         Room, Evict, Append1, EnterSnapshot, PopSnapshot, CountSnapshot,
         ParseJob, Swap, TakeSpans, TakeStates, HookReturns, HookDrops,
         Disposed, Undelivered, GiveBack, Prepend, GivenBack, Release,
         Abandon, LeaveSpans, LeaveStates
<1>15. orphaned' = orphaned \/ OrphanedBy(f)
  BY DEF OrphanedBy, TakenBy, StoreBy, Capture, CaptureDeferred, Parse,
         Submit, Admit, Admitted, Room, Evict, EnterSnapshot, PopSnapshot,
         ParseJob, Swap, HookReturns, HookDrops, Disposed, Undelivered,
         GiveBack, GivenBack, Release, Abandon, ExportDelivers, ExportFails
<1>16. resent' = resent \/ ResentBy(f)
  BY DEF ResentBy, TakenBy, Capture, CaptureDeferred, Parse, Submit, Admit,
         Admitted, Room, Evict, Append1, EnterSnapshot, PopSnapshot,
         CountSnapshot, ParseJob, Swap, HookReturns, HookDrops, Disposed,
         Undelivered, GiveBack, Prepend, GivenBack, Release, Abandon,
         LeaveSpans, LeaveStates, ExportDelivers, ExportFails
<1> QED  BY <1>1, <1>2, <1>3, <1>4, <1>5, <1>6, <1>7, <1>8, <1>9, <1>10, <1>11,
            <1>12, <1>13, <1>14, <1>15, <1>16

-----------------------------------------------------------------------------
(* Types.                                                                  *)

\* A step of f moves f alone, and only a frame that is not interrupted.
LEMMA PcMoves ==
  ASSUME TypeOK, NEW f \in Frames, Start(f) \/ Continue(f) \/ Export(f)
  PROVE  /\ Runs(f)
         /\ pc' \in [Frames -> Pcs]
         /\ \A g \in Frames : g # f => pc'[g] = pc[g]
         /\ host' = host
<1> USE DEF TypeOK, Pcs, At, MayCall, Goto, Start, Continue, Export, Capture,
            Record, CaptureDeferred, Parse, Flush, Call, ShutdownFlush,
            Periodic, Close, Submit, Admit, Admitted, EnterBuffer, Room, Evict,
            Append1, EnterSnapshot, PopSnapshot, CountSnapshot, StopWorkers,
            ParseJob, ParsesDone, Acquire, Decline, Swap, TakeSpans, TakeStates, Orphan,
            HookReturns, HookDrops, Disposed, Undelivered, GiveBack,
            WithoutNext, Prepend, GivenBack, Release, Abandon, LeaveSpans, LeaveStates, CloseTransport,
            ExportDelivers, ExportFails, ExportDeclines, flags, drainer,
            outcomes, strays
<1>1. Runs(f)
  OBVIOUS
<1>2. pc' \in [Frames -> Pcs]
  BY ZenonT(200)
<1>3. \A g \in Frames : g # f => pc'[g] = pc[g]
  BY ZenonT(200)
<1>4. host' = host
  OBVIOUS
<1> QED  BY <1>1, <1>2, <1>3, <1>4

\* Flags and calls.
LEMMA FlagTypes ==
  ASSUME TypeOK, NEW f \in Frames, Start(f) \/ Continue(f) \/ Export(f)
  PROVE  /\ closed' \in BOOLEAN /\ drained' \in BOOLEAN /\ stopped' \in BOOLEAN
         /\ signals' \in 0 .. MaxSignals
         /\ op' \in [Frames -> Ops \cup {Nothing}]
<1> USE DEF TypeOK, Ops, Kind, Start, Continue, Export, Capture, Record,
            CaptureDeferred, Parse, Flush, Call, ShutdownFlush, Periodic,
            Close, Submit, Admit, Admitted, EnterBuffer, Room, Evict, Append1,
            EnterSnapshot, PopSnapshot, CountSnapshot, StopWorkers, ParseJob,
            ParsesDone, Acquire, Decline, Swap, TakeSpans, TakeStates, Orphan, HookReturns,
            HookDrops, Disposed, Undelivered, GiveBack, WithoutNext, Prepend,
            GivenBack, Release, Abandon, LeaveSpans, LeaveStates, CloseTransport, ExportDelivers,
            ExportFails, ExportDeclines, flags, drainer, outcomes
<1>1. closed' \in BOOLEAN /\ drained' \in BOOLEAN /\ stopped' \in BOOLEAN
  OBVIOUS
<1>2. signals' \in 0 .. MaxSignals
  <2>1. signals' = signals \/ (signals < MaxSignals /\ signals' = signals + 1)
    OBVIOUS
  <2> QED  BY ONLY <2>1, TypeOK, ClientAssumption DEF TypeOK
<1>3. op' \in [Frames -> Ops \cup {Nothing}]
  BY ZenonT(90)
<1> QED  BY <1>1, <1>2, <1>3

-----------------------------------------------------------------------------
(* A buffer or a batch after one item left it or joined it.                *)

\* A swapped buffer is a filed one and holds nothing.
LEMMA FiledEmpty == Filed(Empty) /\ InSeqs(Empty) = {}
<1>1. Empty \in [Kinds -> Seq(Items)] /\ \A k \in Kinds : Empty[k] = <<>>
  BY DEF Empty
<1>2. "span" \in Kinds /\ "snapshot" \in Kinds
  BY DEF Kinds
<1>3. Empty["span"] \in Seq(Spans) /\ Empty["snapshot"] \in Seq(Snapshots)
  BY <1>1, <1>2
<1> QED  BY <1>1, <1>2, <1>3, OnceEmpty DEF Filed, InSeqs

\* A span is never filed with the snapshots, nor the other way round.
LEMMA FiledApart ==
  ASSUME NEW b, Filed(b)
  PROVE  /\ ToSet(b["span"]) \subseteq Spans /\ ToSet(b["snapshot"]) \subseteq Snapshots
         /\ ToSet(b["span"]) \cap ToSet(b["snapshot"]) = {}
         /\ InSeqs(b) \subseteq Items
         /\ \A k \in Kinds : \A i \in ToSet(b[k]) : Kind(i) = k
<1>1. ToSet(b["span"]) \subseteq Spans /\ ToSet(b["snapshot"]) \subseteq Snapshots
  BY ToSetSeq DEF Filed
<1> QED  BY <1>1, ClientAssumption DEF InSeqs, Items, Kinds, Kind

\* An item joins the sequence of its kind, at either end.
LEMMA FiledWith ==
  ASSUME NEW b, Filed(b), NEW x \in Items, x \notin InSeqs(b),
         NEW c, c \in {[b EXCEPT ![Kind(x)] = Append(@, x)], [b EXCEPT ![Kind(x)] = <<x>> \o @]}
  PROVE  Filed(c) /\ InSeqs(c) = InSeqs(b) \cup {x}
<1> DEFINE k == Kind(x)
<1>1. k \in Kinds /\ k \in {"span", "snapshot"} /\ b[k] \in Seq(Items) /\ Once(b[k]) /\ x \notin ToSet(b[k])
  BY DEF Filed, Kind, Kinds, InSeqs
<1>2. c = [b EXCEPT ![k] = c[k]] /\ c[k] \in {Append(b[k], x), <<x>> \o b[k]}
  BY <1>1 DEF Filed
<1>3. ASSUME NEW S, b[k] \in Seq(S), x \in S
      PROVE  c[k] \in Seq(S) /\ ToSet(c[k]) = ToSet(b[k]) \cup {x} /\ Once(c[k])
  <2>1. CASE c[k] = Append(b[k], x)
    BY <2>1, <1>1, <1>3, OnceAppend
  <2>2. CASE c[k] = <<x>> \o b[k]
    <3>1. <<x>> \in Seq(S) /\ ToSet(<<x>>) = {x} /\ Once(<<x>>)
      BY <1>3 DEF ToSet, Once
    <3>2. /\ <<x>> \o b[k] \in Seq(S) /\ ToSet(<<x>> \o b[k]) = ToSet(<<x>>) \cup ToSet(b[k])
          /\ Once(<<x>>) /\ Once(b[k]) /\ ToSet(<<x>>) \cap ToSet(b[k]) = {} => Once(<<x>> \o b[k])
      BY ZenonT(200), <3>1, <1>3, OnceConcat
    <3> QED  BY <2>2, <3>1, <3>2, <1>1
  <2> QED  BY <1>2, <2>1, <2>2
<1>4. CASE x \in Spans
  <2>1. k = "span" /\ c["snapshot"] = b["snapshot"]
    BY <1>2, <1>4 DEF Kind, Filed, Kinds
  <2>2. c["span"] \in Seq(Spans) /\ ToSet(c["span"]) = ToSet(b["span"]) \cup {x} /\ Once(c["span"])
    BY <1>3, <1>4, <2>1 DEF Filed
  <2>3. c["span"] \in Seq(Items)
    BY <1>1, <1>3, <2>1
  <2> QED  BY <1>2, <2>1, <2>2, <2>3 DEF Filed, InSeqs, Kinds
<1>5. CASE x \notin Spans
  <2>1. k = "snapshot" /\ c["span"] = b["span"] /\ x \in Snapshots
    BY <1>2, <1>5 DEF Kind, Filed, Kinds, Items
  <2>2. c["snapshot"] \in Seq(Snapshots) /\ ToSet(c["snapshot"]) = ToSet(b["snapshot"]) \cup {x} /\ Once(c["snapshot"])
    BY <1>3, <2>1 DEF Filed
  <2>3. c["snapshot"] \in Seq(Items)
    BY <1>1, <1>3, <2>1
  <2> QED  BY <1>2, <2>1, <2>2, <2>3 DEF Filed, InSeqs, Kinds
<1> QED  BY <1>4, <1>5

\* The oldest or the newest item of a kind leaves.
LEMMA FiledWithout ==
  ASSUME NEW b, Filed(b), NEW k \in Kinds, b[k] # <<>>
  PROVE  /\ LET x == Head(b[k])
                c == [b EXCEPT ![k] = Tail(@)]
            IN  x \in InSeqs(b) /\ Kind(x) = k /\ Filed(c) /\ InSeqs(c) = InSeqs(b) \ {x}
         /\ LET x == Last(b[k])
                c == [b EXCEPT ![k] = Front(@)]
            IN  x \in InSeqs(b) /\ Kind(x) = k /\ Filed(c) /\ InSeqs(c) = InSeqs(b) \ {x}
<1>1. ASSUME NEW x \in ToSet(b[k]), NEW s, ToSet(s) = ToSet(b[k]) \ {x}, Once(s),
             \A S : b[k] \in Seq(S) => s \in Seq(S)
      PROVE  LET c == [b EXCEPT ![k] = s]
             IN  x \in InSeqs(b) /\ Kind(x) = k /\ Filed(c) /\ InSeqs(c) = InSeqs(b) \ {x}
  <2> DEFINE c == [b EXCEPT ![k] = s]
  <2>1. s \in Seq(Items) /\ Kind(x) = k
    BY <1>1, FiledApart DEF Filed
  <2>2. CASE k = "span"
    <3>1. c["span"] = s /\ c["snapshot"] = b["snapshot"] /\ s \in Seq(Spans)
      BY <1>1, <2>2 DEF Filed, Kinds
    <3>2. x \notin ToSet(b["snapshot"])
      BY <1>1, <2>2, FiledApart
    <3> QED  BY <1>1, <2>1, <2>2, <3>1, <3>2 DEF Filed, InSeqs, Kinds
  <2>3. CASE k = "snapshot"
    <3>1. c["snapshot"] = s /\ c["span"] = b["span"] /\ s \in Seq(Snapshots)
      BY <1>1, <2>3 DEF Filed, Kinds
    <3>2. x \notin ToSet(b["span"])
      BY <1>1, <2>3, FiledApart
    <3> QED  BY <1>1, <2>1, <2>3, <3>1, <3>2 DEF Filed, InSeqs, Kinds
  <2> QED  BY <2>2, <2>3 DEF Kinds
<1>2. b[k] \in Seq(Items) /\ Once(b[k])
  BY DEF Filed
<1>3. /\ Head(b[k]) \in ToSet(b[k]) /\ ToSet(Tail(b[k])) = ToSet(b[k]) \ {Head(b[k])} /\ Once(Tail(b[k]))
      /\ \A S : b[k] \in Seq(S) => Tail(b[k]) \in Seq(S)
  BY <1>2, OnceTail
<1>4. /\ Last(b[k]) \in ToSet(b[k]) /\ ToSet(Front(b[k])) = ToSet(b[k]) \ {Last(b[k])} /\ Once(Front(b[k]))
      /\ \A S : b[k] \in Seq(S) => Front(b[k]) \in Seq(S)
  BY <1>2, OnceFront
<1> QED  BY <1>1, <1>3, <1>4

-----------------------------------------------------------------------------
(* What a frame carries, and who is inside a lock.                         *)

\* The actions that take a frame to a label.
LEMMA WhereTo ==
  ASSUME TypeOK, NEW f \in Frames, Start(f) \/ Continue(f) \/ Export(f)
  PROVE
    /\ pc'[f] \in {"admit", "submit", "enter"} =>
         (\E i \in Items : Capture(f, i))
         \/ (\E i \in Spans : CaptureDeferred(f, i)) \/ Submit(f)
         \/ (\E i \in Spans : Parse(f, i))
         \/ (\E i \in Spans : ParseJob(f, i)) \/ Admit(f)
    /\ pc'[f] = "room" =>
         EnterBuffer(f) \/ Evict(f)
    /\ pc'[f] = "evict" =>
         Room(f)
    /\ pc'[f] = "snapshot" =>
         (\E i \in Items : Capture(f, i))
    /\ pc'[f] \in {"pop", "count"} =>
         EnterSnapshot(f) \/ PopSnapshot(f)
    /\ pc'[f] = "append" =>
         Room(f) \/ EnterSnapshot(f) \/ CountSnapshot(f)
    /\ pc'[f] \in {"giveBack", "prepend"} =>
         Undelivered(f) \/ GiveBack(f) \/ Prepend(f)
    /\ pc'[f] = "export" =>
         HookReturns(f)
    /\ pc'[f] \in {"spans", "states", "leaveSpans", "leaveStates"} =>
         Swap(f) \/ TakeSpans(f) \/ Abandon(f) \/ LeaveSpans(f)
<1> USE DEF TypeOK, At, Goto, MayCall
<1>1. pc'[f] \in {"admit", "submit", "enter"} =>
         (\E i \in Items : Capture(f, i))
         \/ (\E i \in Spans : CaptureDeferred(f, i)) \/ Submit(f)
         \/ (\E i \in Spans : Parse(f, i))
         \/ (\E i \in Spans : ParseJob(f, i)) \/ Admit(f)
  BY ZenonT(90) DEF Start, Continue, Export, Flush, Call, ShutdownFlush, Periodic, Close,
         EnterBuffer, Room, Evict, Append1, Admitted, EnterSnapshot,
         PopSnapshot, CountSnapshot, StopWorkers, ParsesDone, Acquire, Decline,
         Swap, TakeSpans, TakeStates, HookReturns, HookDrops, Disposed, Undelivered,
         GiveBack, Prepend, GivenBack, Release, Abandon, LeaveSpans, LeaveStates, CloseTransport,
         ExportDelivers, ExportFails, ExportDeclines, flags, drainer, outcomes
<1>2. pc'[f] = "room" =>
         EnterBuffer(f) \/ Evict(f)
  BY ZenonT(200) DEF Start, Continue, Export, Capture, CaptureDeferred, Parse, Flush, Call,
         ShutdownFlush, Periodic, Close, Submit, Admit, Admitted, Room,
         Append1, EnterSnapshot, PopSnapshot, CountSnapshot, StopWorkers,
         ParseJob, ParsesDone, Acquire, Decline, Swap, TakeSpans, TakeStates, HookReturns,
         HookDrops, Disposed, Undelivered, GiveBack, Prepend, GivenBack,
         Release, Abandon, LeaveSpans, LeaveStates, CloseTransport, ExportDelivers, ExportFails,
         ExportDeclines, flags, drainer, outcomes
<1>3. pc'[f] = "evict" =>
         Room(f)
  BY ZenonT(200) DEF Start, Continue, Export, Capture, CaptureDeferred, Parse, Flush, Call,
         ShutdownFlush, Periodic, Close, Submit, Admit, Admitted, EnterBuffer,
         Evict, Append1, EnterSnapshot, PopSnapshot, CountSnapshot,
         StopWorkers, ParseJob, ParsesDone, Acquire, Decline, Swap, TakeSpans, TakeStates,
         HookReturns, HookDrops, Disposed, Undelivered, GiveBack, Prepend,
         GivenBack, Release, Abandon, LeaveSpans, LeaveStates, CloseTransport, ExportDelivers,
         ExportFails, ExportDeclines, flags, drainer, outcomes
<1>4. pc'[f] = "snapshot" =>
         (\E i \in Items : Capture(f, i))
  BY ZenonT(200) DEF Start, Continue, Export, CaptureDeferred, Parse, Flush, Call,
         ShutdownFlush, Periodic, Close, Submit, Admit, Admitted, EnterBuffer,
         Room, Evict, Append1, EnterSnapshot, PopSnapshot, CountSnapshot,
         StopWorkers, ParseJob, ParsesDone, Acquire, Decline, Swap, TakeSpans, TakeStates,
         HookReturns, HookDrops, Disposed, Undelivered, GiveBack, Prepend,
         GivenBack, Release, Abandon, LeaveSpans, LeaveStates, CloseTransport, ExportDelivers,
         ExportFails, ExportDeclines, flags, drainer, outcomes
<1>5. pc'[f] \in {"pop", "count"} =>
         EnterSnapshot(f) \/ PopSnapshot(f)
  BY ZenonT(200) DEF Start, Continue, Export, Capture, CaptureDeferred, Parse, Flush, Call,
         ShutdownFlush, Periodic, Close, Submit, Admit, Admitted, EnterBuffer,
         Room, Evict, Append1, CountSnapshot, StopWorkers, ParseJob,
         ParsesDone, Acquire, Decline, Swap, TakeSpans, TakeStates, HookReturns, HookDrops,
         Disposed, Undelivered, GiveBack, Prepend, GivenBack, Release, Abandon, LeaveSpans, LeaveStates,
         CloseTransport, ExportDelivers, ExportFails, ExportDeclines, flags,
         drainer, outcomes
<1>6. pc'[f] = "append" =>
         Room(f) \/ EnterSnapshot(f) \/ CountSnapshot(f)
  BY ZenonT(200) DEF Start, Continue, Export, Capture, CaptureDeferred, Parse, Flush, Call,
         ShutdownFlush, Periodic, Close, Submit, Admit, Admitted, EnterBuffer,
         Evict, Append1, PopSnapshot, StopWorkers, ParseJob, ParsesDone,
         Acquire, Decline, Swap, TakeSpans, TakeStates, HookReturns, HookDrops, Disposed,
         Undelivered, GiveBack, Prepend, GivenBack, Release, Abandon, LeaveSpans, LeaveStates,
         CloseTransport, ExportDelivers, ExportFails, ExportDeclines, flags,
         drainer, outcomes
<1>7. pc'[f] \in {"giveBack", "prepend"} =>
         Undelivered(f) \/ GiveBack(f) \/ Prepend(f)
  BY ZenonT(200) DEF Start, Continue, Export, Capture, CaptureDeferred, Parse, Flush, Call,
         ShutdownFlush, Periodic, Close, Submit, Admit, Admitted, EnterBuffer,
         Room, Evict, Append1, EnterSnapshot, PopSnapshot, CountSnapshot,
         StopWorkers, ParseJob, ParsesDone, Acquire, Decline, Swap, TakeSpans, TakeStates,
         HookReturns, HookDrops, Disposed, GivenBack, Release, Abandon, LeaveSpans, LeaveStates,
         CloseTransport, ExportDelivers, ExportFails, ExportDeclines, flags,
         drainer, outcomes
<1>8. pc'[f] = "export" =>
         HookReturns(f)
  BY ZenonT(200) DEF Start, Continue, Export, Capture, CaptureDeferred, Parse, Flush, Call,
         ShutdownFlush, Periodic, Close, Submit, Admit, Admitted, EnterBuffer,
         Room, Evict, Append1, EnterSnapshot, PopSnapshot, CountSnapshot,
         StopWorkers, ParseJob, ParsesDone, Acquire, Decline, Swap, TakeSpans, TakeStates,
         HookDrops, Disposed, Undelivered, GiveBack, Prepend, GivenBack,
         Release, Abandon, LeaveSpans, LeaveStates, CloseTransport, ExportDelivers, ExportFails,
         ExportDeclines, flags, drainer, outcomes
<1>9. pc'[f] \in {"spans", "states", "leaveSpans", "leaveStates"} =>
         Swap(f) \/ TakeSpans(f) \/ Abandon(f) \/ LeaveSpans(f)
  BY ZenonT(200) DEF Start, Continue, Export, Capture, CaptureDeferred, Parse, Flush, Call,
         ShutdownFlush, Periodic, Close, Submit, Admit, Admitted, EnterBuffer,
         Room, Evict, Append1, EnterSnapshot, PopSnapshot, CountSnapshot,
         StopWorkers, ParseJob, ParsesDone, Acquire, Decline, TakeStates,
         HookReturns, HookDrops, Disposed, Undelivered, GiveBack, Prepend,
         GivenBack, Release, LeaveStates, CloseTransport, ExportDelivers,
         ExportFails, ExportDeclines, flags, drainer, outcomes
<1> QED  BY <1>1, <1>2, <1>3, <1>4, <1>5, <1>6, <1>7, <1>8, <1>9

\* What a frame does from a label on.
LEMMA WhereFrom ==
  ASSUME TypeOK, NEW f \in Frames, Start(f) \/ Continue(f) \/ Export(f)
  PROVE
    /\ pc[f] = "room" => Room(f)
    /\ pc[f] = "append" => Append1(f)
    /\ pc[f] = "count" => CountSnapshot(f)
    /\ pc[f] = "hook" => HookReturns(f) \/ HookDrops(f)
    /\ pc[f] = "export" => ExportDelivers(f) \/ ExportFails(f) \/ ExportDeclines(f)
    /\ pc[f] = "undelivered" => Undelivered(f)
    /\ pc[f] = "giveBack" => GiveBack(f) \/ GivenBack(f)
    /\ pc[f] = "prepend" => Prepend(f)
    /\ pc[f] = "release" => Release(f)
    /\ pc[f] = "spans" => TakeSpans(f)
    /\ pc[f] = "states" => TakeStates(f)
    /\ pc[f] = "swap" => Swap(f)
<1> USE DEF At, MayCall, Start, Continue, Export, Capture, CaptureDeferred,
            Parse, Flush, Call, ShutdownFlush, Periodic, Close, Submit, Admit,
            EnterBuffer, Evict, EnterSnapshot, PopSnapshot, StopWorkers,
            ParseJob, ParsesDone, Acquire, Decline, Swap, TakeSpans, TakeStates, Abandon, LeaveSpans, LeaveStates,
            CloseTransport
<1>1. pc[f] = "room" => Room(f)
  BY DEF Append1, CountSnapshot, HookReturns, HookDrops, ExportDelivers, ExportFails,
      ExportDeclines, Undelivered, GiveBack, GivenBack, Prepend, Release
<1>2. pc[f] = "append" => Append1(f)
  BY DEF Room, CountSnapshot, HookReturns, HookDrops, ExportDelivers, ExportFails, ExportDeclines,
      Undelivered, GiveBack, GivenBack, Prepend, Release
<1>3. pc[f] = "count" => CountSnapshot(f)
  BY DEF Room, Append1, HookReturns, HookDrops, ExportDelivers, ExportFails, ExportDeclines,
      Undelivered, GiveBack, GivenBack, Prepend, Release
<1>4. pc[f] = "hook" => HookReturns(f) \/ HookDrops(f)
  BY DEF Room, Append1, CountSnapshot, ExportDelivers, ExportFails, ExportDeclines, Undelivered,
      GiveBack, GivenBack, Prepend, Release
<1>5. pc[f] = "export" => ExportDelivers(f) \/ ExportFails(f) \/ ExportDeclines(f)
  BY DEF Room, Append1, CountSnapshot, HookReturns, HookDrops, Undelivered, GiveBack, GivenBack,
      Prepend, Release
<1>6. pc[f] = "undelivered" => Undelivered(f)
  BY DEF Room, Append1, CountSnapshot, HookReturns, HookDrops, ExportDelivers, ExportFails,
      ExportDeclines, GiveBack, GivenBack, Prepend, Release
<1>7. pc[f] = "giveBack" => GiveBack(f) \/ GivenBack(f)
  BY DEF Room, Append1, CountSnapshot, HookReturns, HookDrops, ExportDelivers, ExportFails,
      ExportDeclines, Undelivered, Prepend, Release
<1>8. pc[f] = "prepend" => Prepend(f)
  BY DEF Room, Append1, CountSnapshot, HookReturns, HookDrops, ExportDelivers, ExportFails,
      ExportDeclines, Undelivered, GiveBack, GivenBack, Release
<1>9. pc[f] = "release" => Release(f)
  BY DEF Room, Append1, CountSnapshot, HookReturns, HookDrops, ExportDelivers, ExportFails,
      ExportDeclines, Undelivered, GiveBack, GivenBack, Prepend
<1>10. (pc[f] = "spans" => TakeSpans(f)) /\ (pc[f] = "states" => TakeStates(f)) /\ (pc[f] = "swap" => Swap(f))
  BY DEF Room, Append1, CountSnapshot, HookReturns, HookDrops, ExportDelivers, ExportFails,
      ExportDeclines, Undelivered, GiveBack, GivenBack, Prepend, Release
<1> QED  BY <1>1, <1>2, <1>3, <1>4, <1>5, <1>6, <1>7, <1>8, <1>9, <1>10

\* A frame that moves beside another of its thread has interrupted it.
LEMMA Interrupts ==
  ASSUME NEW f \in Frames, NEW g \in Frames, f # g, Thread(f) = Thread(g), Runs(f), pc[g] # "idle"
  PROVE  f = Nested(g) /\ f[2] = "nested" /\ g[2] = "base"
<1>1. /\ f = <<f[1], f[2]>> /\ g = <<g[1], g[2]>>
      /\ f[2] \in {"base", "nested"} /\ g[2] \in {"base", "nested"} /\ f[1] = g[1]
  BY DEF Frames, Levels, Thread
<1>2. f[2] # g[2]
  BY <1>1
<1>3. CASE f[2] = "base"
  BY <1>1, <1>2, <1>3 DEF Runs, Nested
<1>4. CASE f[2] = "nested"
  BY <1>1, <1>2, <1>4 DEF Nested
<1> QED  BY <1>1, <1>3, <1>4

\* A frame that carries an item carries one of the kind its code path is for.
LEMMA HandStep ==
  ASSUME TypeOK, InHand, NEW f \in Frames, Start(f) \/ Continue(f) \/ Export(f)
  PROVE  /\ item' \in [Frames -> Items \cup {Nothing}] /\ jobs' \subseteq Spans
         /\ \A g \in Frames : g # f => item'[g] = item[g]
         /\ InHand'
<1>1. \A g \in Frames : g # f => pc'[g] = pc[g]
  BY PcMoves
<1>2. item' \in [Frames -> Items \cup {Nothing}] /\ \A g \in Frames : g # f => item'[g] = item[g]
  <2>1. item' = item \/ ItemBy(f)
    BY WhatChanges
  <2> QED  BY ZenonT(200), <2>1 DEF ItemBy, TypeOK, Capture, CaptureDeferred, Submit, Parse,
      ParseJob, Admit,
                       Admitted, Append1, Items
<1>3. jobs' \subseteq Spans
  <2>1. jobs' = jobs \/ JobsBy(f)
    BY WhatChanges
  <2> QED  BY <2>1 DEF JobsBy, TypeOK, InHand, CarriesSpan, Submit, Parse, ParseJob, At
<1>4. pc'[f] \in CarriesSpan => item'[f] \in Spans
  <2>1. pc'[f] \in {"admit", "submit", "enter"} => ItemBy(f)
    BY WhereTo DEF ItemBy
  <2>2. pc'[f] \in {"admit", "submit", "enter"} => item'[f] \in Spans
    <3>1. CASE \E i \in Items : Capture(f, i)
      BY <3>1 DEF TypeOK, Capture, Goto, MayCall
    <3>2. CASE (\E i \in Spans : CaptureDeferred(f, i)) \/ Submit(f)
      BY <3>2 DEF TypeOK, InHand, CarriesSpan, CaptureDeferred, Submit, At, Goto, MayCall
    <3>3. CASE \E i \in Spans : Parse(f, i) \/ ParseJob(f, i)
      BY <3>3 DEF TypeOK, Parse, ParseJob
    <3>4. CASE Admit(f) \/ Append1(f)
      BY <3>4 DEF TypeOK, InHand, CarriesSpan, Admit, Admitted, Append1, At, Goto
    <3> QED  BY <2>1, <3>1, <3>2, <3>3, <3>4 DEF ItemBy
  <2>3. pc'[f] \in {"room", "evict"} => EnterBuffer(f) \/ Room(f) \/ Evict(f)
    BY WhereTo
  <2>4. pc'[f] \in {"room", "evict"} => item'[f] \in Spans
    BY <2>3 DEF InHand, CarriesSpan, EnterBuffer, Evict, Room, At
  <2> QED  BY <2>2, <2>4 DEF CarriesSpan
<1>5. pc'[f] \in CarriesSnapshot => item'[f] \in Snapshots
  <2>1. pc'[f] \in CarriesSnapshot =>
          (\E i \in Items : Capture(f, i)) \/ EnterSnapshot(f) \/ PopSnapshot(f)
    BY WhereTo DEF CarriesSnapshot
  <2> QED  BY ZenonT(200), <2>1 DEF TypeOK, InHand, CarriesSnapshot, Capture, EnterSnapshot,
      PopSnapshot, At,
                       Goto, MayCall, Items
<1>6. pc'[f] = "append" => item'[f] \in Items
  <2>1. pc'[f] = "append" => Room(f) \/ EnterSnapshot(f) \/ CountSnapshot(f)
    BY WhereTo
  <2> QED  BY <2>1 DEF InHand, CarriesSpan, CarriesSnapshot, Room, EnterSnapshot, CountSnapshot,
                       At, Items
<1> QED  BY <1>1, <1>2, <1>3, <1>4, <1>5, <1>6 DEF InHand

\* The buffer lock is entered only when no other thread is inside.
LEMMA LockStep ==
  ASSUME TypeOK, BufferOwned, NEW f \in Frames, Start(f) \/ Continue(f) \/ Export(f)
  PROVE  BufferOwned'
<1>1. \A g \in Frames : g # f => pc'[g] = pc[g]
  BY PcMoves
<1>2. InBuffer(f)' => InBuffer(f) \/ CanTakeBuffer(f)
  <2>1. InBuffer(f)' => \/ EnterBuffer(f) \/ Evict(f) \/ Room(f)
                        \/ EnterSnapshot(f) \/ PopSnapshot(f) \/ CountSnapshot(f)
                        \/ Undelivered(f) \/ GiveBack(f) \/ Prepend(f)
                        \/ Swap(f) \/ TakeSpans(f) \/ Abandon(f) \/ LeaveSpans(f)
    BY WhereTo DEF InBuffer
  <2> QED  BY <2>1 DEF InBuffer, EnterBuffer, Evict, Room, EnterSnapshot, PopSnapshot,
                       CountSnapshot, Undelivered, GiveBack, Prepend, Swap, TakeSpans, Abandon,
                       LeaveSpans, At
<1> QED  BY <1>1, <1>2 DEF BufferOwned, InBuffer, CanTakeBuffer

\* Only a drain that took a batch holds one, has evictions to report, or gives it back.
LEMMA DrainStep ==
  ASSUME TypeOK, GivesBack, Empties, Cuts, NEW f \in Frames, Start(f) \/ Continue(f) \/ Export(f)
  PROVE  GivesBack' /\ Empties' /\ Cuts'
<1>1. \A g \in Frames : g # f => pc'[g] = pc[g]
  BY PcMoves
<1>2. \A g \in Frames : g # f => batch'[g] = batch[g]
  <2>1. batch' = batch \/ BatchBy(f)
    BY WhatChanges
  <2> QED  BY <2>1 DEF BatchBy, TakenBy, TypeOK, TakeSpans, TakeStates, Take, HookDrops, ExportDelivers, ExportFails,
                       Undelivered, GiveBack, Prepend, GivenBack, Disposed, WithoutNext
<1>3. cut' = cut \/ CutBy(f)
  BY WhatChanges
<1>4. \A g \in Frames : g # f => cut'[g] = cut[g]
  BY <1>3 DEF CutBy, TypeOK, TakeStates, Release
<1>5. pc'[f] = "prepend" => batch'[f] # Empty
  <2>1. pc'[f] = "prepend" => Undelivered(f) \/ GiveBack(f) \/ Prepend(f)
    BY WhereTo
  <2> QED  BY <2>1 DEF Undelivered, GiveBack, Prepend, Goto, TypeOK, At, Disposed
<1> DEFINE Drains == {"hook", "export", "undelivered", "giveBack", "prepend", "release"}
<1>6. pc'[f] \notin Drains => cut'[f] = 0
  <2>1. CASE Release(f)
    BY <2>1 DEF Release, TypeOK
  <2>2. CASE TakeStates(f)
    BY <2>2 DEF TakeStates, Goto, TypeOK
  <2>3. CASE cut' = cut /\ pc[f] \notin Drains
    BY <2>3 DEF Cuts
  <2>4. CASE ~ Release(f) /\ pc[f] \in Drains
    <3>1. \/ HookReturns(f) \/ HookDrops(f) \/ Export(f) \/ Undelivered(f)
          \/ GiveBack(f) \/ GivenBack(f) \/ Prepend(f)
      BY <2>4, WhereFrom DEF Export
    <3> QED  BY <3>1 DEF Export, HookReturns, HookDrops, ExportDelivers, ExportFails,
                         ExportDeclines, Undelivered, GiveBack, GivenBack, Prepend, Disposed,
                         Goto, At, TypeOK
  <2> QED  BY <2>1, <2>2, <2>3, <2>4, <1>3 DEF CutBy
<1> DEFINE Holders == {"states", "hook", "export", "undelivered", "giveBack", "prepend"}
<1>7. pc'[f] \notin Holders => batch'[f] = Empty
  <2>1. batch' = batch \/ BatchBy(f)
    BY WhatChanges
  <2>2. CASE TakeSpans(f)
    BY <2>2 DEF TakeSpans, Goto, TypeOK
  <2>3. CASE TakeStates(f)
    BY <2>3 DEF TakeStates, Goto, TypeOK
  <2>4. CASE batch' = batch /\ pc[f] \notin Holders
    BY <2>4 DEF Empties
  <2>5. CASE ~ TakeStates(f) /\ pc[f] \in Holders
    <3>1. \/ HookReturns(f) \/ HookDrops(f) \/ Export(f) \/ Undelivered(f)
          \/ GiveBack(f) \/ GivenBack(f) \/ Prepend(f)
      BY <2>5, WhereFrom DEF Export
    <3> QED  BY <3>1 DEF Export, HookReturns, HookDrops, ExportDelivers, ExportFails,
                         ExportDeclines, Undelivered, GiveBack, GivenBack, Prepend, Disposed,
                         Goto, At, TypeOK
  <2>6. CASE BatchBy(f) /\ ~ TakeSpans(f) /\ ~ TakeStates(f)
    <3>1. pc[f] \in Holders
      BY <2>6 DEF BatchBy, TakenBy, HookDrops, ExportDelivers, ExportFails, Undelivered, GiveBack,
                  Prepend, GivenBack, At
    <3> QED  BY <2>5, <2>6, <3>1
  <2> QED  BY <2>1, <2>2, <2>3, <2>4, <2>5, <2>6
<1> QED  BY <1>1, <1>2, <1>4, <1>5, <1>6, <1>7 DEF GivesBack, Empties, Cuts

-----------------------------------------------------------------------------
(* What a frame refers to, and what it finds there.                        *)

\* What is stored by a drain or by _abandon, from where, and what stays.
LEMMA StoreStep ==
  ASSUME NEW f \in Frames
  PROVE  /\ StoreBy(f) <=> \E k \in Kinds : Stores(f, k)
         /\ TakenBy(f) <=> \E k \in Kinds : Takes(f, k)
         /\ \A k \in Kinds : Stores(f, k) =>
              /\ Store(f, k)
              /\ pc[f] \in (IF k = "span" THEN {"spans", "leaveSpans"} ELSE {"states", "leaveStates"})
              /\ InBuffer(f)
              /\ jobs' = jobs /\ item' = item /\ captured' = captured /\ wire' = wire
         /\ \A k \in Kinds : Takes(f, k) =>
              /\ Stores(f, k) /\ Take(f, k)
              /\ pc[f] = (IF k = "span" THEN "spans" ELSE "states")
<1>1. Kinds = {"span", "snapshot"}
  BY DEF Kinds
<1>2. StoreBy(f) <=> Stores(f, "span") \/ Stores(f, "snapshot")
  BY DEF StoreBy, TakenBy, Stores
<1>3. TakenBy(f) <=> Takes(f, "span") \/ Takes(f, "snapshot")
  BY DEF TakenBy, Takes
<1>4. Stores(f, "span") =>
        /\ Store(f, "span") /\ pc[f] \in {"spans", "leaveSpans"} /\ InBuffer(f)
        /\ jobs' = jobs /\ item' = item /\ captured' = captured /\ wire' = wire
  BY DEF Stores, TakeSpans, LeaveSpans, Take, At, InBuffer, outcomes
<1>5. Stores(f, "snapshot") =>
        /\ Store(f, "snapshot") /\ pc[f] \in {"states", "leaveStates"} /\ InBuffer(f)
        /\ jobs' = jobs /\ item' = item /\ captured' = captured /\ wire' = wire
  BY DEF Stores, TakeStates, LeaveStates, Take, At, InBuffer, outcomes
<1>6. Takes(f, "span") => Stores(f, "span") /\ Take(f, "span") /\ pc[f] = "spans"
  BY DEF Takes, Stores, TakeSpans, At
<1>7. Takes(f, "snapshot") =>
        Stores(f, "snapshot") /\ Take(f, "snapshot") /\ pc[f] = "states"
  BY DEF Takes, Stores, TakeStates, At
<1> QED  BY <1>1, <1>2, <1>3, <1>4, <1>5, <1>6, <1>7

\* A frame that runs is not waiting for a nested one to refill its buffer.
LEMMA Finds ==
  ASSUME OldestIsThere, NEW f \in Frames
  PROVE  /\ Evict(f) => IF old[f].stale THEN old[f].items # <<>> ELSE buf["span"] # <<>>
         /\ PopSnapshot(f) /\ ~ old[f].stale => buf["snapshot"] # <<>>
<1>1. ASSUME Runs(f), NEW labels, "idle" \notin labels, NEW kind  PROVE ~ Refills(f, labels, kind)
  BY <1>1 DEF Runs, Refills
<1>2. Evict(f) => IF old[f].stale THEN old[f].items # <<>> ELSE buf["span"] # <<>>
  BY <1>1 DEF Evict, At, OldestIsThere
<1>3. PopSnapshot(f) /\ ~ old[f].stale => buf["snapshot"] # <<>>
  BY <1>1 DEF PopSnapshot, At, OldestIsThere
<1> QED  BY <1>2, <1>3

\* What a frame is about to evict or has taken stays true as it steps.
LEMMA OldStep ==
  ASSUME TypeOK, AllFiled, NestedLive, OldestIsThere,
         NEW f \in Frames, Start(f) \/ Continue(f) \/ Export(f)
  PROVE  /\ old' \in [Frames -> [stale : BOOLEAN, items : Seq(Items)]]
         /\ NestedLive'
         /\ \A g \in Frames : g # f => old'[g] = old[g] \/ StoreBy(f)
<1>1. old' = old \/ OldBy(f)
  BY WhatChanges
<1>2. Runs(f)
  BY PcMoves
<1>3. buf["span"] \in Seq(Items) /\ buf["snapshot"] \in Seq(Items) /\ <<>> \in Seq(Items)
  BY DEF AllFiled, Filed, Kinds
<1>4. PopSnapshot(f) /\ ~ old[f].stale => Head(buf["snapshot"]) \in Items
  BY <1>3, Finds, OnceTail
<1>5. CASE StoreBy(f)
  <2>0. PICK k \in Kinds : Orphan(f, k)
    BY <1>5, StoreStep DEF Store
  <2>1. old' \in [Frames -> [stale : BOOLEAN, items : Seq(Items)]]
    <3>1. Live \in [stale : BOOLEAN, items : Seq(Items)] /\ buf[k] \in Seq(Items)
      BY <1>3 DEF Live, Kinds
    <3> QED  BY <3>1, <2>0 DEF Orphan, TypeOK
  <2>2. ASSUME NEW g \in Frames, g[2] = "nested"  PROVE ~ old'[g].stale
    <3>1. CASE g # f /\ Thread(g) = Thread(f) /\ Holds(g, k)
      <4>1. pc[g] # "idle"
        BY <3>1 DEF Holds
      <4> QED  BY <3>1, <4>1, <1>2, <2>2, Interrupts
    <3>2. CASE ~ (g # f /\ Thread(g) = Thread(f) /\ Holds(g, k))
      BY <3>2, <2>0, <2>2 DEF Orphan, NestedLive, Live
    <3> QED  BY <3>1, <3>2
  <2> QED  BY <2>1, <2>2, <1>5 DEF NestedLive
<1>6. CASE old' = old
  BY <1>6 DEF TypeOK, NestedLive
<1>7. CASE Room(f) \/ EnterSnapshot(f) \/ CountSnapshot(f) \/ GiveBack(f) \/ Swap(f) \/ Abandon(f)
  <2>1. old' = [old EXCEPT ![f] = [stale |-> FALSE, items |-> <<>>]]
    BY <1>7 DEF Room, EnterSnapshot, CountSnapshot, GiveBack, Swap, Abandon, Live
  <2> QED  BY ONLY <2>1, <1>3, TypeOK, NestedLive, f \in Frames DEF TypeOK, NestedLive
<1>8. CASE PopSnapshot(f)
  <2>1. PICK s \in Seq(Items) : old' = [old EXCEPT ![f].items = s]
    <3>1. CASE old[f].stale
      BY <3>1, <1>3, <1>8 DEF PopSnapshot
    <3>2. CASE ~ old[f].stale
      <4>1. <<Head(buf["snapshot"])>> \in Seq(Items)
        BY <3>2, <1>4, <1>8
      <4> QED  BY <4>1, <3>2, <1>8 DEF PopSnapshot
    <3> QED  BY <3>1, <3>2
  <2>2. old[f] \in [stale : BOOLEAN, items : Seq(Items)]
    BY DEF TypeOK
  <2>3. [old[f] EXCEPT !.items = s] \in [stale : BOOLEAN, items : Seq(Items)]
        /\ [old[f] EXCEPT !.items = s].stale = old[f].stale
    BY <2>2
  <2>4. old' = [old EXCEPT ![f] = [old[f] EXCEPT !.items = s]]
    BY <2>1
  <2> QED  BY ONLY <2>3, <2>4, TypeOK, NestedLive, f \in Frames DEF TypeOK, NestedLive
<1> QED  BY <1>1, <1>5, <1>6, <1>7, <1>8 DEF OldBy

\* A buffer a frame is about to evict from is left with an item, or about to get one.
LEMMA OldestStays ==
  ASSUME TypeOK, InHand, AllFiled, BufferOwned, NestedLive,
         NEW f \in Frames, Start(f) \/ Continue(f) \/ Export(f),
         NEW g \in Frames, g # f, InBuffer(g)
  PROVE  /\ buf["span"] # <<>> \/ Refills(g, {"room", "append"}, Spans)
              => \/ buf'["span"] # <<>> \/ Refills(g, {"room", "append"}, Spans)'
                 \/ Stores(f, "span")
         /\ buf["snapshot"] # <<>> \/ Refills(g, {"count", "append"}, Snapshots)
              => \/ buf'["snapshot"] # <<>> \/ Refills(g, {"count", "append"}, Snapshots)'
                 \/ Stores(f, "snapshot")
<1>1. Runs(f) /\ \A h \in Frames : h # f => pc'[h] = pc[h] /\ item'[h] = item[h]
  BY PcMoves, HandStep
<1>2. buf["span"] \in Seq(Spans) /\ buf["snapshot"] \in Seq(Snapshots) /\ buf \in [Kinds -> Seq(Items)]
  BY DEF AllFiled, Filed
<1>3. buf' = buf \/ Evict(f) \/ Append1(f) \/ PopSnapshot(f) \/ Prepend(f) \/ StoreBy(f)
  BY WhatChanges DEF BufBy
<1>4. CASE f # Nested(g)
  <2>1. Nested(g) \in Frames
    BY DEF Frames, Levels, Nested
  <2>2. Thread(f) # Thread(g)
    BY <1>1, <1>4, Interrupts DEF InBuffer
  <2>3. ~ InBuffer(f)
    BY <2>2 DEF BufferOwned
  <2>4. buf' = buf
    BY <1>3, <2>3, StoreStep DEF Evict, Append1, PopSnapshot, Prepend, At, InBuffer
  <2>5. pc'[Nested(g)] = pc[Nested(g)] /\ item'[Nested(g)] = item[Nested(g)]
    BY <1>1, <1>4, <2>1
  <2> QED  BY <2>4, <2>5 DEF Refills
<1>5. CASE f = Nested(g)
  <2>1. g[2] = "base" /\ f[2] = "nested"
    <3>1. g[2] \in Levels /\ g = <<g[1], g[2]>>
      BY DEF Frames
    <3> QED  BY <3>1, <1>5 DEF Levels, Nested
  <2>2. ~ old[f].stale
    BY <2>1 DEF NestedLive
  <2>3. \A labels, kind : Refills(g, labels, kind) <=> pc[f] \in labels /\ item[f] \in kind
    BY <1>5, <2>1 DEF Refills
  <2>4. \A labels, kind : Refills(g, labels, kind)' <=> pc'[f] \in labels /\ item'[f] \in kind
    BY <1>5, <2>1 DEF Refills
  <2>5. CASE Evict(f)
    <3>1. pc[f] = "evict" /\ pc'[f] = "room" /\ item'[f] = item[f] /\ item[f] \in Spans
      BY <2>5 DEF Evict, At, Goto, TypeOK, InHand, CarriesSpan
    <3>2. buf'["snapshot"] = buf["snapshot"]
      BY <2>2, <2>5, <1>2 DEF Evict, Kinds
    <3> QED  BY <3>1, <3>2, <2>3, <2>4
  <2>6. CASE PopSnapshot(f)
    <3>1. pc[f] = "pop" /\ pc'[f] = "count" /\ item'[f] = item[f] /\ item[f] \in Snapshots
      BY <2>6 DEF PopSnapshot, At, Goto, TypeOK, InHand, CarriesSnapshot
    <3>2. buf'["span"] = buf["span"]
      BY <2>2, <2>6, <1>2 DEF PopSnapshot, Kinds
    <3> QED  BY <3>1, <3>2, <2>3, <2>4
  <2>7. CASE Append1(f)
    <3>1. pc[f] = "append" /\ item[f] \in Items /\ buf' = [buf EXCEPT ![Kind(item[f])] = Append(@, item[f])]
      BY <2>2, <2>7 DEF Append1, At, InHand
    <3>2. CASE item[f] \in Spans
      <4>1. buf'["span"] # <<>> /\ buf'["snapshot"] = buf["snapshot"] /\ item[f] \notin Snapshots
        <5>1. Append(buf["span"], item[f]) # <<>>
          BY <1>2, <3>2, AppendProperties, EmptySeq
        <5> QED  BY <5>1, <3>1, <3>2, <1>2, ClientAssumption DEF Kind, Kinds
      <4> QED  BY <4>1, <2>3
    <3>3. CASE item[f] \notin Spans
      <4>1. buf'["snapshot"] # <<>> /\ buf'["span"] = buf["span"]
        BY <3>1, <3>3, <1>2 DEF Kind, Kinds
      <4> QED  BY <4>1, <3>3, <2>3
    <3> QED  BY <3>2, <3>3
  <2>8. CASE Prepend(f)
    <3>1. pc[f] = "prepend"
      BY <2>8 DEF Prepend, At
    <3>2. \A k \in Kinds : buf[k] # <<>> => buf'[k] # <<>>
      <4>1. buf' = [buf EXCEPT ![Kind(NextBack(f))] = <<NextBack(f)>> \o @]
        BY <2>2, <2>8 DEF Prepend
      <4>2. \A x, s : s \in Seq(Items) => <<x>> \o s # <<>>
        OBVIOUS
      <4> QED  BY <1>2, <4>1, <4>2
    <3> QED  BY <3>1, <3>2, <2>3 DEF Kinds
  <2>9. CASE buf' = buf /\ ~ Append1(f)
    <3>1. pc[f] = "room" => Room(f)
      BY WhereFrom
    <3>2. pc[f] = "count" => CountSnapshot(f)
      BY WhereFrom
    <3>3. pc[f] # "append"
      BY <2>9, WhereFrom
    <3>4. pc[f] = "room" => item'[f] = item[f] /\ (pc'[f] = "append" \/ (item[f] \in Spans => buf["span"] # <<>>))
      BY <3>1, <1>2 DEF Room, Fits, Kind, Goto, TypeOK
    <3>5. pc[f] = "count" => item'[f] = item[f] /\ pc'[f] = "append"
      BY <3>2 DEF CountSnapshot, Goto, TypeOK
    <3> QED  BY <2>3, <2>4, <2>9, <3>3, <3>4, <3>5
  <2>10. CASE StoreBy(f)
    <3>1. PICK k \in Kinds : Stores(f, k)
      BY <2>10, StoreStep
    <3>2. Store(f, k) /\ pc[f] \notin {"room", "append", "count"}
      BY <3>1, StoreStep
    <3>3. \A j \in Kinds : j # k => buf'[j] = buf[j]
      BY <3>2, <1>2 DEF Store
    <3> QED  BY <3>1, <3>2, <3>3, <2>3 DEF Kinds
  <2> QED  BY <1>3, <2>5, <2>6, <2>7, <2>8, <2>9, <2>10
<1> QED  BY <1>4, <1>5

\* Whatever runs in between, a frame that is about to evict finds what it is after.
LEMMA OldestStep ==
  ASSUME TypeOK, InHand, AllFiled, BufferOwned, NestedLive, OldestIsThere,
         NEW f \in Frames, Start(f) \/ Continue(f) \/ Export(f)
  PROVE  OldestIsThere'
<1>0. \A g \in Frames : g # f => old'[g] = old[g] \/ StoreBy(f)
  BY OldStep
<1>1. Runs(f) /\ \A g \in Frames : g # f => pc'[g] = pc[g]
  BY PcMoves
<1>2. buf["span"] \in Seq(Spans) /\ buf["snapshot"] \in Seq(Snapshots) /\ buf \in [Kinds -> Seq(Items)]
  BY DEF AllFiled, Filed
\* The frame that moves.
<1>3. pc'[f] = "evict" => ~ old'[f].stale /\ buf'["span"] # <<>>
  <2>1. pc'[f] = "evict" => Room(f)
    BY WhereTo
  <2> QED  BY <2>1, <1>2 DEF Room, Fits, At, InHand, CarriesSpan, Kind, Goto, Live, TypeOK
<1>4. pc'[f] = "pop" => ~ old'[f].stale /\ buf'["snapshot"] # <<>>
  <2>1. pc'[f] = "pop" => EnterSnapshot(f) \/ PopSnapshot(f)
    BY WhereTo
  <2>2. ASSUME pc'[f] = "pop"  PROVE EnterSnapshot(f) /\ ~ Fits(item[f])
    BY <2>1, <2>2 DEF PopSnapshot, EnterSnapshot, Goto, TypeOK
  <2>3. item[f] \in Snapshots => Kind(item[f]) = "snapshot"
    BY ClientAssumption DEF Kind
  <2> QED  BY <2>2, <2>3, <1>2 DEF EnterSnapshot, Fits, At, InHand, CarriesSnapshot, Live, TypeOK
<1>5. pc'[f] = "count" /\ ~ old'[f].stale => Len(old'[f].items) = 1
  <2>1. pc'[f] = "count" => EnterSnapshot(f) \/ PopSnapshot(f)
    BY WhereTo
  <2>2. ASSUME pc'[f] = "count"  PROVE PopSnapshot(f)
    BY <2>1, <2>2 DEF EnterSnapshot, Goto, TypeOK
  <2>3. ASSUME PopSnapshot(f)
        PROVE  \E s : old' = [old EXCEPT ![f].items = s] /\ (~ old[f].stale => Len(s) = 1)
    <3>1. CASE old[f].stale
      BY <2>3, <3>1 DEF PopSnapshot
    <3>2. CASE ~ old[f].stale
      <4>1. Len(<<Head(buf["snapshot"])>>) = 1
        OBVIOUS
      <4> QED  BY <2>3, <3>2, <4>1 DEF PopSnapshot
    <3> QED  BY <3>1, <3>2
  <2>4. old[f] \in [stale : BOOLEAN, items : Seq(Items)] /\ f \in DOMAIN old
    BY DEF TypeOK
  <2> QED  BY <2>2, <2>3, <2>4
\* A frame it may have interrupted.
<1>6. ASSUME NEW g \in Frames, g # f, pc[g] \in {"evict", "pop", "count"}
      PROVE  /\ pc[g] = "evict" =>
                  IF old'[g].stale THEN old'[g].items # <<>>
                  ELSE buf'["span"] # <<>> \/ Refills(g, {"room", "append"}, Spans)'
             /\ pc[g] = "pop" /\ ~ old'[g].stale =>
                  buf'["snapshot"] # <<>> \/ Refills(g, {"count", "append"}, Snapshots)'
             /\ pc[g] = "count" /\ ~ old'[g].stale => Len(old'[g].items) = 1
  <2>1. InBuffer(g)
    BY <1>6 DEF InBuffer
  <2>2. /\ buf["span"] # <<>> \/ Refills(g, {"room", "append"}, Spans)
             => \/ buf'["span"] # <<>> \/ Refills(g, {"room", "append"}, Spans)'
                \/ Stores(f, "span")
        /\ buf["snapshot"] # <<>> \/ Refills(g, {"count", "append"}, Snapshots)
             => \/ buf'["snapshot"] # <<>> \/ Refills(g, {"count", "append"}, Snapshots)'
                \/ Stores(f, "snapshot")
    BY <1>6, <2>1, OldestStays
  <2>3. CASE StoreBy(f)
    <3>1. PICK k \in Kinds : Stores(f, k)
      BY <2>3, StoreStep
    <3>2. /\ Orphan(f, k) /\ InBuffer(f)
          /\ pc[f] \in (IF k = "span" THEN {"spans", "leaveSpans"} ELSE {"states", "leaveStates"})
      BY <3>1, StoreStep DEF Store
    <3>3. Thread(g) = Thread(f)
      BY <2>1, <3>2 DEF BufferOwned
    <3>4. f = Nested(g)
      BY <1>1, <1>6, <3>3, Interrupts
    <3>5. CASE old[g].stale
      <4>1. old'[g] = old[g]
        BY <1>6, <3>2, <3>5 DEF Orphan
      <4> QED  BY <4>1, <3>5 DEF OldestIsThere
    <3>6. CASE ~ old[g].stale /\ Holds(g, k)
      <4>1. old'[g].stale /\ (pc[g] = "evict" => old'[g].items = buf[k])
        BY <1>6, <3>2, <3>3, <3>6 DEF Orphan
      <4>2. pc[g] = "evict" => k = "span"
        BY <3>6 DEF Holds, Kinds
      <4>3. ~ Refills(g, {"room", "append"}, Spans)
        BY <3>2, <3>4 DEF Refills
      <4> QED  BY <4>1, <4>2, <4>3, <3>6 DEF OldestIsThere
    <3>7. CASE ~ old[g].stale /\ ~ Holds(g, k)
      <4>1. old'[g] = old[g]
        BY <1>6, <3>2, <3>7 DEF Orphan
      <4>2. (pc[g] = "evict" => k = "snapshot") /\ (pc[g] = "pop" => k = "span")
        BY <3>7 DEF Holds, Kinds
      <4>3. (pc[g] = "evict" => ~ Stores(f, "span")) /\ (pc[g] = "pop" => ~ Stores(f, "snapshot"))
        BY <3>2, <4>2, StoreStep DEF Kinds
      <4> QED  BY <2>2, <4>1, <4>3 DEF OldestIsThere
    <3> QED  BY <3>5, <3>6, <3>7
  <2>4. CASE ~ StoreBy(f)
    <3>1. old'[g] = old[g]
      BY <1>0, <1>6, <2>4
    <3>2. ~ Stores(f, "span") /\ ~ Stores(f, "snapshot")
      BY <2>4, StoreStep DEF Kinds
    <3> QED  BY <2>2, <3>1, <3>2 DEF OldestIsThere
  <2> QED  BY <2>3, <2>4
<1> QED  BY <1>1, <1>3, <1>4, <1>5, <1>6 DEF OldestIsThere

-----------------------------------------------------------------------------
(* Where the items are after a step.                                       *)

\* The newest item of the batch leaves it.
LEMMA NextLeaves ==
  ASSUME AllFiled, batch \in [Frames -> [Kinds -> Seq(Items)]], NEW f \in Frames, batch[f] # Empty
  PROVE  /\ NextBack(f) \in InSeqs(batch[f]) /\ NextBack(f) \in Items
         /\ WithoutNext(f) \in [Frames -> [Kinds -> Seq(Items)]]
         /\ \A g \in Frames : g # f => WithoutNext(f)[g] = batch[g]
         /\ Filed(WithoutNext(f)[f])
         /\ InSeqs(WithoutNext(f)[f]) = InSeqs(batch[f]) \ {NextBack(f)}
<1> DEFINE b == batch[f]
           k == IF b["span"] # <<>> THEN "span" ELSE "snapshot"
           c == [b EXCEPT ![k] = Front(@)]
<1>1. Filed(b)
  BY DEF AllFiled
<1>2. b[k] # <<>> /\ k \in Kinds
  <2>1. b \in [Kinds -> Seq(Items)] /\ Empty \in [Kinds -> Seq(Items)] /\ \A j \in Kinds : Empty[j] = <<>>
    BY DEF Empty
  <2>2. \E j \in Kinds : b[j] # <<>>
    BY <2>1
  <2> QED  BY <2>2 DEF Kinds
<1>3. NextBack(f) = Last(b[k])
  BY DEF NextBack
<1>4. NextBack(f) \in InSeqs(b) /\ Kind(NextBack(f)) = k /\ Filed(c) /\ InSeqs(c) = InSeqs(b) \ {NextBack(f)}
  <2>1. \A j \in Kinds : b[j] # <<>> =>
          /\ Last(b[j]) \in InSeqs(b) /\ Kind(Last(b[j])) = j
          /\ Filed([b EXCEPT ![j] = Front(@)])
          /\ InSeqs([b EXCEPT ![j] = Front(@)]) = InSeqs(b) \ {Last(b[j])}
    BY <1>1, FiledWithout
  <2> HIDE DEF k
  <2> QED  BY <1>2, <1>3, <2>1
<1>5. WithoutNext(f) = [batch EXCEPT ![f] = c]
  BY <1>4 DEF WithoutNext
<1>6. NextBack(f) \in Items
  BY <1>1, <1>4, FiledApart
<1>7. c \in [Kinds -> Seq(Items)]
  BY <1>4 DEF Filed
<1> HIDE DEF c, k
<1> QED  BY <1>4, <1>5, <1>6, <1>7

\* The oldest item of a kind leaves the buffer.
LEMMA OldestLeaves ==
  ASSUME AllFiled, NEW k \in Kinds, buf[k] # <<>>, buf' = [buf EXCEPT ![k] = Tail(@)]
  PROVE  Head(buf[k]) \in InSeqs(buf) /\ Filed(buf') /\ InSeqs(buf') = InSeqs(buf) \ {Head(buf[k])}
  BY FiledWithout DEF AllFiled

\* The items of a kind are replaced, by none or by what a drain took.
LEMMA FiledInstead ==
  ASSUME NEW b, Filed(b), NEW k \in Kinds, NEW r \in Seq(KindsOf(k)), Once(r)
  PROVE  LET c == [b EXCEPT ![k] = r]
         IN  /\ Filed(c) /\ InSeqs(c) \subseteq InSeqs(b) \cup ToSet(r)
             /\ r = <<>> => InSeqs(c) \subseteq InSeqs(b) /\ InSeqs(c) \cap KindsOf(k) = {}
<1> DEFINE c == [b EXCEPT ![k] = r]
<1>1. /\ b \in [Kinds -> Seq(Items)] /\ b["span"] \in Seq(Spans) /\ b["snapshot"] \in Seq(Snapshots)
      /\ \A j \in Kinds : Once(b[j])
  BY DEF Filed
<1>2. r \in Seq(Items) /\ (r = <<>> => ToSet(r) = {})
  BY OnceEmpty DEF KindsOf, Items
<1>3. ToSet(b["span"]) \subseteq Spans /\ ToSet(b["snapshot"]) \subseteq Snapshots
  BY FiledApart
<1>4. CASE k = "span"
  <2>1. c["span"] = r /\ c["snapshot"] = b["snapshot"] /\ KindsOf(k) = Spans /\ c \in [Kinds -> Seq(Items)]
    BY <1>1, <1>2, <1>4 DEF Kinds, KindsOf
  <2> HIDE DEF c
  <2>2. Filed(c)
    BY <1>1, <2>1 DEF Filed, Kinds
  <2> QED  BY <1>2, <1>3, <2>1, <2>2, ClientAssumption DEF InSeqs, c
<1>5. CASE k = "snapshot"
  <2>1. c["snapshot"] = r /\ c["span"] = b["span"] /\ KindsOf(k) = Snapshots /\ c \in [Kinds -> Seq(Items)]
    BY <1>1, <1>2, <1>5 DEF Kinds, KindsOf
  <2> HIDE DEF c
  <2>2. Filed(c)
    BY <1>1, <2>1 DEF Filed, Kinds
  <2> QED  BY <1>2, <1>3, <2>1, <2>2, ClientAssumption DEF InSeqs, c
<1> QED  BY <1>4, <1>5 DEF Kinds

\* What a drain takes: what is buffered, or what it read before a nested drain took it.
LEMMA TakenIs ==
  ASSUME AllFiled, Reread, NEW f \in Frames, NEW k \in Kinds, Takes(f, k)
  PROVE  /\ Taken(f, k) \in Seq(KindsOf(k)) /\ Once(Taken(f, k))
         /\ IF old[f].stale THEN Rereads(f, k) /\ Taken(f, k) = old[f].items
                            ELSE Taken(f, k) = buf[k]
<1>1. pc[f] = (IF k = "span" THEN "spans" ELSE "states")
  BY StoreStep
<1>2. CASE old[f].stale
  <2>1. Rereads(f, k)
    BY <1>1, <1>2 DEF Reread, Kinds
  <2> QED  BY <1>2, <2>1 DEF Rereads, Taken
<1>3. CASE ~ old[f].stale
  <2>1. buf[k] \in Seq(KindsOf(k)) /\ Once(buf[k])
    BY DEF AllFiled, Filed, KindsOf, Kinds
  <2> QED  BY <1>3, <2>1 DEF Taken
<1> QED  BY <1>2, <1>3

\* What each action makes of the buffer.
LEMMA BufAfter ==
  ASSUME TypeOK, InHand, AllFiled, OldestIsThere, GivesBack, Apart,
         NEW f \in Frames, Start(f) \/ Continue(f) \/ Export(f)
  PROVE  /\ Filed(buf')
         /\ Evict(f) \/ PopSnapshot(f) => InSeqs(buf') \subseteq InSeqs(buf)
         /\ Append1(f) => InSeqs(buf') \subseteq InSeqs(buf) \cup {item[f]}
         /\ Prepend(f) => InSeqs(buf') \subseteq InSeqs(buf) \cup {NextBack(f)}
         /\ StoreBy(f) => InSeqs(buf') \subseteq InSeqs(buf)
         /\ \A k \in Kinds : Stores(f, k) => InSeqs(buf') \cap KindsOf(k) = {}
<1>1. buf' = buf \/ BufBy(f)
  BY WhatChanges
<1>2. Filed(buf) /\ "span" \in Kinds /\ "snapshot" \in Kinds
  BY DEF AllFiled, Kinds
<1>3. ASSUME Evict(f)  PROVE Filed(buf') /\ InSeqs(buf') \subseteq InSeqs(buf)
  <2>1. CASE old[f].stale
    BY <1>2, <1>3, <2>1 DEF Evict
  <2>2. CASE ~ old[f].stale
    <3>1. buf["span"] # <<>> /\ buf' = [buf EXCEPT !["span"] = Tail(@)]
      BY <1>3, <2>2, Finds DEF Evict
    <3> QED  BY <1>2, <3>1, OldestLeaves
  <2> QED  BY <2>1, <2>2
<1>4. ASSUME PopSnapshot(f)  PROVE Filed(buf') /\ InSeqs(buf') \subseteq InSeqs(buf)
  <2>1. CASE old[f].stale
    BY <1>2, <1>4, <2>1 DEF PopSnapshot
  <2>2. CASE ~ old[f].stale
    <3>1. buf["snapshot"] # <<>> /\ buf' = [buf EXCEPT !["snapshot"] = Tail(@)]
      BY <1>4, <2>2, Finds DEF PopSnapshot
    <3> QED  BY <1>2, <3>1, OldestLeaves
  <2> QED  BY <2>1, <2>2
<1>5. ASSUME Append1(f)  PROVE Filed(buf') /\ InSeqs(buf') \subseteq InSeqs(buf) \cup {item[f]}
  <2>1. CASE old[f].stale
    BY <1>2, <1>5, <2>1 DEF Append1
  <2>2. CASE ~ old[f].stale
    <3>1. item[f] \in Items /\ item[f] \notin InSeqs(buf)
      BY <1>5 DEF Append1, At, InHand, Apart
    <3>2. buf' = [buf EXCEPT ![Kind(item[f])] = Append(@, item[f])]
      BY <1>5, <2>2 DEF Append1
    <3> QED  BY <1>2, <3>1, <3>2, FiledWith
  <2> QED  BY <2>1, <2>2
<1>6. ASSUME Prepend(f)  PROVE Filed(buf') /\ InSeqs(buf') \subseteq InSeqs(buf) \cup {NextBack(f)}
  <2>1. CASE old[f].stale
    BY <1>2, <1>6, <2>1 DEF Prepend
  <2>2. CASE ~ old[f].stale
    <3>1. NextBack(f) \in Items /\ NextBack(f) \in InSeqs(batch[f])
      BY <1>6, NextLeaves DEF Prepend, At, GivesBack, TypeOK
    <3>2. NextBack(f) \notin InSeqs(buf)
      BY <3>1 DEF Apart
    <3>3. buf' = [buf EXCEPT ![Kind(NextBack(f))] = <<NextBack(f)>> \o @]
      BY <1>6, <2>2 DEF Prepend
    <3> QED  BY <1>2, <3>1, <3>2, <3>3, FiledWith
  <2> QED  BY <2>1, <2>2
<1>7. ASSUME NEW k \in Kinds, Stores(f, k)
      PROVE  Filed(buf') /\ InSeqs(buf') \subseteq InSeqs(buf) /\ InSeqs(buf') \cap KindsOf(k) = {}
  <2>1. buf' = [buf EXCEPT ![k] = <<>>]
    BY <1>7, StoreStep DEF Store
  <2>2. <<>> \in Seq(KindsOf(k)) /\ Once(<<>>)
    BY OnceEmpty
  <2> QED  BY <1>2, <2>1, <2>2, FiledInstead
<1>8. StoreBy(f) <=> \E k \in Kinds : Stores(f, k)
  BY StoreStep
<1> QED  BY <1>1, <1>2, <1>3, <1>4, <1>5, <1>6, <1>7, <1>8 DEF BufBy

\* What each action makes of the batches.
LEMMA BatchAfter ==
  ASSUME TypeOK, AllFiled, GivesBack, Reread,
         NEW f \in Frames, Start(f) \/ Continue(f) \/ Export(f)
  PROVE  /\ batch' \in [Frames -> [Kinds -> Seq(Items)]]
         /\ \A g \in Frames : Filed(batch'[g])
         /\ \A g \in Frames : g # f => batch'[g] = batch[g]
         /\ \A k \in Kinds : Takes(f, k) =>
              InSeqs(batch'[f]) \subseteq InSeqs(batch[f]) \cup ToSet(Taken(f, k))
         /\ ~ TakenBy(f) => InSeqs(batch'[f]) \subseteq InSeqs(batch[f])
         /\ ExportDelivers(f) => InSeqs(batch'[f]) = {}
         /\ Prepend(f) => NextBack(f) \in InSeqs(batch[f]) /\ NextBack(f) \notin InSeqs(batch'[f])
<1>1. batch' = batch \/ BatchBy(f)
  BY WhatChanges
<1>2. Filed(Empty) /\ InSeqs(Empty) = {} /\ Empty \in [Kinds -> Seq(Items)]
  BY FiledEmpty DEF Filed
<1>3. batch \in [Frames -> [Kinds -> Seq(Items)]] /\ \A g \in Frames : Filed(batch[g])
  BY DEF TypeOK, AllFiled
<1>0. TakenBy(f) <=> \E k \in Kinds : Takes(f, k)
  BY StoreStep
<1>4. CASE batch' = batch /\ ~ TakenBy(f) /\ ~ ExportDelivers(f) /\ ~ Prepend(f)
  BY <1>0, <1>3, <1>4
<1>5. CASE TakenBy(f)
  <2>1. PICK k \in Kinds : Takes(f, k)
    BY <1>5, <1>0
  <2>2. /\ pc[f] = (IF k = "span" THEN "spans" ELSE "states")
        /\ \A j \in Kinds : Takes(f, j) => pc[f] = (IF j = "span" THEN "spans" ELSE "states")
    BY <2>1, StoreStep
  <2>3. \A j \in Kinds : Takes(f, j) => j = k
    BY <2>2 DEF Kinds
  <2>4. ~ ExportDelivers(f) /\ ~ Prepend(f)
    BY <2>2 DEF ExportDelivers, Prepend, At
  <2>5. Take(f, k)
    BY <2>1, StoreStep
  <2> DEFINE c == [batch[f] EXCEPT ![k] = Taken(f, k)]
  <2>6. Taken(f, k) \in Seq(KindsOf(k)) /\ Once(Taken(f, k))
    BY <2>1, TakenIs
  <2>7. Filed(c) /\ InSeqs(c) \subseteq InSeqs(batch[f]) \cup ToSet(Taken(f, k))
    BY <1>3, <2>6, FiledInstead
  <2>8. c \in [Kinds -> Seq(Items)]
    BY <2>7 DEF Filed
  <2>9. batch' = [batch EXCEPT ![f] = c]
    BY <2>5 DEF Take
  <2> HIDE DEF c
  <2> QED  BY <1>3, <1>5, <2>3, <2>4, <2>7, <2>8, <2>9
<1>6. ASSUME batch' = [batch EXCEPT ![f] = Empty], ~ TakenBy(f), ~ Prepend(f)
      PROVE  /\ batch' \in [Frames -> [Kinds -> Seq(Items)]]
             /\ \A g \in Frames : Filed(batch'[g])
             /\ \A g \in Frames : g # f => batch'[g] = batch[g]
             /\ InSeqs(batch'[f]) = {}
  BY <1>2, <1>3, <1>6
<1>11. TakenBy(f) => pc[f] \in {"spans", "states"}
  BY DEF TakenBy, TakeSpans, TakeStates, At
<1>7. CASE HookDrops(f) \/ ExportDelivers(f) \/ ExportFails(f) \/ GivenBack(f)
  <2>1. batch' = [batch EXCEPT ![f] = Empty] /\ ~ TakenBy(f) /\ ~ Prepend(f)
    BY <1>7, <1>11 DEF HookDrops, ExportDelivers, ExportFails, GivenBack, Disposed, Prepend, At
  <2> QED  BY <1>0, <1>6, <2>1
<1>8. CASE Undelivered(f)
  <2>1. /\ batch' = [batch EXCEPT ![f] = Empty] \/ batch' = batch
        /\ ~ TakenBy(f) /\ ~ Prepend(f) /\ ~ ExportDelivers(f)
    BY <1>8, <1>11 DEF Undelivered, Disposed, Prepend, ExportDelivers, At
  <2> QED  BY <1>0, <1>4, <1>6, <2>1
<1>9. CASE GiveBack(f)
  <2>1. /\ batch' = WithoutNext(f) \/ batch' = batch
        /\ batch[f] # Empty /\ ~ TakenBy(f) /\ ~ Prepend(f) /\ ~ ExportDelivers(f)
    BY <1>9, <1>11 DEF GiveBack, Prepend, ExportDelivers, At
  <2> QED  BY <1>0, <1>3, <1>4, <2>1, NextLeaves
<1>10. CASE Prepend(f)
  <2>1. /\ batch' = WithoutNext(f) /\ batch[f] # Empty /\ ~ TakenBy(f) /\ ~ ExportDelivers(f)
    BY <1>10, <1>11 DEF Prepend, GivesBack, ExportDelivers, At
  <2> QED  BY <1>0, <1>3, <2>1, NextLeaves
<1> QED  BY <1>1, <1>4, <1>5, <1>7, <1>8, <1>9, <1>10 DEF BatchBy

\* What a filter may leave of a sequence is part of it.
LEMMA SubsequenceOf ==
  ASSUME NEW S, NEW s \in Seq(S), NEW r \in Subsequences(s)
  PROVE  r \in Seq(S) /\ ToSet(r) \subseteq ToSet(s) /\ (Once(s) => Once(r))
<1>0. PICK n \in 0 .. Len(s) : \E p \in Picks(n, Len(s)) : r = [j \in 1 .. n |-> s[p[j]]]
  BY DEF Subsequences
<1>1. PICK p \in Picks(n, Len(s)) : r = [j \in 1 .. n |-> s[p[j]]]
  BY <1>0
<1>2. Len(s) \in Nat /\ n \in Nat /\ DOMAIN s = 1 .. Len(s)
  BY LenProperties
<1>3. p \in [1 .. n -> 1 .. Len(s)] /\ \A a, b \in 1 .. n : a < b => p[a] < p[b]
  BY DEF Picks
<1>4. r \in Seq(S) /\ DOMAIN r = 1 .. n
  <2>1. \A j \in 1 .. n : s[p[j]] \in S
    BY <1>2, <1>3
  <2>2. r \in [1 .. n -> S]
    BY <1>1, <2>1
  <2> QED  BY <1>2, <2>2
<1>5. ToSet(r) \subseteq ToSet(s)
  BY <1>1, <1>2, <1>3, <1>4 DEF ToSet
<1>6. ASSUME Once(s)  PROVE Once(r)
  <2> SUFFICES ASSUME NEW a \in 1 .. n, NEW b \in 1 .. n, r[a] = r[b]  PROVE a = b
    BY <1>4 DEF Once
  <2>1. p[a] \in DOMAIN s /\ p[b] \in DOMAIN s /\ s[p[a]] = s[p[b]]
    BY <1>1, <1>2, <1>3
  <2>2. p[a] = p[b]
    BY <1>6, <2>1 DEF Once
  <2>3. ~ a < b /\ ~ b < a
    BY <1>2, <1>3, <2>1, <2>2
  <2> QED  BY <2>3
<1> QED  BY <1>4, <1>5, <1>6

\* A hook leaves a part of the batch, and nothing else is exported.
LEMMA SentStep ==
  ASSUME TypeOK, AllFiled, GivesBack, Reread, PartOfBatch,
         NEW f \in Frames, Start(f) \/ Continue(f) \/ Export(f)
  PROVE  sent' \in [Frames -> [Kinds -> Seq(Items)]] /\ PartOfBatch'
<1>1. sent' = sent \/ SentBy(f)
  BY WhatChanges
<1>2. Empty \in [Kinds -> Seq(Items)]
  BY DEF Empty
<1>3. ASSUME HookReturns(f)
      PROVE  /\ sent' = [sent EXCEPT ![f] = sent'[f]]
             /\ Filed(sent'[f]) /\ InSeqs(sent'[f]) \subseteq InSeqs(batch'[f])
  <2>1. PICK kept \in Subsequences(batch[f]["span"]), states \in Subsequences(batch[f]["snapshot"]) :
          sent' = [sent EXCEPT ![f] = [k \in Kinds |-> IF k = "span" THEN kept ELSE states]]
    BY <1>3 DEF HookReturns
  <2>2. sent'[f] = [k \in Kinds |-> IF k = "span" THEN kept ELSE states]
    BY <2>1 DEF TypeOK
  <2>3. sent'[f]["span"] = kept /\ sent'[f]["snapshot"] = states
    BY <2>2 DEF Kinds
  <2>4. /\ batch[f]["span"] \in Seq(Spans) /\ batch[f]["snapshot"] \in Seq(Snapshots)
        /\ batch[f]["span"] \in Seq(Items) /\ batch[f]["snapshot"] \in Seq(Items)
        /\ Once(batch[f]["span"]) /\ Once(batch[f]["snapshot"])
    BY DEF AllFiled, Filed, Kinds
  <2>5. kept \in Seq(Spans) /\ kept \in Seq(Items) /\ Once(kept) /\ ToSet(kept) \subseteq ToSet(batch[f]["span"])
    BY <2>4, SubsequenceOf
  <2>6. states \in Seq(Snapshots) /\ states \in Seq(Items) /\ Once(states)
        /\ ToSet(states) \subseteq ToSet(batch[f]["snapshot"])
    BY <2>4, SubsequenceOf
  <2>7. Filed(sent'[f]) /\ InSeqs(sent'[f]) \subseteq InSeqs(batch[f])
    BY <2>2, <2>3, <2>5, <2>6 DEF Filed, InSeqs, Kinds
  <2>8. batch' = batch
    BY <1>3 DEF HookReturns
  <2> QED  BY <2>1, <2>2, <2>7, <2>8
<1>4. sent' \in [Frames -> [Kinds -> Seq(Items)]] /\ \A g \in Frames : g # f => sent'[g] = sent[g]
  <2>1. CASE HookReturns(f)
    BY <2>1, <1>3 DEF Filed, TypeOK
  <2>2. CASE sent' = sent
    BY <2>2 DEF TypeOK
  <2>3. CASE SentBy(f) /\ ~ HookReturns(f)
    <3>1. sent' = [sent EXCEPT ![f] = Empty] \/ sent' = sent
      BY <2>3 DEF SentBy, HookDrops, ExportDelivers, ExportFails, Undelivered,
                  GivenBack, Disposed
    <3> QED  BY <3>1, <1>2, ZenonT(90) DEF TypeOK
  <2> QED  BY <1>1, <2>1, <2>2, <2>3
<1>5. pc'[f] = "export" => HookReturns(f)
  BY WhereTo
<1>6. \A g \in Frames : g # f => pc'[g] = pc[g] /\ batch'[g] = batch[g]
  BY PcMoves, BatchAfter
<1> QED  BY <1>3, <1>4, <1>5, <1>6 DEF PartOfBatch

\* Two sequences that share none but those of X, one after the other.
LEMMA OnceButConcat ==
  ASSUME NEW S, NEW s \in Seq(S), NEW t \in Seq(S), NEW X,
         OnceBut(s, X), OnceBut(t, X), ToSet(s) \cap ToSet(t) \subseteq X
  PROVE  OnceBut(s \o t, X)
<1> DEFINE u == s \o t
<1>1. /\ Len(s) \in Nat /\ Len(t) \in Nat /\ DOMAIN s = 1 .. Len(s) /\ DOMAIN t = 1 .. Len(t)
      /\ DOMAIN u = 1 .. (Len(s) + Len(t))
  OBVIOUS
<1>2. \A n \in DOMAIN u :
        IF n <= Len(s) THEN n \in DOMAIN s /\ u[n] = s[n] /\ u[n] \in ToSet(s)
        ELSE n - Len(s) \in DOMAIN t /\ u[n] = t[n - Len(s)] /\ u[n] \in ToSet(t)
  BY <1>1 DEF ToSet
<1> HIDE DEF u
<1>3. ASSUME NEW a \in DOMAIN u, NEW b \in DOMAIN u, u[a] = u[b], u[a] \notin X  PROVE a = b
  <2>1. a \in Nat /\ b \in Nat
    BY <1>1
  <2>2. a <= Len(s) <=> b <= Len(s)
    BY <1>2, <1>3
  <2>3. CASE a <= Len(s)
    BY <1>2, <1>3, <2>2, <2>3 DEF OnceBut
  <2>4. CASE ~ a <= Len(s)
    <3>1. a - Len(s) = b - Len(s)
      BY <1>2, <1>3, <2>2, <2>4 DEF OnceBut
    <3> QED  BY <1>1, <2>1, <3>1
  <2> QED  BY <2>3, <2>4
<1> QED  BY <1>3 DEF OnceBut, u

\* What was taken twice stays so.
LEMMA ResentGrows ==
  ASSUME NEW f \in Frames, Start(f) \/ Continue(f) \/ Export(f)
  PROVE  /\ resent \subseteq resent'
         /\ TakenBy(f) /\ old[f].stale => ToSet(old[f].items) \subseteq resent'
<1>1. (resent' = resent \/ TakenBy(f)) /\ (TakenBy(f) => \E k \in Kinds : Take(f, k))
  BY WhatChanges, StoreStep DEF ResentBy
<1> QED  BY <1>1 DEF Take

\* What was sent was part of a batch, and but for what was taken twice each item is
\* there once.
LEMMA WireStep ==
  ASSUME TypeOK, AllFiled, PartOfBatch, OnceBut(wire, resent), Apart,
         NEW f \in Frames, Start(f) \/ Continue(f) \/ Export(f)
  PROVE  /\ wire' \in Seq(Items) /\ OnceBut(wire, resent)'
         /\ wire' = wire \/ ExportDelivers(f)
         /\ ToSet(wire') \subseteq ToSet(wire) \cup InSeqs(batch[f])
<1>0. OnceBut(wire', resent) => OnceBut(wire', resent')
  BY ResentGrows DEF OnceBut
<1>1. wire' = wire \/ ExportDelivers(f)
  BY WhatChanges DEF WireBy
<1>2. wire \in Seq(Items)
  BY DEF TypeOK
<1>3. CASE wire' = wire
  BY <1>0, <1>2, <1>3
<1>4. CASE ExportDelivers(f)
  <2> DEFINE r == sent[f]["span"]
             t == sent[f]["snapshot"]
  <2>1. Filed(sent[f]) /\ InSeqs(sent[f]) \subseteq InSeqs(batch[f])
    BY <1>4 DEF ExportDelivers, At, PartOfBatch
  <2>2. r \in Seq(Items) /\ t \in Seq(Items) /\ OnceBut(r, resent) /\ OnceBut(t, resent)
    BY <2>1 DEF Filed, Kinds, Once, OnceBut
  <2>3. ToSet(r) \cap ToSet(t) = {} /\ ToSet(r) \cup ToSet(t) = InSeqs(sent[f])
    BY <2>1, FiledApart DEF InSeqs
  <2>4. InSeqs(batch[f]) \cap ToSet(wire) \subseteq resent
    BY DEF Apart
  <2>5. wire' = (wire \o r) \o t
    BY <1>4 DEF ExportDelivers
  <2> HIDE DEF r, t
  <2> DEFINE u == wire \o r
  <2>6. u \in Seq(Items) /\ ToSet(u) = ToSet(wire) \cup ToSet(r)
    BY <1>2, <2>2, OnceConcat
  <2>7. ToSet(wire) \cap ToSet(r) \subseteq resent /\ ToSet(u) \cap ToSet(t) \subseteq resent
    BY <2>1, <2>3, <2>4, <2>6
  <2>8. OnceBut(u, resent)
    BY <1>2, <2>2, <2>7, OnceButConcat
  <2> HIDE DEF u
  <2>9. u \o t \in Seq(Items) /\ ToSet(u \o t) = ToSet(u) \cup ToSet(t) /\ OnceBut(u \o t, resent)
    BY <2>2, <2>6, <2>7, <2>8, OnceConcat, OnceButConcat
  <2> QED  BY <1>0, <1>4, <2>1, <2>3, <2>5, <2>6, <2>9 DEF u
<1> QED  BY <1>1, <1>3, <1>4

\* What a frame holds after a step it held before, or took from the queue, or is new.
LEMMA HandAfter ==
  ASSUME TypeOK, InHand, Held, Apart, NEW f \in Frames, Start(f) \/ Continue(f) \/ Export(f)
  PROVE  /\ captured \subseteq captured' /\ captured' \subseteq Items
         /\ jobs' \cup ({item'[f]} \ {Nothing})
              \subseteq jobs \cup ({item[f]} \ {Nothing}) \cup (captured' \ captured)
         /\ item'[f] \notin jobs'
         /\ Append1(f) => item'[f] = Nothing /\ jobs' = jobs
<1>1. (item' = item \/ ItemBy(f)) /\ (jobs' = jobs \/ JobsBy(f)) /\ (captured' = captured \/ CapturedBy(f))
  BY WhatChanges
<1>2. /\ Nothing \notin Items /\ Spans \subseteq Items /\ Nothing \notin jobs /\ item[f] \notin jobs
      /\ jobs \subseteq captured /\ captured \subseteq Items /\ jobs \subseteq Spans
  BY ClientAssumption DEF Items, TypeOK, Apart, Held
<1> USE DEF TypeOK
<1>3. CASE \E i \in Items : Capture(f, i)
  <2>1. PICK i \in Items : Capture(f, i)
    BY <1>3
  <2>2. /\ i \notin captured /\ captured' = captured \cup {i} /\ jobs' = jobs
        /\ item'[f] = i \/ item'[f] = item[f]
    BY <2>1 DEF Capture
  <2>3. ~ Append1(f)
    BY <2>1 DEF Capture, MayCall, Append1, At
  <2> QED  BY <1>2, <2>2, <2>3
<1>4. CASE \E i \in Spans : CaptureDeferred(f, i)
  <2>1. PICK i \in Spans : CaptureDeferred(f, i)
    BY <1>4
  <2>2. /\ i \notin captured /\ captured' = captured \cup {i} /\ jobs' = jobs
        /\ item'[f] = i \/ item'[f] = item[f]
    BY <2>1 DEF CaptureDeferred
  <2>3. ~ Append1(f)
    BY <2>1 DEF CaptureDeferred, MayCall, Append1, At
  <2> QED  BY <1>2, <2>2, <2>3
<1>5. CASE Submit(f)
  <2>1. captured' = captured /\ ~ Append1(f) /\ item[f] \in Spans
    BY <1>5 DEF Submit, Append1, At, InHand, CarriesSpan
  <2>2. \/ jobs' = jobs \cup {item[f]} /\ item'[f] = Nothing
        \/ \E j \in jobs : jobs' = (jobs \ {j}) \cup {item[f]} /\ item'[f] = j
        \/ jobs' = jobs /\ item' = item
    BY <1>5 DEF Submit
  <2> QED  BY <1>2, <2>1, <2>2
<1>6. CASE \E i \in Spans : Parse(f, i) \/ ParseJob(f, i)
  <2>1. PICK i \in Spans : Parse(f, i) \/ ParseJob(f, i)
    BY <1>6
  <2>2. captured' = captured /\ i \in jobs /\ jobs' = jobs \ {i} /\ item'[f] = i
    BY <2>1 DEF Parse, ParseJob
  <2>3. ~ Append1(f)
    BY <2>1 DEF Parse, ParseJob, MayCall, Append1, At
  <2> QED  BY <1>2, <2>2, <2>3
<1>7. CASE Admit(f) \/ Append1(f)
  <2>1. /\ captured' = captured /\ jobs' = jobs /\ (item'[f] = Nothing \/ item'[f] = item[f])
        /\ Append1(f) => item'[f] = Nothing
    BY <1>7 DEF Admit, Append1, Admitted
  <2> QED  BY <1>2, <2>1
<1>8. CASE item' = item /\ jobs' = jobs /\ captured' = captured /\ ~ Append1(f)
  BY <1>2, <1>8
<1> QED  BY <1>1, <1>3, <1>4, <1>5, <1>6, <1>7, <1>8 DEF ItemBy, JobsBy, CapturedBy

\* The nested frame of one that runs holds no batch.
LEMMA NestedEmpty ==
  ASSUME Empties, NEW f \in Frames, Runs(f)
  PROVE  \A g \in Frames : g = Nested(f) /\ g # f => batch[g] = Empty
<1>1. f = <<f[1], f[2]>> /\ f[2] \in {"base", "nested"}
  BY DEF Frames, Levels
<1>2. f[2] = "nested" => Nested(f) = f
  BY <1>1 DEF Nested
<1> QED  BY <1>1, <1>2 DEF Runs, Empties

\* What a drain takes a second time is in no hand but the drain's that took it first, which
\* has ended.
LEMMA RereadApart ==
  ASSUME TypeOK, AllFiled, Empties, Reread,
         NEW f \in Frames, Start(f) \/ Continue(f) \/ Export(f), TakenBy(f), old[f].stale
  PROVE  LET R == ToSet(old[f].items)
         IN  /\ R \subseteq captured /\ R \cap jobs = {}
             /\ \A g \in Frames : item[g] \notin R
             /\ \A g \in Frames : g # f => InSeqs(batch[g]) \cap R = {}
<1> DEFINE R == ToSet(old[f].items)
<1>1. PICK k \in Kinds : Takes(f, k)
  BY StoreStep
<1>2. Rereads(f, k)
  BY <1>1, TakenIs
<1>3. \A g \in Frames : g # f => InSeqs(batch[g]) \cap R = {}
  <2>1. \A g \in Frames : g = Nested(f) /\ g # f => InSeqs(batch[g]) = {}
    BY NestedEmpty, PcMoves, FiledEmpty
  <2> QED  BY <1>2, <2>1 DEF Rereads
<1> QED  BY <1>2, <1>3 DEF Rereads

\* An item stays in one place, or goes from one to the next.
LEMMA ApartStep ==
  ASSUME TypeOK, InHand, AllFiled, OldestIsThere, GivesBack, Empties, PartOfBatch, Held, Apart,
         Reread, OnceBut(wire, resent),
         NEW f \in Frames, Start(f) \/ Continue(f) \/ Export(f)
  PROVE  Held' /\ Apart'
<1> DEFINE B  == InSeqs(buf)
           B1 == InSeqs(buf')
           W  == ToSet(wire)
           W1 == ToSet(wire')
           T  == InSeqs(batch[f])
           T1 == InSeqs(batch'[f])
           H  == {item[f]} \ {Nothing}
           H1 == {item'[f]} \ {Nothing}
           New == captured' \ captured
           R  == IF TakenBy(f) /\ old[f].stale THEN ToSet(old[f].items) ELSE {}
<1>1. /\ captured \subseteq captured' /\ captured' \subseteq Items
      /\ jobs' \cup H1 \subseteq jobs \cup H \cup New
      /\ item'[f] \notin jobs'
      /\ Append1(f) => H1 = {} /\ jobs' = jobs
  BY HandAfter
<1>2. \A g \in Frames : g # f => batch'[g] = batch[g] /\ item'[g] = item[g]
  BY BatchAfter, HandStep
<1>3. Nothing \notin Items
  BY ClientAssumption
<1>0. /\ R \subseteq captured /\ R \cap jobs = {}
      /\ \A g \in Frames : item[g] \notin R
      /\ \A g \in Frames : g # f => InSeqs(batch[g]) \cap R = {}
      /\ resent \subseteq resent' /\ R \subseteq resent'
  BY RereadApart, ResentGrows
<1> HIDE DEF R
\* What is not in hand moves among buffer, batch and wire.
<1>4. /\ B1 \cup T1 \subseteq B \cup T \cup (IF Append1(f) THEN H ELSE {}) \cup R
      /\ W1 \subseteq W \cup T
      /\ B1 \cap W1 \subseteq resent' /\ B1 \cap T1 = {} /\ T1 \cap W1 \subseteq resent'
  <2>1. /\ B \cap W \subseteq resent' /\ B \cap T = {} /\ T \cap W \subseteq resent'
        /\ H \cap B = {} /\ H \cap W = {} /\ H \cap T = {}
    BY <1>0 DEF Apart
  <2>2. CASE TakenBy(f)
    <3>1. PICK k \in Kinds : Takes(f, k)
      BY <2>2, StoreStep
    <3>2. Stores(f, k) /\ wire' = wire /\ Kinds = {"span", "snapshot"}
      BY <3>1, StoreStep DEF Kinds
    <3>3. B1 \subseteq B /\ B1 \cap KindsOf(k) = {} /\ T1 \subseteq T \cup ToSet(Taken(f, k))
      BY <2>2, <3>1, <3>2, BufAfter, BatchAfter DEF StoreBy
    <3>4. ToSet(Taken(f, k)) \subseteq KindsOf(k)
      BY <3>1, TakenIs, ToSetSeq
    <3>5. ToSet(Taken(f, k)) \subseteq B \cup R
      <4>1. ToSet(buf[k]) \subseteq B
        BY <3>2 DEF InSeqs
      <4> QED  BY <2>2, <3>1, <4>1, TakenIs DEF R
    <3> QED  BY <1>0, <2>1, <3>2, <3>3, <3>4, <3>5
  <2>3. CASE Prepend(f)
    <3>1. /\ B1 \subseteq B \cup {NextBack(f)} /\ NextBack(f) \in T /\ NextBack(f) \notin T1
          /\ T1 \subseteq T
      BY <2>3, BufAfter, BatchAfter DEF Prepend, TakenBy, TakeSpans, TakeStates, At
    <3>2. wire' = wire
      BY <2>3 DEF Prepend, outcomes
    <3> QED  BY <2>1, <3>1, <3>2
  <2>4. CASE ExportDelivers(f)
    <3>1. T1 = {} /\ W1 \subseteq W \cup T
      BY <2>4, BatchAfter, WireStep
    <3>2. buf' = buf
      BY <2>4 DEF ExportDelivers
    <3> QED  BY <2>1, <3>1, <3>2
  <2>5. CASE ~ TakenBy(f) /\ ~ Prepend(f) /\ ~ ExportDelivers(f)
    <3>1. T1 \subseteq T /\ wire' = wire
      BY <2>5, BatchAfter, WireStep
    <3>2. B1 \subseteq B \/ (Append1(f) /\ B1 \subseteq B \cup {item[f]})
      <4>1. buf' = buf \/ Evict(f) \/ Append1(f) \/ PopSnapshot(f) \/ StoreBy(f)
        BY <2>5, WhatChanges DEF BufBy
      <4> QED  BY <4>1, BufAfter
    <3>3. Append1(f) => item[f] # Nothing
      BY <1>3 DEF Append1, At, InHand
    <3> QED  BY <2>1, <3>1, <3>2, <3>3
  <2> QED  BY <2>2, <2>3, <2>4, <2>5
<1>5. Held'
  <2>1. /\ jobs \subseteq captured /\ B \subseteq captured /\ W \subseteq captured /\ T \subseteq captured
        /\ H \subseteq captured
    BY DEF Held
  <2>2. jobs' \cup H1 \cup B1 \cup W1 \cup T1 \subseteq captured'
    BY <1>0, <1>1, <1>4, <2>1
  <2>3. \A g \in Frames : g # f =>
          /\ InSeqs(batch'[g]) \subseteq captured'
          /\ item'[g] # Nothing => item'[g] \in captured'
    BY <1>1, <1>2 DEF Held
  <2> QED  BY <2>2, <2>3 DEF Held
<1>6. Apart'
  <2>1. (jobs' \cup H1) \cap (B1 \cup W1 \cup T1) = {}
    <3>1. (jobs \cup H \cup New) \cap (B \cup W \cup T \cup R) = {} /\ (jobs \cap H = {})
      BY <1>0 DEF Apart, Held
    <3>2. CASE Append1(f)
      BY <1>1, <1>4, <3>1, <3>2
    <3>3. CASE ~ Append1(f)
      BY <1>1, <1>4, <3>1, <3>3
    <3> QED  BY <3>2, <3>3
  <2>2. \A g \in Frames : g # f =>
          /\ InSeqs(batch[g]) \cap (jobs' \cup H1 \cup B1 \cup T1) = {}
          /\ InSeqs(batch[g]) \cap W1 \subseteq resent'
          /\ item[g] \notin jobs' \cup H1 \cup B1 \cup W1 \cup T1
    <3> SUFFICES ASSUME NEW g \in Frames, g # f
                 PROVE  /\ InSeqs(batch[g]) \cap (jobs' \cup H1 \cup B1 \cup T1) = {}
                        /\ InSeqs(batch[g]) \cap W1 \subseteq resent'
                        /\ item[g] \notin jobs' \cup H1 \cup B1 \cup W1 \cup T1
      OBVIOUS
    <3>1. /\ InSeqs(batch[g]) \cap (jobs \cup B \cup T \cup H \cup R) = {}
          /\ InSeqs(batch[g]) \cap W \subseteq resent'
          /\ item[g] \notin jobs \cup B \cup W \cup T \cup H \cup R
      BY <1>0 DEF Apart
    <3>2. InSeqs(batch[g]) \cap New = {} /\ item[g] \notin New
      BY <1>1, <1>3 DEF Held
    <3> QED  BY <1>1, <1>4, <3>1, <3>2
  <2>3. \A g \in Frames : item'[g] = item[g] \/ g = f
    BY <1>2
  <2>4. item'[f] \notin jobs' /\ Nothing \notin jobs' \cup B1 \cup W1 \cup T1
    <3>1. jobs' \cup B1 \cup W1 \cup T1 \subseteq captured'
      BY <1>5 DEF Held
    <3> QED  BY <1>1, <1>3, <3>1
  <2>5. \A g, h \in Frames : g # f /\ h # f =>
          /\ item[g] \notin InSeqs(batch[h])
          /\ g # h => InSeqs(batch[g]) \cap InSeqs(batch[h]) = {}
          /\ g # h /\ item[g] = item[h] => item[g] = Nothing
    BY DEF Apart
  <2> HIDE DEF B1, W1, T1, H1
  <2>6. /\ jobs' \cap B1 = {} /\ jobs' \cap W1 = {} /\ B1 \cap W1 \subseteq resent'
        /\ T1 \cap jobs' = {} /\ T1 \cap B1 = {} /\ T1 \cap W1 \subseteq resent'
        /\ item'[f] \notin B1 \cup W1 \cup T1
    BY <1>4, <2>1, <2>4 DEF H1
  <2>7. \A g \in Frames :
          /\ InSeqs(batch'[g]) \cap jobs' = {} /\ InSeqs(batch'[g]) \cap B1 = {}
          /\ InSeqs(batch'[g]) \cap W1 \subseteq resent'
          /\ item'[g] \notin jobs' /\ item'[g] \notin B1 /\ item'[g] \notin W1
    <3> SUFFICES ASSUME NEW g \in Frames
                 PROVE  /\ InSeqs(batch'[g]) \cap jobs' = {} /\ InSeqs(batch'[g]) \cap B1 = {}
                        /\ InSeqs(batch'[g]) \cap W1 \subseteq resent'
                        /\ item'[g] \notin jobs' /\ item'[g] \notin B1 /\ item'[g] \notin W1
      OBVIOUS
    <3>1. CASE g = f
      BY <3>1, <2>4, <2>6 DEF T1
    <3>2. CASE g # f
      BY <3>2, <1>2, <2>2
    <3> QED  BY <3>1, <3>2
  <2>8. \A g, h \in Frames :
          /\ item'[g] \notin InSeqs(batch'[h])
          /\ g # h => InSeqs(batch'[g]) \cap InSeqs(batch'[h]) = {}
          /\ g # h /\ item'[g] = item'[h] => item'[g] = Nothing
    <3> SUFFICES ASSUME NEW g \in Frames, NEW h \in Frames
                 PROVE  /\ item'[g] \notin InSeqs(batch'[h])
                        /\ g # h => InSeqs(batch'[g]) \cap InSeqs(batch'[h]) = {}
                        /\ g # h /\ item'[g] = item'[h] => item'[g] = Nothing
      OBVIOUS
    <3>1. CASE g # f /\ h # f
      BY <3>1, <1>2, <2>5
    <3>2. CASE g = f /\ h = f
      BY <3>2, <2>6 DEF T1
    <3>3. ASSUME NEW x \in Frames, x # f
          PROVE  /\ item'[f] \notin InSeqs(batch'[x]) /\ item'[x] \notin T1
                 /\ InSeqs(batch'[x]) \cap T1 = {}
                 /\ item'[f] = item'[x] => item'[f] = Nothing
      <4>1. Nothing \notin InSeqs(batch'[x])
        BY <1>1, <1>3, <1>5 DEF Held
      <4> QED  BY <3>3, <4>1, <1>2, <2>2 DEF H1
    <3> QED  BY <3>1, <3>2, <3>3 DEF T1
  <2> QED  BY <2>6, <2>7, <2>8 DEF Apart, B1, W1, T1
<1> QED  BY <1>5, <1>6

\* A buffer that a nested drain took from under another's read is in that one's hands.
LEMMA RereadStep ==
  ASSUME TypeOK, InHand, AllFiled, BufferOwned, GivesBack, Held, Apart, Reread,
         NEW f \in Frames, Start(f) \/ Continue(f) \/ Export(f)
  PROVE  Reread'
<1>1. Runs(f) /\ \A g \in Frames : g # f => pc'[g] = pc[g]
  BY PcMoves
<1>2. pc'[f] \in {"spans", "states"} => ~ old'[f].stale
  <2>1. pc'[f] \in {"spans", "states"} => Swap(f) \/ Abandon(f) \/ StoreBy(f)
    BY WhereTo DEF StoreBy, TakenBy
  <2>2. Swap(f) \/ Abandon(f) => old'[f] = Live
    BY DEF Swap, Abandon, TypeOK
  <2>3. StoreBy(f) => old'[f] = Live
    BY StoreStep DEF Store, Orphan
  <2> QED  BY <2>1, <2>2, <2>3 DEF Live
<1>3. ASSUME NEW g \in Frames, g # f, old'[g].stale, NEW k \in Kinds,
             pc[g] = (IF k = "span" THEN "spans" ELSE "states")
      PROVE  Rereads(g, k)'
  <2> DEFINE r == old'[g].items
             H == {item[f]} \ {Nothing}
             H1 == {item'[f]} \ {Nothing}
  <2>0. InBuffer(g)
    BY <1>3 DEF InBuffer, Kinds
  <2>1. /\ r \in Seq(KindsOf(k)) /\ Once(r)
        /\ ToSet(r) \subseteq captured /\ ToSet(r) \cap jobs = {}
        /\ \A h \in Frames : item[h] \notin ToSet(r)
        /\ \A h \in Frames : h # Nested(g) => InSeqs(batch[h]) \cap ToSet(r) = {}
    <3>1. CASE old'[g] = old[g]
      <4>1. Rereads(g, k)
        BY <1>3, <3>1 DEF Reread, Kinds
      <4> QED  BY <3>1, <4>1 DEF Rereads
    <3>2. CASE old'[g] # old[g]
      <4>1. old' = old \/ StoreBy(f) \/ (OldBy(f) /\ ~ StoreBy(f))
        BY WhatChanges
      <4>2. OldBy(f) /\ ~ StoreBy(f) => old'[g] = old[g]
        BY <1>3 DEF OldBy, Room, EnterSnapshot, PopSnapshot, CountSnapshot, Swap, GiveBack, Abandon,
                    TypeOK
      <4>3. PICK j \in Kinds : Orphan(f, j)
        BY <3>2, <4>1, <4>2, StoreStep DEF Store
      <4>4. Holds(g, j) /\ r = buf[j]
        BY <1>3, <3>2, <4>3 DEF Orphan, Kinds
      <4>5. j = k
        BY <1>3, <4>4 DEF Holds, Kinds
      <4>6. buf[k] \in Seq(KindsOf(k)) /\ Once(buf[k]) /\ ToSet(buf[k]) \subseteq InSeqs(buf)
        BY DEF AllFiled, Filed, KindsOf, Kinds, InSeqs
      <4> QED  BY <4>4, <4>5, <4>6 DEF Held, Apart
    <3> QED  BY <3>1, <3>2
  <2> HIDE DEF r
  <2>2. /\ captured \subseteq captured' /\ captured' \subseteq Items
        /\ jobs' \cup H1 \subseteq jobs \cup H \cup (captured' \ captured)
    BY HandAfter
  <2>3. ToSet(r) \subseteq captured' /\ ToSet(r) \cap (jobs' \cup H1) = {} /\ Nothing \notin ToSet(r)
    <3>1. ToSet(r) \cap H = {} /\ Nothing \notin Items
      BY <2>1, ClientAssumption
    <3> QED  BY <2>1, <2>2, <3>1
  <2>4. \A h \in Frames : item'[h] \notin ToSet(r)
    <3>1. \A h \in Frames : h # f => item'[h] = item[h]
      BY HandStep
    <3> QED  BY <2>1, <2>3, <3>1
  <2>5. \A h \in Frames : h # Nested(g) => InSeqs(batch'[h]) \cap ToSet(r) = {}
    <3>1. \A h \in Frames : h # f => batch'[h] = batch[h]
      BY BatchAfter
    <3>2. f # Nested(g) => InSeqs(batch'[f]) \subseteq InSeqs(batch[f])
      <4>1. CASE TakenBy(f)
        <5>1. InBuffer(f)
          BY <4>1, StoreStep
        <5>2. Thread(f) = Thread(g) /\ pc[g] # "idle"
          BY <1>3, <2>0, <5>1 DEF BufferOwned, Kinds
        <5> QED  BY <1>1, <1>3, <5>2, Interrupts
      <4>2. CASE ~ TakenBy(f)
        BY <4>2, BatchAfter
      <4> QED  BY <4>1, <4>2
    <3> QED  BY <2>1, <3>1, <3>2
  <2> QED  BY <2>1, <2>3, <2>4, <2>5 DEF Rereads, r
<1>4. ASSUME NEW g \in Frames, old'[g].stale
      PROVE  (pc'[g] = "spans" => Rereads(g, "span")') /\ (pc'[g] = "states" => Rereads(g, "snapshot")')
  <2>1. CASE g = f
    BY <1>2, <1>4, <2>1
  <2>2. CASE g # f
    BY <1>1, <1>3, <1>4, <2>2 DEF Kinds
  <2> QED  BY <2>1, <2>2
<1> QED  BY <1>4 DEF Reread

-----------------------------------------------------------------------------
(* Evictions, counted and said.                                            *)

\* The counters of a drain are its own.
LEMMA CountTypes ==
  ASSUME TypeOK, NEW f \in Frames, Start(f) \/ Continue(f) \/ Export(f)
  PROVE  /\ dropped' \in Nat /\ said' \in Nat
         /\ cut' \in [Frames -> Nat] /\ back' \in [Frames -> Nat]
         /\ \A g \in Frames : g # f => cut'[g] = cut[g] /\ back'[g] = back[g]
<1>1. /\ cut' = cut \/ CutBy(f)
      /\ back' = back \/ BackBy(f)
      /\ dropped' = dropped \/ DroppedBy(f)
      /\ said' = said \/ SaidBy(f)
  BY WhatChanges
<1>2. dropped \in Nat /\ said \in Nat /\ cut \in [Frames -> Nat] /\ back \in [Frames -> Nat]
  BY DEF TypeOK
<1>3. dropped' \in Nat
  BY <1>1, <1>2 DEF DroppedBy, Evict, CountSnapshot, TakeStates, GivenBack, LeaveStates
<1>4. said' \in Nat
  BY <1>1, <1>2 DEF SaidBy, Release, LeaveStates
<1>5. cut' = cut \/ cut' = [cut EXCEPT ![f] = dropped] \/ cut' = [cut EXCEPT ![f] = 0]
  BY <1>1 DEF CutBy, TakeStates, Release
<1>6. back' = back \/ back' = [back EXCEPT ![f] = @ + 1] \/ back' = [back EXCEPT ![f] = 0]
  BY <1>1 DEF BackBy, GiveBack, GivenBack
<1> QED  BY <1>2, <1>3, <1>4, <1>5, <1>6

\* A record adds a reason to an item's reasons and leaves the ledger one.
LEMMA RecordType ==
  ASSUME ledger \in [Items -> Seq(Reasons)], NEW lost, NEW reason \in Reasons, Record(lost, reason)
  PROVE  ledger' \in [Items -> Seq(Reasons)]
<1>1. \A i \in Items : Append(ledger[i], reason) \in Seq(Reasons)
  BY AppendProperties
<1> QED  BY <1>1 DEF Record

\* A record for any other reason says nothing of evictions.
LEMMA RecordOther ==
  ASSUME ledger \in [Items -> Seq(Reasons)], NEW lost, NEW reason \in Reasons,
         reason # "queue_overflow", Record(lost, reason)
  PROVE  OverflowOf' = OverflowOf
<1>1. \A i \in Items : Occurs("queue_overflow", ledger'[i]) = Occurs("queue_overflow", ledger[i])
  <2> SUFFICES ASSUME NEW i \in Items
               PROVE  Occurs("queue_overflow", ledger'[i]) = Occurs("queue_overflow", ledger[i])
    OBVIOUS
  <2>1. ledger[i] \in Seq(Reasons) /\ (ledger'[i] = ledger[i] \/ ledger'[i] = Append(ledger[i], reason))
    BY DEF Record
  <2>2. /\ Occurs("queue_overflow", ledger[i]) \in Nat
        /\ Occurs("queue_overflow", Append(ledger[i], reason))
             = Occurs("queue_overflow", ledger[i])
    BY <2>1, OccursAppend
  <2> QED  BY <2>1, <2>2
<1> QED  BY <1>1 DEF OverflowOf

\* A record of one eviction adds one.
LEMMA RecordOverflow ==
  ASSUME ledger \in [Items -> Seq(Reasons)], NEW x \in Items, Record({x}, "queue_overflow"),
         IsFiniteSet(Cells(OverflowOf))
  PROVE  /\ IsFiniteSet(Cells(OverflowOf')) /\ Total(OverflowOf) \in Nat
         /\ Total(OverflowOf') = Total(OverflowOf) + 1
<1>1. "queue_overflow" \in Reasons
  BY DEF Reasons
<1>2. \A i \in Items : ledger[i] \in Seq(Reasons)
  OBVIOUS
<1>3. \A i \in Items :
        /\ Occurs("queue_overflow", ledger[i]) \in Nat
        /\ Occurs("queue_overflow", Append(ledger[i], "queue_overflow"))
             = Occurs("queue_overflow", ledger[i]) + 1
  BY <1>1, <1>2, OccursAppend
<1>5. /\ ledger'[x] = Append(ledger[x], "queue_overflow")
      /\ \A i \in Items : i # x => ledger'[i] = ledger[i]
  BY DEF Record
<1> DEFINE n == OverflowOf
           m == OverflowOf'
<1>6. n \in [Items -> Nat] /\ m \in [Items -> Nat] /\ m[x] = n[x] + 1 /\ \A i \in Items : i # x => m[i] = n[i]
  <2>1. n = [i \in Items |-> Occurs("queue_overflow", ledger[i])] /\ m = [i \in Items |-> Occurs("queue_overflow", ledger'[i])]
    BY DEF OverflowOf
  <2>2. Occurs("queue_overflow", ledger'[x]) = Occurs("queue_overflow", ledger[x]) + 1
    BY <1>3, <1>5
  <2>3. \A i \in Items : Occurs("queue_overflow", ledger'[i]) \in Nat
    <3>1. \A i \in Items : i # x => Occurs("queue_overflow", ledger'[i]) = Occurs("queue_overflow", ledger[i])
      BY <1>5
    <3> QED  BY <1>3, <2>2, <3>1
  <2> QED  BY ONLY <1>3, <1>5, <2>1, <2>2, <2>3, x \in Items
<1>7. Total(n) \in Nat
  BY FS_CardinalityType DEF Total
<1> HIDE DEF n, m
<1>8. IsFiniteSet(Cells(n))
  BY DEF n
<1>9. IsFiniteSet(Cells(m)) /\ Total(m) + n[x] = Total(n) + m[x]
  BY <1>6, <1>8, TotalExcept
<1>10. Total(m) \in Nat
  BY <1>9, FS_CardinalityType DEF Total
<1> QED  BY <1>6, <1>7, <1>9, <1>10 DEF n, m

\* What a drain owes changes for that drain alone.
LEMMA UnsaidChange ==
  ASSUME TypeOK, IsFiniteSet(Cells(UnsaidOf)), NEW f \in Frames,
      Start(f) \/ Continue(f) \/ Export(f)
  PROVE  /\ IsFiniteSet(Cells(UnsaidOf')) /\ Total(UnsaidOf) \in Nat /\ Total(UnsaidOf') \in Nat
         /\ Total(UnsaidOf') + (cut[f] + back[f]) = Total(UnsaidOf) + (cut'[f] + back'[f])
<1> DEFINE n == UnsaidOf
           m == UnsaidOf'
<1>1. /\ cut \in [Frames -> Nat] /\ back \in [Frames -> Nat]
      /\ cut' \in [Frames -> Nat] /\ back' \in [Frames -> Nat]
      /\ \A g \in Frames : g # f => cut'[g] = cut[g] /\ back'[g] = back[g]
  BY CountTypes DEF TypeOK
<1>2. /\ n \in [Frames -> Nat] /\ m \in [Frames -> Nat]
      /\ n[f] = cut[f] + back[f] /\ m[f] = cut'[f] + back'[f]
      /\ \A g \in Frames : g # f => m[g] = n[g]
  BY <1>1 DEF UnsaidOf
<1>3. IsFiniteSet(Cells(n)) /\ Total(n) \in Nat
  BY FS_CardinalityType DEF Total
<1> HIDE DEF n, m
<1>4. IsFiniteSet(Cells(m)) /\ Total(m) + n[f] = Total(n) + m[f]
  BY <1>2, <1>3, TotalExcept
<1>5. Total(m) \in Nat
  BY <1>4, FS_CardinalityType DEF Total
<1> QED  BY <1>2, <1>3, <1>4, <1>5 DEF n, m

\* Every step keeps the account of the evictions.
LEMMA SaidStep ==
  ASSUME TypeOK, InHand, AllFiled, OldestIsThere, GivesBack, Cuts, Said,
         NEW f \in Frames, Start(f) \/ Continue(f) \/ Export(f)
  PROVE  Said' /\ ledger' \in [Items -> Seq(Reasons)]
<1> DEFINE S == Total(OverflowOf)
           U == Total(UnsaidOf)
<1>0. /\ ledger \in [Items -> Seq(Reasons)] /\ dropped \in Nat /\ said \in Nat
      /\ cut[f] \in Nat /\ back[f] \in Nat
  BY DEF TypeOK
<1>1. S \in Nat /\ S = said + dropped + U /\ IsFiniteSet(Cells(OverflowOf))
  BY FS_CardinalityType DEF Said, EvictionsSaid, OverflowOf, UnsaidOf, Total
<1>2. /\ IsFiniteSet(Cells(UnsaidOf')) /\ U \in Nat /\ U' \in Nat
      /\ U' + (cut[f] + back[f]) = U + (cut'[f] + back'[f])
  BY UnsaidChange DEF Said
<1>3. /\ (cut' = cut \/ CutBy(f)) /\ (back' = back \/ BackBy(f)) /\ (dropped' = dropped \/ DroppedBy(f))
      /\ (said' = said \/ SaidBy(f)) /\ (ledger' = ledger \/ LedgerBy(f))
  BY WhatChanges
<1>4. ASSUME NEW x \in Items, Record({x}, "queue_overflow")
      PROVE  IsFiniteSet(Cells(OverflowOf')) /\ S' = S + 1 /\ ledger' \in [Items -> Seq(Reasons)]
  <2>1. "queue_overflow" \in Reasons
    BY DEF Reasons
  <2> QED  BY <1>0, <1>1, <1>4, <2>1, RecordOverflow, RecordType
<1>5. ASSUME ledger' = ledger
      PROVE  IsFiniteSet(Cells(OverflowOf')) /\ S' = S /\ ledger' \in [Items -> Seq(Reasons)]
  BY <1>0, <1>1, <1>5 DEF OverflowOf
<1>13. ASSUME NEW lost, NEW reason \in Reasons, reason # "queue_overflow", Record(lost, reason)
       PROVE  IsFiniteSet(Cells(OverflowOf')) /\ S' = S /\ ledger' \in [Items -> Seq(Reasons)]
  BY <1>0, <1>1, <1>13, RecordOther, RecordType
<1>6. ASSUME IsFiniteSet(Cells(OverflowOf')), S' = said' + dropped' + U'  PROVE Said'
  BY <1>2, <1>6 DEF Said, EvictionsSaid, OverflowOf, UnsaidOf
<1> HIDE DEF S, U
<1>15. U \in Nat /\ U' \in Nat /\ U' + (cut[f] + back[f]) = U + (cut'[f] + back'[f])
  BY <1>2
<1>14. ASSUME cut' = cut, back' = back  PROVE U' = U
  <2>1. cut'[f] = cut[f] /\ back'[f] = back[f]
    BY <1>14
  <2> QED  BY <1>0, <1>15, <2>1
<1>7. CASE Evict(f)
  <2>1. \E x \in Items : Record({x}, "queue_overflow")
    <3>1. CASE old[f].stale
      <4>1. old[f].items \in Seq(Items) /\ old[f].items # <<>>
        BY <1>7, <3>1, Finds DEF TypeOK
      <4> QED  BY <4>1, <1>7, <3>1, OnceTail DEF Evict
    <3>2. CASE ~ old[f].stale
      <4>1. buf["span"] \in Seq(Items) /\ buf["span"] # <<>>
        BY <1>7, <3>2, Finds DEF AllFiled, Filed, Kinds
      <4> QED  BY <4>1, <1>7, <3>2, OnceTail DEF Evict
    <3> QED  BY <3>1, <3>2
  <2>2. dropped' = dropped + 1 /\ said' = said /\ cut' = cut /\ back' = back
    BY <1>7 DEF Evict, drainer, outcomes
  <2>3. IsFiniteSet(Cells(OverflowOf')) /\ S' = S + 1
        /\ ledger' \in [Items -> Seq(Reasons)]
    BY <1>1, <1>4, <2>1
  <2>4. U' = U
    BY <1>14, <2>2
  <2>5. S' = said' + dropped' + U'
    BY <1>0, <1>1, <1>15, <2>2, <2>3, <2>4
  <2> QED  BY <1>6, <2>3, <2>5
<1>8. CASE CountSnapshot(f)
  <2>1. said' = said /\ cut' = cut /\ back' = back
    BY <1>8 DEF CountSnapshot, drainer, outcomes
  <2>2. CASE old[f].stale
    <3>1. dropped' = dropped /\ ledger' = ledger
      BY <1>8, <2>2 DEF CountSnapshot
    <3>2. IsFiniteSet(Cells(OverflowOf')) /\ S' = S /\ ledger' \in [Items -> Seq(Reasons)]
      BY <1>5, <3>1
    <3>3. U' = U
      BY <1>14, <2>1
    <3> QED  BY <1>0, <1>1, <1>6, <1>15, <2>1, <3>1, <3>2, <3>3
  <2>3. CASE ~ old[f].stale
    <3>1. old[f].items \in Seq(Items) /\ Len(old[f].items) = 1
      BY <1>8, <2>3 DEF CountSnapshot, At, OldestIsThere, TypeOK
    <3>2. ToSet(old[f].items) = {old[f].items[1]} /\ old[f].items[1] \in Items
      BY <3>1 DEF ToSet
    <3>3. dropped' = dropped + 1
      BY <1>8, <2>3 DEF CountSnapshot
    <3>4. \E x \in Items : Record({x}, "queue_overflow")
      BY <1>8, <2>3, <3>2 DEF CountSnapshot
    <3>5. IsFiniteSet(Cells(OverflowOf')) /\ S' = S + 1 /\ ledger' \in [Items -> Seq(Reasons)]
      BY <1>4, <3>4
    <3>6. U' = U
      BY <1>14, <2>1
    <3> QED  BY <1>0, <1>1, <1>6, <1>15, <2>1, <3>3, <3>5, <3>6
  <2> QED  BY <2>2, <2>3
<1>9. CASE GiveBack(f)
  <2>1. said' = said /\ cut' = cut /\ dropped' = dropped
    BY <1>9 DEF GiveBack, outcomes
  <2>2. CASE Fits(NextBack(f))
    <3>1. back' = back /\ ledger' = ledger
      BY <1>9, <2>2 DEF GiveBack
    <3>2. IsFiniteSet(Cells(OverflowOf')) /\ S' = S /\ ledger' \in [Items -> Seq(Reasons)]
      BY <1>5, <3>1
    <3>3. U' = U
      BY <1>14, <2>1, <3>1
    <3> QED  BY <1>0, <1>1, <1>6, <1>15, <2>1, <3>1, <3>2, <3>3
  <2>3. CASE ~ Fits(NextBack(f))
    <3>1. NextBack(f) \in Items
      BY <1>9, NextLeaves DEF GiveBack, TypeOK
    <3>2. Record({NextBack(f)}, "queue_overflow") /\ back'[f] = back[f] + 1
      BY <1>9, <2>3 DEF GiveBack, TypeOK
    <3>3. \E x \in Items : Record({x}, "queue_overflow")
      BY <3>1, <3>2
    <3>4. IsFiniteSet(Cells(OverflowOf')) /\ S' = S + 1 /\ ledger' \in [Items -> Seq(Reasons)]
      BY <1>4, <3>3
    <3>5. U' = U + 1
      <4>1. cut'[f] = cut[f] /\ back'[f] = back[f] + 1
        BY <2>1, <3>2
      <4> QED  BY <1>0, <1>15, <4>1
    <3> QED  BY <1>0, <1>1, <1>6, <1>15, <2>1, <3>4, <3>5, SMTT(90)
  <2> QED  BY <2>2, <2>3
<1>10. CASE TakeStates(f) \/ GivenBack(f) \/ Release(f)
  <2>1. ledger' = ledger
    BY <1>10 DEF TakeStates, GivenBack, Release, outcomes
  <2>2. said' + dropped' + cut'[f] + back'[f] = said + dropped + cut[f] + back[f]
    <3>1. CASE TakeStates(f)
      <4>1. cut[f] = 0
        BY <3>1 DEF TakeStates, At, Cuts
      <4>2. cut'[f] = dropped /\ back' = back /\ said' = said /\ dropped' = 0
        BY <3>1 DEF TakeStates, outcomes, TypeOK
      <4> QED  BY <4>1, <4>2, <1>0
    <3>2. CASE GivenBack(f)
      BY <3>2, <1>0 DEF GivenBack, outcomes, TypeOK
    <3>3. CASE Release(f)
      BY <3>3, <1>0 DEF Release, TypeOK
    <3> QED  BY <1>10, <3>1, <3>2, <3>3
  <2>4. /\ dropped' \in Nat /\ said' \in Nat /\ cut'[f] \in Nat /\ back'[f] \in Nat
    BY CountTypes
  <2>5. IsFiniteSet(Cells(OverflowOf')) /\ S' = S /\ ledger' \in [Items -> Seq(Reasons)]
    BY <1>5, <2>1
  <2>7. said' + dropped' + U' = said + dropped + U
    <3>1. /\ said \in Nat /\ dropped \in Nat /\ cut[f] \in Nat /\ back[f] \in Nat /\ U \in Nat
          /\ said' \in Nat /\ dropped' \in Nat /\ cut'[f] \in Nat /\ back'[f] \in Nat /\ U' \in Nat
      BY <1>0, <1>15, <2>4
    <3> DEFINE a == cut[f] + back[f]
               b == cut'[f] + back'[f]
    <3>2. a \in Nat /\ b \in Nat /\ U' + a = U + b
      BY <1>15, <3>1
    <3>3. said' + dropped' + b = said + dropped + a
      BY <2>2, <3>1
    <3>4. /\ said \in Nat /\ dropped \in Nat /\ U \in Nat
          /\ said' \in Nat /\ dropped' \in Nat /\ U' \in Nat
      BY <3>1
    <3> HIDE DEF a, b
    <3>5. ASSUME NEW s1 \in Nat, NEW d1 \in Nat, NEW u1 \in Nat,
                 u1 + a = U + b, s1 + d1 + b = said + dropped + a
          PROVE  s1 + d1 + u1 = said + dropped + U
      BY ONLY <3>2, <3>4, <3>5
    <3>6. U' + a = U + b
      BY <3>2
    <3> QED  BY ONLY <3>3, <3>4, <3>5, <3>6, ZenonT(90)
  <2> QED  BY <1>1, <1>6, <2>5, <2>7
<1>11. CASE LeaveSpans(f) \/ LeaveStates(f)
  <2>1. /\ \E lost : Record(lost, "shutdown_tail")
        /\ said' + dropped' = said + dropped /\ said' \in Nat /\ dropped' \in Nat
        /\ cut' = cut /\ back' = back
    BY <1>0, <1>11 DEF LeaveSpans, LeaveStates, drainer, outcomes
  <2>2. IsFiniteSet(Cells(OverflowOf')) /\ S' = S /\ ledger' \in [Items -> Seq(Reasons)]
    <3>1. "shutdown_tail" \in Reasons /\ "shutdown_tail" # "queue_overflow"
      BY DEF Reasons
    <3> QED  BY <1>13, <2>1, <3>1
  <2>3. U' = U
    BY <1>14, <2>1
  <2> QED  BY <1>0, <1>1, <1>6, <1>15, <2>1, <2>2, <2>3
<1>12. CASE /\ ~ Evict(f) /\ ~ CountSnapshot(f) /\ ~ GiveBack(f) /\ ~ TakeStates(f) /\ ~ GivenBack(f)
            /\ ~ Release(f) /\ ~ LeaveSpans(f) /\ ~ LeaveStates(f)
  <2>1. said' = said /\ dropped' = dropped /\ cut' = cut /\ back' = back
    BY <1>3, <1>12 DEF CutBy, BackBy, DroppedBy, SaidBy
  <2>2. IsFiniteSet(Cells(OverflowOf')) /\ S' = S /\ ledger' \in [Items -> Seq(Reasons)]
    <3>1. \/ ledger' = ledger \/ (\E i \in Items : Capture(f, i)) \/ (\E i \in Spans : CaptureDeferred(f, i))
          \/ Admit(f) \/ HookDrops(f) \/ ExportFails(f) \/ Undelivered(f)
      BY <1>3, <1>12 DEF LedgerBy
    <3>2. \/ ledger' = ledger
          \/ \E reason \in {"after_close", "shutdown_tail", "before_send", "before_send_error", "send_error"} :
               \E lost : Record(lost, reason)
      <4>1. CASE \E i \in Items : Capture(f, i)
        BY <4>1 DEF Capture
      <4>2. CASE \E i \in Spans : CaptureDeferred(f, i)
        BY <4>2 DEF CaptureDeferred, Items
      <4>3. CASE Admit(f)
        BY <4>3 DEF Admit, InHand, At
      <4>4. CASE HookDrops(f) \/ ExportFails(f) \/ Undelivered(f)
        BY <4>4 DEF HookDrops, ExportFails, Undelivered
      <4> QED  BY <3>1, <4>1, <4>2, <4>3, <4>4
    <3>3. \A reason \in {"after_close", "shutdown_tail", "before_send", "before_send_error", "send_error"} :
            reason \in Reasons /\ reason # "queue_overflow"
      BY DEF Reasons
    <3> QED  BY <1>5, <1>13, <3>2, <3>3
  <2>3. U' = U
    BY <1>14, <2>1
  <2> QED  BY <1>0, <1>1, <1>6, <1>15, <2>1, <2>2, <2>3
<1> QED  BY <1>7, <1>8, <1>9, <1>10, <1>11, <1>12

-----------------------------------------------------------------------------
(* The invariant holds at the start and after every step.                  *)

\* Where an item was left out on purpose, or lost in silence, it was an item.
LEMMA LostTypes ==
  ASSUME TypeOK, InHand, AllFiled, OldestIsThere, GivesBack,
         NEW f \in Frames, Start(f) \/ Continue(f) \/ Export(f)
  PROVE  filtered' \subseteq Items /\ orphaned' \subseteq Items /\ resent' \subseteq Items
<1>1. /\ filtered' = filtered \/ FilteredBy(f)
      /\ orphaned' = orphaned \/ OrphanedBy(f)
      /\ resent' = resent \/ ResentBy(f)
  BY WhatChanges
<1>2. filtered \subseteq Items /\ orphaned \subseteq Items /\ resent \subseteq Items
  BY DEF TypeOK
<1>3. filtered' \subseteq Items
  <2>1. InSeqs(batch[f]) \subseteq Items
    BY FiledApart DEF AllFiled
  <2>2. filtered' = filtered \/ filtered' = filtered \cup (InSeqs(batch[f]) \ InSeqs(sent[f]))
    BY <1>1 DEF FilteredBy, ExportDelivers, ExportFails
  <2> QED  BY <1>2, <2>1, <2>2
<1>8. resent' \subseteq Items
  <2>1. ToSet(old[f].items) \subseteq Items
    <3>1. old[f].items \in Seq(Items)
      BY DEF TypeOK
    <3> QED  BY <3>1, ToSetSeq
  <2>2. resent' = resent \/ resent' = resent \cup ToSet(old[f].items)
    BY <1>1, StoreStep DEF ResentBy, Take
  <2> QED  BY <1>2, <2>1, <2>2
<1>4. CASE Append1(f)
  <2>1. item[f] \in Items
    BY <1>4 DEF Append1, At, InHand
  <2>2. orphaned' = orphaned \/ orphaned' = orphaned \cup {item[f]}
    BY <1>4 DEF Append1
  <2> QED  BY <1>2, <1>3, <1>8, <2>1, <2>2
<1>5. CASE CountSnapshot(f)
  <2>1. old[f].items \in Seq(Items)
    BY DEF TypeOK
  <2>2. ToSet(old[f].items) \subseteq Items
    BY <2>1, ToSetSeq
  <2>3. orphaned' = orphaned \/ orphaned' = orphaned \cup ToSet(old[f].items)
    BY <1>5 DEF CountSnapshot
  <2> QED  BY <1>2, <1>3, <1>8, <2>2, <2>3
<1>6. CASE Prepend(f)
  <2>1. batch[f] # Empty
    BY <1>6 DEF Prepend, At, GivesBack
  <2>2. NextBack(f) \in Items
    BY <2>1, NextLeaves DEF TypeOK
  <2>3. orphaned' = orphaned \/ orphaned' = orphaned \cup {NextBack(f)}
    BY <1>6 DEF Prepend
  <2> QED  BY <1>2, <1>3, <1>8, <2>2, <2>3
<1>7. CASE StoreBy(f)
  <2>1. PICK k \in Kinds : Store(f, k)
    BY <1>7, StoreStep
  <2>2. ToSet(buf[k]) \subseteq Items
    BY ToSetSeq DEF TypeOK
  <2>3. orphaned' = orphaned \cup (ToSet(buf[k]) \ ToSet(Taken(f, k)))
    BY <2>1 DEF Store
  <2> QED  BY <1>2, <1>3, <1>8, <2>2, <2>3
<1> QED  BY <1>1, <1>2, <1>3, <1>4, <1>5, <1>6, <1>7, <1>8 DEF OrphanedBy

\* A client that was just made holds nothing and owes nothing.
LEMMA InitIInv == ASSUME ClientAssumption, Init  PROVE IInv
<1>1. TypeOK
  <2>1. Empty \in [Kinds -> Seq(Items)] /\ Live \in [stale : BOOLEAN, items : Seq(Items)]
    BY DEF Empty, Live
  <2>2. 0 \in 0 .. MaxSignals
    BY DEF ClientAssumption
  <2>3. "idle" \in Pcs
    BY DEF Pcs
  <2>4. [i \in Items |-> <<>>] \in [Items -> Seq(Reasons)]
    OBVIOUS
  <2>5. /\ buf \in [Kinds -> Seq(Items)] /\ old \in [Frames -> [stale : BOOLEAN, items : Seq(Items)]]
        /\ batch \in [Frames -> [Kinds -> Seq(Items)]] /\ sent \in [Frames -> [Kinds -> Seq(Items)]]
    BY <2>1 DEF Init
  <2>6. /\ pc \in [Frames -> Pcs] /\ op \in [Frames -> Ops \cup {Nothing}]
        /\ item \in [Frames -> Items \cup {Nothing}]
        /\ cut \in [Frames -> Nat] /\ back \in [Frames -> Nat]
        /\ ledger \in [Items -> Seq(Reasons)] /\ wire \in Seq(Items)
    BY <2>3, <2>4 DEF Init
  <2>7. /\ dropped \in Nat /\ closed \in BOOLEAN /\ drained \in BOOLEAN /\ stopped \in BOOLEAN
        /\ jobs \subseteq Spans /\ captured \subseteq Items /\ filtered \subseteq Items
        /\ said \in Nat /\ signals \in 0 .. MaxSignals /\ host \in Scenarios
        /\ orphaned \subseteq Items /\ resent \subseteq Items
    BY <2>2 DEF Init
  <2> QED  BY <2>5, <2>6, <2>7 DEF TypeOK
<1>2. Filed(Empty) /\ InSeqs(Empty) = {} /\ ToSet(<<>>) = {} /\ Once(<<>>)
  BY FiledEmpty, OnceEmpty DEF ToSet
<1>3. InHand /\ BufferOwned /\ NestedLive /\ OldestIsThere /\ GivesBack /\ Empties /\ Cuts /\ Reread
  BY DEF Init, InHand, BufferOwned, InBuffer, NestedLive, OldestIsThere, GivesBack, Empties, Cuts,
         Reread, Live, CarriesSpan, CarriesSnapshot
<1>4. AllFiled /\ OnceBut(wire, resent)
  BY <1>2 DEF Init, AllFiled, Once, OnceBut
<1>5. Held /\ PartOfBatch
  BY <1>2 DEF Init, Held, PartOfBatch
<1>6. Apart
  <2>1. Nothing \notin Items
    BY DEF ClientAssumption
  <2> QED  BY <1>2, <2>1 DEF Init, Apart
<1>7. Said
  <2>1. /\ OverflowOf = [i \in Items |-> 0]
        /\ UnsaidOf = [f \in Frames |-> 0]
    <3>1. Occurs("queue_overflow", <<>>) = 0
      <4>1. {n \in DOMAIN <<>> : <<>>[n] = "queue_overflow"} = {}
        OBVIOUS
      <4> QED  BY <4>1, FS_EmptySet DEF Occurs
    <3> QED  BY <3>1 DEF Init, OverflowOf, UnsaidOf
  <2>2. /\ IsFiniteSet(Cells(OverflowOf)) /\ Total(OverflowOf) = 0
        /\ IsFiniteSet(Cells(UnsaidOf)) /\ Total(UnsaidOf) = 0
    BY <2>1, TotalZero
  <2>3. said = 0 /\ dropped = 0
    BY DEF Init
  <2> QED  BY <2>2, <2>3 DEF Said, EvictionsSaid, OverflowOf, UnsaidOf
<1> QED  BY <1>1, <1>3, <1>4, <1>5, <1>6, <1>7 DEF IInv

\* Every action of every frame keeps the invariant, and so does a step that does nothing.
LEMMA NextIInv == ASSUME IInv, [Next]_vars  PROVE IInv'
<1>1. CASE Next
  <2>1. PICK f \in Frames : Start(f) \/ Continue(f) \/ Export(f)
    BY <1>1 DEF Next
  <2>2. /\ TypeOK /\ InHand /\ AllFiled /\ BufferOwned /\ NestedLive /\ OldestIsThere
        /\ GivesBack /\ Empties /\ Cuts /\ Held /\ PartOfBatch /\ OnceBut(wire, resent) /\ Apart
        /\ Reread /\ Said
    BY DEF IInv
  <2>3. /\ buf' \in [Kinds -> Seq(Items)] /\ Filed(buf')
        /\ batch' \in [Frames -> [Kinds -> Seq(Items)]] /\ AllFiled'
    BY <2>1, <2>2, BufAfter, BatchAfter DEF AllFiled, Filed
  <2>4. /\ item' \in [Frames -> Items \cup {Nothing}] /\ jobs' \subseteq Spans
        /\ captured' \subseteq Items /\ InHand'
    BY <2>1, <2>2, HandStep, HandAfter
  <2>5. /\ old' \in [Frames -> [stale : BOOLEAN, items : Seq(Items)]]
        /\ NestedLive' /\ OldestIsThere' /\ BufferOwned'
    BY <2>1, <2>2, OldStep, OldestStep, LockStep
  <2>6. /\ sent' \in [Frames -> [Kinds -> Seq(Items)]] /\ PartOfBatch'
        /\ wire' \in Seq(Items) /\ OnceBut(wire, resent)'
        /\ Held' /\ Apart' /\ Reread'
    BY <2>1, <2>2, SentStep, WireStep, ApartStep, RereadStep
  <2>7. Said' /\ ledger' \in [Items -> Seq(Reasons)] /\ GivesBack' /\ Empties' /\ Cuts'
    BY <2>1, <2>2, SaidStep, DrainStep
  <2>8. /\ closed' \in BOOLEAN /\ drained' \in BOOLEAN /\ stopped' \in BOOLEAN
        /\ signals' \in 0 .. MaxSignals /\ op' \in [Frames -> Ops \cup {Nothing}]
        /\ pc' \in [Frames -> Pcs] /\ host' \in Scenarios
    BY <2>1, <2>2, FlagTypes, PcMoves DEF TypeOK
  <2>9. /\ dropped' \in Nat /\ said' \in Nat
        /\ cut' \in [Frames -> Nat] /\ back' \in [Frames -> Nat]
        /\ filtered' \subseteq Items /\ orphaned' \subseteq Items /\ resent' \subseteq Items
    BY <2>1, <2>2, CountTypes, LostTypes
  <2>10. TypeOK'
    BY <2>3, <2>4, <2>5, <2>6, <2>7, <2>8, <2>9 DEF TypeOK
  <2> QED  BY <2>3, <2>4, <2>5, <2>6, <2>7, <2>10 DEF IInv
<1>2. CASE UNCHANGED vars
  <2>1. /\ buf' = buf /\ jobs' = jobs /\ pc' = pc /\ item' = item /\ old' = old /\ batch' = batch
        /\ sent' = sent /\ cut' = cut /\ back' = back /\ captured' = captured /\ wire' = wire
        /\ ledger' = ledger /\ said' = said /\ dropped' = dropped /\ resent' = resent
    BY <1>2 DEF vars
  <2>2. TypeOK'
    BY <1>2 DEF IInv, TypeOK, vars
  <2>3. /\ InHand' /\ BufferOwned' /\ NestedLive' /\ OldestIsThere' /\ GivesBack' /\ Empties' /\ Cuts'
        /\ Reread'
    BY <2>1 DEF IInv, InHand, BufferOwned, InBuffer, NestedLive, OldestIsThere, Refills, GivesBack,
        Empties, Cuts, Reread, Rereads
  <2>4. AllFiled' /\ OnceBut(wire, resent)' /\ Held' /\ PartOfBatch' /\ Apart'
    BY <2>1 DEF IInv, AllFiled, Held, PartOfBatch, Apart, OnceBut
  <2>5. Said'
    BY <2>1 DEF IInv, Said, EvictionsSaid, OverflowOf, UnsaidOf
  <2> QED  BY <2>2, <2>3, <2>4, <2>5 DEF IInv
<1> QED  BY <1>1, <1>2

\* What the invariant says of an item that was sent.
LEMMA IInvSentOnce == ASSUME IInv  PROVE SentOnce
<1>1. wire \in Seq(Items) /\ OnceBut(wire, resent) /\ Apart /\ EvictionsSaid
  BY DEF IInv, TypeOK, Said
<1>2. ASSUME NEW i \in ToSet(wire) \ resent
      PROVE  /\ Occurs(i, wire) = 1 /\ i \notin InSeqs(buf)
             /\ \A f \in Frames : i \notin InSeqs(batch[f]) /\ item[f] # i
  <2>1. Occurs(i, wire) = 1
    <3>1. PICK n \in DOMAIN wire : wire[n] = i
      BY DEF ToSet
    <3>2. {k \in DOMAIN wire : wire[k] = i} = {n}
      BY <1>1, <3>1 DEF OnceBut
    <3> QED  BY <3>2, FS_Singleton DEF Occurs
  <2>2. i \notin InSeqs(buf) /\ \A f \in Frames : i \notin InSeqs(batch[f]) /\ item[f] # i
    BY <1>1 DEF Apart
  <2> QED  BY <2>1, <2>2
<1> QED  BY <1>1, <1>2 DEF SentOnce, OnWireOnce

\* In every reachable state, for any number of threads, items, nested frames and signals.
LEMMA SpecIInv == Spec => []IInv
<1>1. Init => IInv
  BY InitIInv, ClientAssumption
<1>2. IInv /\ [Next]_vars => IInv'
  BY NextIInv
<1> QED  BY <1>1, <1>2, PTL DEF Spec

\* Type correctness of the buffer, the batches, the ledger and the frames of _client.py.
THEOREM ClientTypes == Spec => []TypeOK
<1>1. IInv => TypeOK
  BY DEF IInv
<1> QED  BY <1>1, SpecIInv, PTL

\* An item reaches the transport at most once and is then in no buffer, batch or hand, even
\* when a signal's flush or a finalizer's capture runs inside a capture or a drain of the
\* same thread, whose RLocks let it in: but for what `resent` names, the items of a buffer
\* that the nested drain took between the read of it and the store of an empty one by the
\* drain it interrupted (_client.py:1026-1028).  Every eviction _dropped counts is said once.
THEOREM ItemsSentOnce == Spec => []SentOnce
<1>1. IInv => SentOnce
  BY IInvSentOnce
<1> QED  BY <1>1, SpecIInv, PTL
=============================================================================
