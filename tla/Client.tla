------------------------------- MODULE Client -------------------------------
(***************************************************************************)
(* The client's capture buffer and its drain (_client.py): the path of     *)
(* every span and state snapshot from capture to the transport.            *)
(*                                                                         *)
(* Host threads capture, flush and close; the batch worker drains when it  *)
(* likes; the finalize worker admits the spans it parsed.  On each thread  *)
(* a base frame may be interrupted by one nested frame, which runs to its  *)
(* end first: a signal handler that flushes (main thread), or a weakref    *)
(* finalizer that captures.  Both locks are RLocks: a thread owns them,    *)
(* not a frame, so a nested frame walks through a block its base frame is  *)
(* inside of.  What the client holds is tracked item by item.              *)
(***************************************************************************)
EXTENDS Naturals, Sequences, SequencesExt, FiniteSets, FiniteSetsExt, Counting

CONSTANTS
  Spans, Snapshots,    \* the items that may be captured, each at most once
  Size,                \* _span_size of each span
  MaxSpans, MaxBytes,  \* max_buffer_spans, max_buffer_bytes
  Threads,             \* host threads
  Worker, Parser,      \* the batch worker's and the finalize worker's thread
  MaxSignals,          \* bound: how many signals land on the host's threads
  Scenarios            \* bound: which calls each frame makes, on which items

Items  == Spans \cup Snapshots
Kinds  == {"span", "snapshot"}
Kind(i) == IF i \in Spans THEN "span" ELSE "snapshot"

Levels  == {"base", "nested"}
Frames  == (Threads \cup {Worker, Parser}) \X Levels
Ops     == {"span", "snapshot", "deferred", "flush", "signal", "close",
            "periodic", "parse"}
Nothing == "nothing"

Reasons == {"after_close", "queue_overflow", "shutdown_tail", "before_send",
            "before_send_error", "send_error"}

ASSUME ClientAssumption ==
  /\ Spans \cap Snapshots = {}
  /\ Nothing \notin Items
  /\ Size \in [Spans -> Nat]
  /\ MaxSpans \in Nat \ {0}
  /\ MaxBytes \in Nat
  /\ MaxSignals \in Nat
  /\ Scenarios \subseteq [calls : [Frames -> SUBSET Ops], items : SUBSET Items]
  \* Finalizers capture and signal handlers flush: neither closes the client.
  /\ \A h \in Scenarios, f \in Frames :
       f[2] = "nested" => h.calls[f] \subseteq {"span", "snapshot", "deferred", "signal"}

VARIABLES
  buf,       \* _buffer.spans and _snapshots
  dropped,   \* _dropped: evictions no drain has picked up yet
  closed,    \* _closed
  drained,   \* _finalize_drained
  stopped,   \* both workers were told to stop
  jobs,      \* deferred spans waiting in the finalize queue
  pc, op,    \* where each frame is, and in which call
  item,      \* the item a frame is admitting
  old,       \* what a frame still refers to of a buffer that was swapped away
  batch,     \* what a drain swapped out and has not disposed of
  sent,      \* what is left of it after before_send_envelope
  cut,       \* the `dropped` a drain took over, to report when it ends
  back,      \* the evictions of a give-back in progress
  captured,  \* the items a capture call was made for
  wire,      \* what the transport took, in order
  filtered,  \* what the host's hook left out on purpose
  ledger,    \* the reasons recorded for each item
  said,      \* evictions counted and said by report_buffer_evicted
  signals,   \* how many signals have landed
  host,      \* the scenario: what this host does
  orphaned,  \* items lost with a buffer nobody refers to
  resent     \* items that a drain took out of a buffer another one had taken

vars == <<buf, dropped, closed, drained, stopped, jobs, pc, op, item, old,
          batch, sent, cut, back, captured, wire, filtered, ledger,
          said, signals, host, orphaned, resent>>

flags    == <<closed, drained, stopped, signals, host>>
drainer  == <<batch, sent, cut, back>>
outcomes == <<wire, filtered, said>>
strays   == <<orphaned, resent>>

Empty == [k \in Kinds |-> <<>>]
Live  == [stale |-> FALSE, items |-> <<>>]

Pcs == {"idle", "admit", "enter", "room", "evict", "append", "snapshot",
        "submit", "pop", "count", "stop", "parse", "acquire", "swap", "spans",
        "states", "hook", "export", "undelivered", "giveBack", "prepend", "release",
        "abandon", "leaveSpans", "leaveStates", "closeTransport"}

TypeOK ==
  /\ buf \in [Kinds -> Seq(Items)]
  /\ dropped \in Nat
  /\ closed \in BOOLEAN /\ drained \in BOOLEAN /\ stopped \in BOOLEAN
  /\ jobs \subseteq Spans
  /\ pc \in [Frames -> Pcs]
  /\ op \in [Frames -> Ops \cup {Nothing}]
  /\ item \in [Frames -> Items \cup {Nothing}]
  /\ old \in [Frames -> [stale : BOOLEAN, items : Seq(Items)]]
  /\ batch \in [Frames -> [Kinds -> Seq(Items)]]
  /\ sent \in [Frames -> [Kinds -> Seq(Items)]]
  /\ cut \in [Frames -> Nat]
  /\ back \in [Frames -> Nat]
  /\ captured \subseteq Items
  /\ wire \in Seq(Items)
  /\ filtered \subseteq Items
  /\ ledger \in [Items -> Seq(Reasons)]
  /\ said \in Nat
  /\ signals \in 0 .. MaxSignals
  /\ host \in Scenarios
  /\ orphaned \subseteq Items /\ resent \subseteq Items

Init ==
  /\ buf = Empty
  /\ dropped = 0
  /\ closed = FALSE /\ drained = FALSE /\ stopped = FALSE
  /\ jobs = {}
  /\ pc = [f \in Frames |-> "idle"]
  /\ op = [f \in Frames |-> Nothing]
  /\ item = [f \in Frames |-> Nothing]
  /\ old = [f \in Frames |-> Live]
  /\ batch = [f \in Frames |-> Empty]
  /\ sent = [f \in Frames |-> Empty]
  /\ cut = [f \in Frames |-> 0]
  /\ back = [f \in Frames |-> 0]
  /\ captured = {}
  /\ wire = <<>>
  /\ filtered = {}
  /\ ledger = [i \in Items |-> <<>>]
  /\ said = 0
  /\ signals = 0
  /\ host \in Scenarios
  /\ orphaned = {} /\ resent = {}

-----------------------------------------------------------------------------
(* Frames and locks.                                                        *)

Thread(f) == f[1]
Base(f)   == <<f[1], "base">>
Nested(f) == <<f[1], "nested">>

Runs(f) == f[2] = "base" => pc[Nested(f)] = "idle"

MayCall(f, what) ==
  /\ Runs(f) /\ pc[f] = "idle"
  /\ f[2] = "nested" => pc[Base(f)] # "idle"
  /\ what \in host.calls[f]

At(f, label) == Runs(f) /\ pc[f] = label

Goto(f, label) == pc' = [pc EXCEPT ![f] = label]

\* Inside a `with self._buffer_lock`, and between an export slot's acquire and
\* its release.
InBuffer(f) == pc[f] \in {"room", "evict", "append", "pop", "count", "giveBack",
                          "prepend", "spans", "states", "leaveSpans", "leaveStates"}
InExport(f) == pc[f] \in {"swap", "spans", "states", "hook", "export", "undelivered", "giveBack",
                          "prepend", "release"}

CanTakeBuffer(f) == \A g \in Frames : InBuffer(g) => Thread(g) = Thread(f)
CanTakeExport(f) == \A g \in Frames : InExport(g) => Thread(g) = Thread(f)

-----------------------------------------------------------------------------
(* The ledger as the client uses it: one record per lost item.              *)

InSeqs(b) == ToSet(b["span"]) \cup ToSet(b["snapshot"])

Record(lost, reason) ==
  ledger' = [i \in Items |-> IF i \in lost THEN Append(ledger[i], reason)
                                           ELSE ledger[i]]

\* _return_to_buffer walks the spans, then the snapshots, newest first.
NextBack(f) ==
  LET k == IF batch[f]["span"] # <<>> THEN "span" ELSE "snapshot"
  IN  Last(batch[f][k])

\* What a frame has read of the buffer of one kind and goes on to change.
Holds(g, k) ==
  \/ pc[g] \in (IF k = "span" THEN {"evict", "spans", "leaveSpans"} ELSE {"pop", "count", "states", "leaveStates"})
  \/ pc[g] = "append" /\ Kind(item[g]) = k
  \/ pc[g] = "prepend" /\ Kind(NextBack(g)) = k

\* A swap leaves the frame it interrupted with a reference to the old buffer.
Orphan(f, k) ==
  old' = [g \in Frames |->
            IF g = f THEN Live
            ELSE IF Thread(g) = Thread(f) /\ Holds(g, k) /\ ~ old[g].stale
              THEN [stale |-> TRUE,
                    items |-> IF pc[g] = "count" THEN old[g].items ELSE buf[k]]
              ELSE old[g]]

-----------------------------------------------------------------------------
(* Captures.                                                                *)

\* capture_span and capture_snapshot: a closed client counts and refuses.
Capture(f, i) ==
  /\ MayCall(f, Kind(i)) /\ i \in host.items \ captured
  /\ captured' = captured \cup {i}
  /\ IF closed
       THEN Record({i}, "after_close") /\ UNCHANGED <<pc, op, item>>
       ELSE /\ Goto(f, IF i \in Spans THEN "admit" ELSE "snapshot")
            /\ op' = [op EXCEPT ![f] = Kind(i)]
            /\ item' = [item EXCEPT ![f] = i]
            /\ UNCHANGED ledger
  /\ UNCHANGED <<buf, dropped, flags, jobs, old, drainer, outcomes, strays>>

\* capture_deferred: refused and counted, or on its way into the queue ...
CaptureDeferred(f, i) ==
  /\ MayCall(f, "deferred") /\ i \in host.items \ captured
  /\ captured' = captured \cup {i}
  /\ IF closed
       THEN Record({i}, "after_close") /\ UNCHANGED <<pc, op, item>>
       ELSE /\ Goto(f, "submit")
            /\ op' = [op EXCEPT ![f] = "deferred"]
            /\ item' = [item EXCEPT ![f] = i]
            /\ UNCHANGED ledger
  /\ UNCHANGED <<buf, dropped, flags, jobs, old, drainer, outcomes, strays>>

\* ... where a worker will find it, for which the oldest job may have to make
\* way, assembled without a parse and admitted at once; so is the job itself
\* when it is over the queue's byte bound or no worker can be spawned.
Submit(f) ==
  /\ At(f, "submit")
  /\ \/ /\ jobs' = jobs \cup {item[f]}
        /\ item' = [item EXCEPT ![f] = Nothing]
        /\ op' = [op EXCEPT ![f] = Nothing]
        /\ Goto(f, "idle")
     \/ \E j \in jobs :
          /\ jobs' = (jobs \ {j}) \cup {item[f]}
          /\ item' = [item EXCEPT ![f] = j]
          /\ Goto(f, "admit")
          /\ UNCHANGED op
     \/ Goto(f, "admit") /\ UNCHANGED <<jobs, item, op>>
  /\ UNCHANGED <<buf, dropped, flags, old, drainer, captured, outcomes, ledger,
                 strays>>

\* Where _admit returns to: a capture ends; a frame that was draining the
\* finalize queue goes on with it.
Admitted(f) ==
  /\ item' = [item EXCEPT ![f] = Nothing]
  /\ IF op[f] \in {"flush", "signal", "close"}
       THEN Goto(f, "parse") /\ UNCHANGED op
       ELSE Goto(f, "idle") /\ op' = [op EXCEPT ![f] = Nothing]

\* _admit reads _finalize_drained before it takes the buffer lock.
Admit(f) ==
  /\ At(f, "admit")
  /\ IF drained
       THEN /\ CanTakeBuffer(f)
            /\ Record({item[f]}, "shutdown_tail")
            /\ Admitted(f)
       ELSE Goto(f, "enter") /\ UNCHANGED <<ledger, op, item>>
  /\ UNCHANGED <<buf, dropped, flags, jobs, old, drainer, captured, outcomes,
                 strays>>

EnterBuffer(f) ==
  /\ At(f, "enter") /\ CanTakeBuffer(f)
  /\ Goto(f, "room")
  /\ UNCHANGED <<buf, dropped, flags, jobs, op, item, old, drainer, captured,
                 outcomes, ledger, strays>>

Bytes(s) == Weight(s, Size)

\* An empty buffer accepts anything, a span over the byte budget included.
Fits(i) ==
  LET b == buf[Kind(i)]
  IN  \/ b = <<>>
      \/ /\ Len(b) < MaxSpans
         /\ i \in Spans => Bytes(b) + Size[i] <= MaxBytes

\* The loop condition: evict from the buffer just read, or append to it.
Room(f) ==
  /\ At(f, "room")
  /\ Goto(f, IF Fits(item[f]) THEN "append" ELSE "evict")
  /\ old' = [old EXCEPT ![f] = Live]
  /\ UNCHANGED <<buf, dropped, flags, jobs, op, item, drainer, captured,
                 outcomes, ledger, strays>>

\* buf.evict_oldest(), _dropped += 1 and the record.  A buffer that was swapped
\* away since the check still has its oldest span, which is counted although
\* the drain disposed of it.
Evict(f) ==
  /\ At(f, "evict")
  /\ IF old[f].stale
       THEN /\ Record({Head(old[f].items)}, "queue_overflow")
            /\ UNCHANGED buf
       ELSE /\ Record({Head(buf["span"])}, "queue_overflow")
            /\ buf' = [buf EXCEPT !["span"] = Tail(@)]
  /\ dropped' = dropped + 1
  /\ Goto(f, "room")
  /\ UNCHANGED <<flags, jobs, op, item, old, drainer, captured, outcomes,
                 strays>>

\* An append to a buffer that was swapped away is lost, uncounted: _admit's
\* comment names the window.
Append1(f) ==
  /\ At(f, "append")
  /\ IF old[f].stale
       THEN orphaned' = orphaned \cup {item[f]} /\ UNCHANGED buf
       ELSE /\ buf' = [buf EXCEPT ![Kind(item[f])] = Append(@, item[f])]
            /\ UNCHANGED orphaned
  /\ Admitted(f)
  /\ UNCHANGED <<dropped, flags, jobs, old, drainer, captured, outcomes,
                 ledger, resent>>

\* capture_snapshot evicts one snapshot at most, and counts it only if the
\* buffer it popped from is still the client's.
EnterSnapshot(f) ==
  /\ At(f, "snapshot") /\ CanTakeBuffer(f)
  /\ Goto(f, IF Fits(item[f]) THEN "append" ELSE "pop")
  /\ old' = [old EXCEPT ![f] = Live]
  /\ UNCHANGED <<buf, dropped, flags, jobs, op, item, drainer, captured,
                 outcomes, ledger, strays>>

PopSnapshot(f) ==
  /\ At(f, "pop")
  /\ Goto(f, "count")
  /\ IF old[f].stale
       THEN old' = [old EXCEPT ![f].items = <<>>] /\ UNCHANGED buf
       ELSE /\ old' = [old EXCEPT ![f].items = <<Head(buf["snapshot"])>>]
            /\ buf' = [buf EXCEPT !["snapshot"] = Tail(@)]
  /\ UNCHANGED <<dropped, flags, jobs, op, item, drainer, captured, outcomes,
                 ledger, strays>>

CountSnapshot(f) ==
  /\ At(f, "count")
  /\ IF old[f].stale
       THEN /\ orphaned' = orphaned \cup ToSet(old[f].items)
            /\ UNCHANGED <<dropped, ledger>>
       ELSE /\ dropped' = dropped + 1
            /\ Record(ToSet(old[f].items), "queue_overflow")
            /\ UNCHANGED orphaned
  /\ old' = [old EXCEPT ![f] = Live]
  /\ Goto(f, "append")
  /\ UNCHANGED <<buf, flags, jobs, op, item, drainer, captured, outcomes, resent>>

-----------------------------------------------------------------------------
(* flush, the signal handler's _shutdown_flush, close, the periodic drain   *)
(* and the finalize worker's loop.                                          *)

Call(f, what, label) ==
  /\ MayCall(f, what)
  /\ op' = [op EXCEPT ![f] = what]
  /\ Goto(f, label)
  /\ UNCHANGED <<buf, dropped, jobs, item, old, drainer, captured, outcomes,
                 ledger, strays>>

Flush(f) == Call(f, "flush", "parse") /\ UNCHANGED flags

ShutdownFlush(f) ==
  /\ signals < MaxSignals
  /\ signals' = signals + 1
  /\ Call(f, "signal", "parse")
  /\ UNCHANGED <<closed, drained, stopped, host>>

Periodic(f) == ~ stopped /\ Call(f, "periodic", "acquire") /\ UNCHANGED flags

\* close() steps 1 to 3: the one caller that finds the client open closes it,
\* tells both workers to stop and waits for each no longer than its budget.
Close(f) ==
  /\ ~ closed
  /\ closed' = TRUE
  /\ Call(f, "close", "stop")
  /\ UNCHANGED <<drained, stopped, signals, host>>

StopWorkers(f) ==
  /\ At(f, "stop")
  /\ stopped' = TRUE
  /\ Goto(f, "parse")
  /\ UNCHANGED <<buf, dropped, closed, drained, signals, host, jobs, op, item, old,
                 drainer, captured, outcomes, ledger, strays>>

\* The finalize worker takes a job; its span is in its hands until admitted.
Parse(f, i) ==
  /\ MayCall(f, "parse") /\ ~ stopped /\ i \in jobs
  /\ jobs' = jobs \ {i}
  /\ op' = [op EXCEPT ![f] = "parse"]
  /\ item' = [item EXCEPT ![f] = i]
  /\ Goto(f, "admit")
  /\ UNCHANGED <<buf, dropped, flags, old, drainer, captured, outcomes,
                 ledger, strays>>

\* drain_all: the calling frame finishes jobs itself ...
ParseJob(f, i) ==
  /\ At(f, "parse") /\ i \in jobs
  /\ jobs' = jobs \ {i}
  /\ item' = [item EXCEPT ![f] = i]
  /\ Goto(f, "admit")
  /\ UNCHANGED <<buf, dropped, flags, op, old, drainer, captured, outcomes,
                 ledger, strays>>

\* ... flush() until its budget ends (KEEP), the others until none is waiting
\* (FALLBACK).  close() then raises _finalize_drained, before its final drain.
ParsesDone(f) ==
  /\ At(f, "parse")
  /\ op[f] # "flush" => jobs = {}
  /\ drained' = (drained \/ op[f] = "close")
  /\ Goto(f, "acquire")
  /\ UNCHANGED <<buf, dropped, closed, stopped, signals, host, jobs, op, item, old,
                 drainer, captured, outcomes, ledger, strays>>

-----------------------------------------------------------------------------
(* _drain.                                                                  *)

Acquire(f) ==
  /\ At(f, "acquire") /\ CanTakeExport(f)
  /\ Goto(f, "swap")
  /\ UNCHANGED <<buf, dropped, flags, jobs, op, item, old, drainer, captured,
                 outcomes, ledger, strays>>

\* Fault: the signal handler's drain waits for the slot without a limit.
DeclineUnlessSignal(f) ==
  /\ At(f, "acquire") /\ ~ CanTakeExport(f)
  /\ op[f] \notin {"periodic", "signal"}
  /\ IF op[f] = "close"
       THEN Goto(f, "abandon") /\ UNCHANGED op
       ELSE Goto(f, "idle") /\ op' = [op EXCEPT ![f] = Nothing]
  /\ UNCHANGED <<buf, dropped, flags, jobs, item, old, drainer, captured,
                 outcomes, ledger, strays>>

\* The timed acquire ran out behind another thread's drain.  Only the periodic
\* drain waits without a limit.
Decline(f) ==
  /\ At(f, "acquire") /\ ~ CanTakeExport(f)
  /\ op[f] # "periodic"
  /\ IF op[f] = "close"
       THEN Goto(f, "abandon") /\ UNCHANGED op
       ELSE Goto(f, "idle") /\ op' = [op EXCEPT ![f] = Nothing]
  /\ UNCHANGED <<buf, dropped, flags, jobs, item, old, drainer, captured,
                 outcomes, ledger, strays>>

\* Inside the buffer lock a drain replaces first the spans, then the snapshots, each in
\* `old, self._x = self._x, Empty()`: read, call, store.  In the call, here between the
\* label and its action, a nested frame may run and drain the same buffer.
Swap(f) ==
  /\ At(f, "swap") /\ CanTakeBuffer(f)
  /\ Goto(f, "spans")
  /\ old' = [old EXCEPT ![f] = Live]
  /\ UNCHANGED <<buf, dropped, flags, jobs, op, item, drainer, captured, outcomes,
                 ledger, strays>>

\* What was read is taken, a second time if it was drained in between; what was put
\* into the client's buffer since then is lost with it.
Taken(f, k) == IF old[f].stale THEN old[f].items ELSE buf[k]

Store(f, k) ==
  /\ buf' = [buf EXCEPT ![k] = <<>>]
  /\ orphaned' = orphaned \cup (ToSet(buf[k]) \ ToSet(Taken(f, k)))
  /\ Orphan(f, k)

Take(f, k) ==
  /\ Store(f, k)
  /\ batch' = [batch EXCEPT ![f][k] = Taken(f, k)]
  /\ resent' = IF old[f].stale THEN resent \cup ToSet(old[f].items) ELSE resent

TakeSpans(f) ==
  /\ At(f, "spans") /\ Take(f, "span")
  /\ Goto(f, "states")
  /\ UNCHANGED <<dropped, flags, jobs, op, item, sent, cut, back, captured, outcomes, ledger>>

\* Fault: the snapshots are copied and left where they are.
CopyStates(f) ==
  /\ At(f, "states") /\ Orphan(f, "snapshot")
  /\ batch' = [batch EXCEPT ![f]["snapshot"] = Taken(f, "snapshot")]
  /\ cut' = [cut EXCEPT ![f] = dropped]
  /\ dropped' = 0
  /\ Goto(f, IF batch'[f] = Empty THEN "release" ELSE "hook")
  /\ UNCHANGED <<buf, flags, jobs, op, item, sent, back, captured, outcomes, ledger, strays>>

\* The evictions are taken over with the snapshots.  An empty batch may still carry a
\* ledger report; either way nothing of the client's is at stake.
TakeStates(f) ==
  /\ At(f, "states") /\ Take(f, "snapshot")
  /\ cut' = [cut EXCEPT ![f] = dropped]
  /\ dropped' = 0
  /\ Goto(f, IF batch'[f] = Empty THEN "release" ELSE "hook")
  /\ UNCHANGED <<flags, jobs, op, item, sent, back, captured, outcomes, ledger>>

Disposed(f) ==
  /\ batch' = [batch EXCEPT ![f] = Empty]
  /\ sent' = [sent EXCEPT ![f] = Empty]
  /\ Goto(f, "release")

\* What a filter may leave of a sequence.
Picks(n, m)      == {p \in [1 .. n -> 1 .. m] : \A a, b \in 1 .. n : a < b => p[a] < p[b]}
Subsequences(s)  == UNION {{[j \in 1 .. n |-> s[p[j]]] : p \in Picks(n, Len(s))} : n \in 0 .. Len(s)}

\* before_send_envelope passes the batch, leaves some of it out, ...
HookReturns(f) ==
  /\ At(f, "hook")
  /\ \E kept \in Subsequences(batch[f]["span"]), states \in Subsequences(batch[f]["snapshot"]) :
       sent' = [sent EXCEPT ![f] = [k \in Kinds |-> IF k = "span" THEN kept ELSE states]]
  /\ Goto(f, "export")
  /\ UNCHANGED <<buf, dropped, flags, jobs, op, item, old, batch, cut, back,
                 captured, outcomes, ledger, strays>>

\* ... or drops it whole: on purpose (None), or by raising.
HookDrops(f) ==
  /\ At(f, "hook")
  /\ \E reason \in {"before_send", "before_send_error"} :
       Record(InSeqs(batch[f]), reason)
  /\ Disposed(f)
  /\ UNCHANGED <<buf, dropped, flags, jobs, op, item, old, cut, back,
                 captured, outcomes, strays>>

\* transport.export(): it took the envelope ...
ExportDelivers(f) ==
  /\ At(f, "export")
  /\ wire' = wire \o sent[f]["span"] \o sent[f]["snapshot"]
  /\ filtered' = filtered \cup (InSeqs(batch[f]) \ InSeqs(sent[f]))
  /\ Disposed(f)
  /\ UNCHANGED <<buf, dropped, flags, jobs, op, item, old, cut, back,
                 captured, said, ledger, strays>>

\* ... it failed and counted the envelope's items itself, or it raised and the
\* drain counts them: never twice (already_unsent) ...
ExportFails(f) ==
  /\ At(f, "export")
  /\ Record(InSeqs(sent[f]), "send_error")
  /\ filtered' = filtered \cup (InSeqs(batch[f]) \ InSeqs(sent[f]))
  /\ Disposed(f)
  /\ UNCHANGED <<buf, dropped, flags, jobs, op, item, old, cut, back,
                 captured, wire, said, strays>>

\* ... or it answered UNDELIVERED: the batch as it was swapped out is still the
\* drain's.
ExportDeclines(f) ==
  /\ At(f, "export")
  /\ Goto(f, "undelivered")
  /\ UNCHANGED <<buf, dropped, flags, jobs, op, item, old, drainer, captured,
                 outcomes, ledger, strays>>

\* Fault: only close()'s own drain counts its batch.
UndeliveredByCaller(f) ==
  /\ At(f, "undelivered") /\ CanTakeBuffer(f)
  /\ IF op[f] = "close"
       THEN Record(InSeqs(batch[f]), "shutdown_tail") /\ Disposed(f)
       ELSE Goto(f, "giveBack") /\ UNCHANGED <<ledger, batch, sent>>
  /\ UNCHANGED <<buf, dropped, flags, jobs, op, item, old, cut, back,
                 captured, outcomes, strays>>

\* _undelivered: close()'s drain, and any drain of a closed client, counts the
\* batch; the others give it back.  _closed is read under the buffer lock.
Undelivered(f) ==
  /\ At(f, "undelivered") /\ CanTakeBuffer(f)
  /\ IF op[f] = "close" \/ closed
       THEN Record(InSeqs(batch[f]), "shutdown_tail") /\ Disposed(f)
       ELSE Goto(f, "giveBack") /\ UNCHANGED <<ledger, batch, sent>>
  /\ UNCHANGED <<buf, dropped, flags, jobs, op, item, old, cut, back,
                 captured, outcomes, strays>>

WithoutNext(f) ==
  LET k == Kind(NextBack(f)) IN [batch EXCEPT ![f][k] = Front(@)]

GiveBack(f) ==
  /\ At(f, "giveBack") /\ batch[f] # Empty
  /\ IF Fits(NextBack(f))
       THEN Goto(f, "prepend") /\ UNCHANGED <<batch, back, ledger>>
       ELSE /\ Record({NextBack(f)}, "queue_overflow")
            /\ back' = [back EXCEPT ![f] = @ + 1]
            /\ batch' = WithoutNext(f)
            /\ UNCHANGED pc
  /\ old' = [old EXCEPT ![f] = Live]
  /\ UNCHANGED <<buf, dropped, flags, jobs, op, item, sent, cut, captured,
                 outcomes, strays>>

\* Fault: the batch goes back behind what was captured meanwhile.
PrependAtEnd(f) ==
  /\ At(f, "prepend")
  /\ IF old[f].stale
       THEN orphaned' = orphaned \cup {NextBack(f)} /\ UNCHANGED buf
       ELSE /\ buf' = [buf EXCEPT ![Kind(NextBack(f))] = Append(@, NextBack(f))]
            /\ UNCHANGED orphaned
  /\ batch' = WithoutNext(f)
  /\ Goto(f, "giveBack")
  /\ UNCHANGED <<dropped, flags, jobs, op, item, old, sent, cut, back,
                 captured, outcomes, ledger, resent>>

Prepend(f) ==
  /\ At(f, "prepend")
  /\ IF old[f].stale
       THEN orphaned' = orphaned \cup {NextBack(f)} /\ UNCHANGED buf
       ELSE /\ buf' = [buf EXCEPT ![Kind(NextBack(f))] = <<NextBack(f)>> \o @]
            /\ UNCHANGED orphaned
  /\ batch' = WithoutNext(f)
  /\ Goto(f, "giveBack")
  /\ UNCHANGED <<dropped, flags, jobs, op, item, old, sent, cut, back,
                 captured, outcomes, ledger, resent>>

GivenBack(f) ==
  /\ At(f, "giveBack") /\ batch[f] = Empty
  /\ dropped' = dropped + back[f]
  /\ back' = [back EXCEPT ![f] = 0]
  /\ Disposed(f)
  /\ UNCHANGED <<buf, flags, jobs, op, item, old, cut, captured, outcomes,
                 ledger, strays>>

\* The finally: the slot is released, then the evictions are counted and said.
Release(f) ==
  /\ At(f, "release")
  /\ said' = said + cut[f]
  /\ cut' = [cut EXCEPT ![f] = 0]
  /\ IF op[f] = "close"
       THEN Goto(f, "closeTransport") /\ UNCHANGED op
       ELSE Goto(f, "idle") /\ op' = [op EXCEPT ![f] = Nothing]
  /\ UNCHANGED <<buf, dropped, flags, jobs, item, old, batch, sent, back,
                 captured, wire, filtered, ledger, strays>>

\* _abandon: the tail close()'s drain got no slot for is taken out the same way, and
\* counted.
Abandon(f) ==
  /\ At(f, "abandon") /\ CanTakeBuffer(f)
  /\ Goto(f, "leaveSpans")
  /\ old' = [old EXCEPT ![f] = Live]
  /\ UNCHANGED <<buf, dropped, flags, jobs, op, item, drainer, captured, outcomes,
                 ledger, strays>>

LeaveSpans(f) ==
  /\ At(f, "leaveSpans") /\ Store(f, "span")
  /\ Record(ToSet(Taken(f, "span")), "shutdown_tail")
  /\ Goto(f, "leaveStates")
  /\ UNCHANGED <<dropped, flags, jobs, op, item, drainer, captured, outcomes, resent>>

LeaveStates(f) ==
  /\ At(f, "leaveStates") /\ Store(f, "snapshot")
  /\ Record(ToSet(Taken(f, "snapshot")), "shutdown_tail")
  /\ said' = said + dropped
  /\ dropped' = 0
  /\ Goto(f, "closeTransport")
  /\ UNCHANGED <<flags, jobs, op, item, drainer, captured, wire, filtered, resent>>

CloseTransport(f) ==
  /\ At(f, "closeTransport")
  /\ Goto(f, "idle")
  /\ op' = [op EXCEPT ![f] = Nothing]
  /\ UNCHANGED <<buf, dropped, flags, jobs, item, old, drainer, captured,
                 outcomes, ledger, strays>>

-----------------------------------------------------------------------------
Start(f) ==
  \/ \E i \in Items : Capture(f, i)
  \/ \E i \in Spans : CaptureDeferred(f, i) \/ Parse(f, i)
  \/ Flush(f) \/ ShutdownFlush(f) \/ Periodic(f) \/ Close(f)

Export(f) == ExportDelivers(f) \/ ExportFails(f) \/ ExportDeclines(f)

Continue(f) ==
  \/ Submit(f) \/ Admit(f) \/ EnterBuffer(f) \/ Room(f) \/ Evict(f) \/ Append1(f)
  \/ EnterSnapshot(f) \/ PopSnapshot(f) \/ CountSnapshot(f)
  \/ StopWorkers(f) \/ (\E i \in Spans : ParseJob(f, i)) \/ ParsesDone(f)
  \/ Acquire(f) \/ Decline(f) \/ Swap(f) \/ TakeSpans(f) \/ TakeStates(f) \/ HookReturns(f) \/ HookDrops(f)
  \/ Undelivered(f) \/ GiveBack(f) \/ Prepend(f) \/ GivenBack(f)
  \/ Release(f) \/ Abandon(f) \/ LeaveSpans(f) \/ LeaveStates(f) \/ CloseTransport(f)

Next == \E f \in Frames : Start(f) \/ Continue(f) \/ Export(f)

Spec == Init /\ [][Next]_vars

\* Every thread runs on and every lock is handed on; finalizers and signals do
\* not land on one thread for ever; and a host thread's own export ends within
\* the budget it was given.  The worker's export has none, and may hang.
FairSpec ==
  /\ Spec
  /\ \A f \in Frames : SF_vars(Continue(f))
  /\ \A f \in Threads \X Levels : SF_vars(Export(f))

-----------------------------------------------------------------------------
\* In how many places item i is: in a frame's hands, queued, buffered, in a
\* batch, sent, counted, filtered, or in a buffer nobody refers to.
Places(i) ==
    Cardinality({f \in Frames : item[f] = i})
  + Cardinality({f \in Frames : pc[f] = "count" /\ i \in ToSet(old[f].items)})
  + Bit(i \in jobs)
  + Occurs(i, buf[Kind(i)])
  + Total([f \in Frames |-> Occurs(i, batch[f][Kind(i)])])
  + Occurs(i, wire)
  + Len(ledger[i])
  + Bit(i \in filtered)
  + Bit(i \in orphaned)

\* Nothing is lost in silence, sent twice or counted twice: what was captured
\* is in one place, whatever captures, finalizers, flushes, periodic drains,
\* parses, declined exports and a close() do at the same time.  (Once a
\* signal's drain has sent a buffer under an eviction, a span that was not lost
\* is counted as lost: see Evict.)
OnePlace == signals = 0 => \A i \in Items : Places(i) = Bit(i \in captured)

\* A finalizer may capture inside another capture, or a signal's drain admit spans there.
Nests == \E f \in Frames : f[2] = "nested" /\ host.calls[f] # {}

\* The two bounds hold after every call, a batch on its way back included; only
\* a single span over the byte budget may exceed it.  A finalizer's capture that
\* lands between the bounds check and the append of the frame it interrupted
\* costs one item over the bound, never more.
BufferBounded ==
  /\ \A k \in Kinds : Len(buf[k]) <= MaxSpans + Bit(Nests)
  /\ Len(buf["span"]) > 1 /\ ~ Nests => Bytes(buf["span"]) <= MaxBytes

\* The queue a host may imagine: what the drain that has the slot swapped out,
\* then what is buffered.  A swap and a give-back do not change it.
Queue ==
  [k \in Kinds |->
     LET drains == {f \in Frames : batch[f] # Empty}
     IN  (IF drains = {} THEN <<>> ELSE batch[CHOOSE f \in drains : TRUE][k])
           \o buf[k]]

\* What was counted, or is in the hand of the frame that popped it to count it.
Counted ==
  {i \in Items : ledger[i] # <<>>}
    \cup UNION {ToSet(old[f].items) : f \in {g \in Frames : pc[g] = "count"}}

Abstract ==
  INSTANCE Outbox WITH
    KindOf  <- [i \in Items |-> Kind(i)],
    offered <- captured,
    queue   <- Queue,
    counted <- Counted

\* The client is an Outbox: with any number of threads capturing, draining and
\* closing at once it is still one queue, sent in order from its front, out of
\* which nothing disappears uncounted.
ImplementsOutbox == Abstract!Spec

\* Every eviction the ledger recorded is counted and said once: by a drain that
\* reported it, or by the counters the next drain will read.
EvictionsSaid ==
  Total([i \in Items |-> Occurs("queue_overflow", ledger[i])])
    = said + dropped + Total([f \in Frames |-> cut[f] + back[f]])

\* close()'s final drain has taken, or abandoned, what was in the buffer.
Closing(f)  == op[f] = "close" /\ pc[f] \notin {"hook", "export", "undelivered",
                                                "release", "closeTransport"}
FinalTaken  == closed /\ \A f \in Frames : ~ Closing(f)

\* _return_to_buffer reads _closed under the lock _abandon and the final drain
\* swap under: no batch goes back into a buffer that was emptied for good.
NoGiveBackAfterFinal ==
  FinalTaken => \A f \in Frames : pc[f] \notin {"giveBack", "prepend"}

\* What close()'s comment on _finalize_drained promises: once the final drain
\* is over no span is parked in the buffer of the closed client.
NothingParked == FinalTaken /\ (\A f \in Frames : pc[f] = "idle") => buf = Empty

\* What _client.py:444 says of the re-reads: nested acquisition of both locks cannot
\* duplicate anything (_client.py:447).
NeverTwice == \A i \in Items : Occurs(i, wire) <= 1

\* No item reaches the transport twice, and none that reached it is still where
\* a later drain would find it, even when a signal's flush runs inside another
\* drain or inside a capture: but for what was in a buffer that the signal's drain took
\* between the other drain's read of it and its store.
OnWireOnce ==
  \A i \in ToSet(wire) \ resent :
    /\ Occurs(i, wire) = 1
    /\ i \notin InSeqs(buf)
    /\ \A f \in Frames : i \notin InSeqs(batch[f]) /\ item[f] # i

\* Every call of a host thread comes back, the nested ones too: the acquire of
\* the export slot is timed wherever the buffer lock may be held, so a signal
\* handler and the worker cannot wait for each other, and a worker hung in the
\* transport holds up neither flush() nor close().
CallsReturn ==
  \A f \in Threads \X Levels : pc[f] # "idle" ~> pc[f] = "idle"

\* What threads, finalizers, drains, parses, declined exports and a close() do to one
\* client at the same time: every item is in one place, both buffers are within their
\* bounds, every eviction is said, and no batch goes back for ever.
Accounted ==
  /\ TypeOK
  /\ OnePlace
  /\ BufferBounded
  /\ EvictionsSaid
  /\ NoGiveBackAfterFinal

\* What a signal's flush, run inside a capture or another drain, must not disturb: an
\* item is sent once and not kept, whatever else went out twice, and an eviction is
\* said once.
SentOnce == OnWireOnce /\ EvictionsSaid

=============================================================================
