------------------------------ MODULE OpenSpans ------------------------------
(***************************************************************************)
(* The table of open manual spans (_runtime.py) and those who compete for  *)
(* its entries: the blocks of `with wardex.span()` as they end             *)
(* (_tracing.py), close(), and the handler of a signal the process dies    *)
(* of; with re-initialisation and fork, which leave blocks open.           *)
(*                                                                         *)
(* Frames are as in Client: a signal handler runs to its end on top of the *)
(* main thread's base frame.  A client is what the runtime sees of it: a   *)
(* bounded buffer that can be drained, or not in time, and closed.  Spans  *)
(* are numbered in the order they are opened.                              *)
(***************************************************************************)
EXTENDS Naturals, Sequences, SequencesExt, FiniteSets, FiniteSetsExt, Counting

CONSTANTS
  MaxSpans,            \* bound: how many blocks are opened
  Main, Other,         \* the thread signals are handled on, and another one
  MaxOpen, Chunk,      \* _MAX_OPEN_SPANS, _CUT_OFF_CHUNK
  MaxBuffer,           \* max_buffer_spans
  MaxClients,          \* bound: how many clients there are, one after the other
  MaxSignals,          \* bound: how many signals arrive
  Scenarios            \* bound: what each thread does, and what a signal did before wardex

Nothing == "nothing"
Spans   == 1 .. MaxSpans
Clients == 1 .. MaxClients
Base    == <<Main, "base">>
Handler == <<Main, "nested">>
Beside  == <<Other, "base">>
Frames  == {Base, Handler, Beside}
Calls   == {"open", "end", "close", "init", "fork"}

\* The disposition wardex chained over: SIG_DFL, a handler that raises (the
\* interpreter's own for SIGINT), or one that returns (and SIG_IGN).
Dispositions == {"default", "raises", "returns"}

ASSUME OpenSpansAssumption ==
  /\ Main # Other
  /\ MaxSpans \in Nat /\ MaxOpen \in Nat \ {0} /\ Chunk \in Nat \ {0}
  /\ MaxBuffer \in Nat \ {0} /\ MaxClients \in Nat \ {0} /\ MaxSignals \in Nat
  /\ Scenarios \subseteq [calls : [{Base, Beside} -> SUBSET Calls], prev : Dispositions,
                          spans : SUBSET Spans]

VARIABLES
  client, closed,      \* _client, and the clients that are closed
  buffer,              \* per client, what its buffer holds
  open, in_flight,     \* _open_spans, _cut_off_in_flight
  block,               \* per span, where its block is
  elsewhere,           \* open spans that are not in the table: it was full, or it is
                       \* the parent's, which blocks that cross a fork still hold
  pc, op,              \* where each frame is, and in which call
  using,               \* the client it works on
  keys, chunk,         \* the keys it has yet to take, and what it took
  dead, forked,        \* the process died of a signal; it is a fork's child
  shipped, counted,    \* how often each span was shipped, or counted as lost
  unwound,             \* spans in the hands of a call that an exception ended
  cut,                 \* spans a shutdown put into the buffer, with their blocks open
  due,                 \* the spans a deadly signal found in the table of an open client
  parents,             \* spans begun before the fork this process comes from
  signals, host

clients == <<client, closed>>
blocks  == <<open, in_flight, block, elsewhere>>
calls   == <<op, using, keys, chunk>>
process == <<dead, forked, signals, host>>
ghosts  == <<unwound, cut, due, parents>>
vars == <<clients, buffer, blocks, pc, calls, process, shipped, counted, ghosts>>

Pcs == {"idle", "lock", "begin", "interrupt", "pop", "count", "buffer", "uncount", "refused",
        "sweep", "sweeping", "report", "shut", "set", "ended", "emit", "state", "flush"}

Init ==
  /\ client = 1 /\ closed = {}
  /\ buffer = [c \in Clients |-> <<>>]
  /\ open = <<>> /\ in_flight = 0 /\ elsewhere = {}
  /\ block = [s \in Spans |-> "new"]
  /\ pc = [f \in Frames |-> "idle"] /\ op = [f \in Frames |-> Nothing]
  /\ using = [f \in Frames |-> 1]
  /\ keys = [f \in Frames |-> <<>>] /\ chunk = [f \in Frames |-> <<>>]
  /\ dead = FALSE /\ forked = FALSE
  /\ shipped = [s \in Spans |-> 0] /\ counted = [s \in Spans |-> 0]
  /\ unwound = {} /\ cut = {} /\ due = {} /\ parents = {}
  /\ signals = 0 /\ host \in Scenarios

-----------------------------------------------------------------------------
(* Frames, the lock, and what a client does.                                *)

Runs(f)        == ~dead /\ (f = Base => pc[Handler] = "idle")
At(f, label)   == Runs(f) /\ pc[f] = label
Goto(f, label) == pc' = [pc EXCEPT ![f] = label]
Return(f)      == Goto(f, "idle") /\ op' = [op EXCEPT ![f] = Nothing]
Put(v, f, x)   == [v EXCEPT ![f] = x]

MayCall(f, what) ==
  /\ f # Handler /\ At(f, "idle") /\ what \in host.calls[f]
  /\ forked => f = Base

\* install() and teardown() hold the lock from their first step to their last.
LockFree(f) == \A g \in Frames : op[g] \in {"init", "close"} /\ pc[g] # "lock" => g[1] = f[1]

Add(n, items) == [s \in Spans |-> n[s] + Occurs(s, items)]
Without(q, s) == IF s \in ToSet(q) THEN RemoveAt(q, CHOOSE n \in DOMAIN q : q[n] = s) ELSE q

\* How many more spans a buffer takes.
Fits(c)        == IF Len(buffer[c]) < MaxBuffer THEN MaxBuffer - Len(buffer[c]) ELSE 0

\* capture_span: refused by a closed client, and else at the oldest's expense.
Capture(c, items) ==
  LET all  == buffer[c] \o items
      over == IF Len(all) > MaxBuffer THEN Len(all) - MaxBuffer ELSE 0
  IN  IF c \in closed
      THEN counted' = Add(counted, items) /\ UNCHANGED buffer
      ELSE /\ buffer' = [buffer EXCEPT ![c] = SubSeq(all, over + 1, Len(all))]
           /\ counted' = Add(counted, SubSeq(all, 1, over))

\* _drain: all of the buffer goes, or the export slot is not to be had in time.
Drain(c) ==
  \/ /\ buffer' = [buffer EXCEPT ![c] = <<>>]
     /\ shipped' = Add(shipped, buffer[c])
  \/ UNCHANGED <<buffer, shipped>>

-----------------------------------------------------------------------------
(* Blocks.                                                                  *)

\* track_open_span: a full table turns the new span away, never the oldest.
Open(f, s) ==
  /\ MayCall(f, "open") /\ s \in host.spans
  /\ block[s] = "new" /\ \A r \in host.spans : r < s => block[r] # "new"
  /\ block' = [block EXCEPT ![s] = "open"]
  /\ IF Len(open) >= MaxOpen
     THEN elsewhere' = elsewhere \cup {s} /\ UNCHANGED open
     ELSE open' = Append(open, s) /\ UNCHANGED elsewhere
  /\ UNCHANGED <<clients, buffer, in_flight, pc, calls, process, shipped, counted, ghosts>>

\* The end of a block finds the client first and takes the span out later.  It
\* may be the child's copy of a block, if the fork was inside it.
End(f, s) ==
  /\ MayCall(f, "end") /\ block[s] = "open"
  /\ block' = [block EXCEPT ![s] = IF s \in parents THEN "copied" ELSE "ended"]
  /\ using' = Put(using, f, client) /\ keys' = Put(keys, f, <<s>>)
  /\ Goto(f, "ended") /\ op' = Put(op, f, "end")
  /\ UNCHANGED <<clients, buffer, open, in_flight, elsewhere, chunk, process, shipped, counted,
                 ghosts>>

\* A span that is not where it was put any more, a shutdown took.
TakesAny(s)     == TRUE
Takes(s)        == s \in ToSet(open) \cup elsewhere

EndPop(f) ==
  /\ At(f, "ended")
  /\ LET s == Head(keys[f])
     IN  /\ open' = Without(open, s) /\ elsewhere' = elsewhere \ {s}
         /\ chunk' = Put(chunk, f, IF Takes(s) THEN <<s>> ELSE <<>>)
  /\ keys' = Put(keys, f, <<>>)
  /\ Goto(f, "emit")
  /\ UNCHANGED <<clients, buffer, in_flight, block, op, using, process, shipped, counted, ghosts>>

Emit(f) ==
  /\ At(f, "emit")
  /\ Capture(using[f], chunk[f])
  /\ chunk' = Put(chunk, f, <<>>)
  /\ Return(f)
  /\ UNCHANGED <<clients, blocks, using, keys, process, shipped, ghosts>>

-----------------------------------------------------------------------------
(* interrupt_open_spans, for close() and for a signal the process dies of.  *)

Signalled(f) == f = Handler
After(f)     == IF Signalled(f) THEN "flush" ELSE "shut"

Begin(f) ==
  /\ At(f, "begin")
  /\ Goto(f, IF using[f] \in closed THEN After(f) ELSE "interrupt")
  /\ due' = IF Signalled(f) /\ using[f] \notin closed THEN ToSet(open) ELSE due
  /\ UNCHANGED <<clients, buffer, blocks, calls, process, shipped, counted, unwound, cut,
                 parents>>

\* The oldest keys for which there is room, a chunk of them at most.
NextKeys(room) == SubSeq(open, 1, Min({room, Chunk, Len(open)}))

\* _make_room drains a full buffer if time is left; with no room the loop ends.
Interrupt(f) ==
  /\ At(f, "interrupt")
  /\ \/ /\ open = <<>>
        /\ Goto(f, "sweep") /\ UNCHANGED <<buffer, shipped, keys>>
     \/ /\ open # <<>> /\ Fits(using[f]) > 0
        /\ keys' = Put(keys, f, NextKeys(Fits(using[f])))
        /\ Goto(f, "pop") /\ UNCHANGED <<buffer, shipped>>
     \/ /\ open # <<>> /\ Fits(using[f]) = 0
        /\ Drain(using[f]) /\ UNCHANGED keys
        /\ Goto(f, IF buffer' = buffer THEN "sweep" ELSE "interrupt")
  /\ UNCHANGED <<clients, blocks, op, using, chunk, process, counted, ghosts>>

\* One `table.pop` after the other, each of which a block's end may have beaten:
\* to ship the spans, and in the end to count what is left.
Pop(f, label, next) ==
  /\ At(f, label)
  /\ IF keys[f] = <<>>
     THEN Goto(f, next) /\ UNCHANGED <<open, keys, chunk>>
     ELSE LET s == Head(keys[f])
          IN  /\ open' = Without(open, s)
              /\ chunk' = [chunk EXCEPT ![f] = IF s \in ToSet(open) THEN Append(@, s) ELSE @]
              /\ keys' = Put(keys, f, Tail(keys[f]))
              /\ UNCHANGED pc
  /\ UNCHANGED <<clients, buffer, in_flight, block, elsewhere, op, using, process, shipped, counted,
                 ghosts>>

PopKey(f) == Pop(f, "pop", "count")

CountChunk(f) ==
  /\ At(f, "count")
  /\ in_flight' = in_flight + Len(chunk[f])
  /\ Goto(f, "buffer")
  /\ UNCHANGED <<clients, buffer, open, block, elsewhere, calls, process, shipped, counted, ghosts>>

\* _return_to_buffer: into the room there is, in front, the oldest of the chunk
\* first.  What does not fit is counted; a client closed meanwhile takes nothing.
EvictingBuffer(f) ==
  /\ At(f, "buffer")
  /\ Capture(using[f], chunk[f])
  /\ cut' = cut \cup ToSet(chunk[f])
  /\ Goto(f, IF using[f] \in closed THEN "refused" ELSE "uncount")
  /\ UNCHANGED <<clients, blocks, calls, process, shipped, unwound, due, parents>>

BufferChunk(f) ==
  /\ At(f, "buffer")
  /\ LET c    == using[f]
         kept == SubSeq(chunk[f], 1, Min({Fits(c), Len(chunk[f])}))
         over == SubSeq(chunk[f], Len(kept) + 1, Len(chunk[f]))
     IN  IF c \in closed
         THEN Goto(f, "refused") /\ UNCHANGED <<buffer, counted, cut>>
         ELSE /\ buffer' = [buffer EXCEPT ![c] = kept \o @]
              /\ counted' = Add(counted, over)
              /\ cut' = cut \cup ToSet(kept)
              /\ Goto(f, "uncount")
  /\ UNCHANGED <<clients, blocks, calls, process, shipped, unwound, due, parents>>

\* The `finally`: the chunk is not in flight any more.  A chunk that was not
\* taken is counted next, and the loop ends.
Uncount(f) ==
  /\ Runs(f) /\ pc[f] \in {"uncount", "refused"}
  /\ in_flight' = in_flight - Len(chunk[f])
  /\ IF pc[f] = "uncount"
     THEN chunk' = Put(chunk, f, <<>>) /\ Goto(f, "interrupt")
     ELSE UNCHANGED chunk /\ Goto(f, "sweep")
  /\ UNCHANGED <<clients, buffer, open, block, elsewhere, op, using, keys, process, shipped, counted,
                 ghosts>>

\* What is left will not ship, and its block's end must not ship it either.
Sweep(f) ==
  /\ At(f, "sweep")
  /\ counted' = Add(counted, chunk[f])
  /\ chunk' = Put(chunk, f, <<>>) /\ keys' = Put(keys, f, open)
  /\ Goto(f, "sweeping")
  /\ UNCHANGED <<clients, buffer, blocks, op, using, process, shipped, ghosts>>

PopLeft(f) == Pop(f, "sweeping", "report")

\* Of one span, how much is in chunks that were taken and whose fate is open: in the
\* code, the number of all of them.
Midway      == {"buffer", "uncount", "refused"}
InFlight(s) == Total([g \in Frames |-> IF pc[g] \in Midway THEN Occurs(s, chunk[g]) ELSE 0])

\* A handler also counts the chunk that a close() took and has not buffered.
Report(f) ==
  /\ At(f, "report")
  /\ counted' = [s \in Spans |-> counted[s] + Occurs(s, chunk[f]) + (IF Signalled(f) THEN InFlight(s) ELSE 0)]
  /\ chunk' = Put(chunk, f, <<>>)
  /\ Goto(f, After(f))
  /\ UNCHANGED <<clients, buffer, blocks, op, using, keys, process, shipped, ghosts>>

-----------------------------------------------------------------------------
(* close(), and an init() that replaces a client.                           *)

Call(f, what) ==
  /\ MayCall(f, what)
  /\ what = "init" => client + Cardinality({g \in Frames : op[g] = "init"}) < MaxClients
  /\ op' = Put(op, f, what) /\ Goto(f, "lock")
  /\ UNCHANGED <<clients, buffer, blocks, using, keys, chunk, process, shipped, counted, ghosts>>

\* Only close() interrupts: a re-init leaves the program, and its blocks, running.
Interrupts(what) == what = "close"

Enter(f) ==
  /\ At(f, "lock") /\ LockFree(f)
  /\ using' = Put(using, f, client)
  /\ Goto(f, IF Interrupts(op[f]) THEN "begin" ELSE "shut")
  /\ UNCHANGED <<clients, buffer, blocks, op, keys, chunk, process, shipped, counted, ghosts>>

\* Client.close: a final drain, and what it cannot send is counted.
Shut(f) ==
  /\ At(f, "shut")
  /\ LET c == using[f]
     IN  /\ closed' = closed \cup {c}
         /\ buffer' = [buffer EXCEPT ![c] = <<>>]
         /\ \/ shipped' = Add(shipped, buffer[c]) /\ UNCHANGED counted
            \/ counted' = Add(counted, buffer[c]) /\ UNCHANGED shipped
  /\ IF op[f] = "init" THEN Goto(f, "set") /\ UNCHANGED op ELSE Return(f)
  /\ UNCHANGED <<client, blocks, using, keys, chunk, process, ghosts>>

SetClient(f) ==
  /\ At(f, "set")
  /\ client' = client + 1
  /\ Return(f)
  /\ UNCHANGED <<closed, buffer, blocks, using, keys, chunk, process, shipped, counted, ghosts>>

-----------------------------------------------------------------------------
(* Signals and forks.                                                       *)

Signal ==
  /\ ~dead /\ pc[Handler] = "idle" /\ signals < MaxSignals
  /\ signals' = signals + 1
  /\ Goto(Handler, "state") /\ op' = Put(op, Handler, "signal")
  /\ UNCHANGED <<clients, buffer, blocks, using, keys, chunk, dead, forked, host, shipped, counted,
                 ghosts>>

\* _signal_state only tries the lock, and reads the client whether it got it or not.
ReadsLocked(f) == LockFree(f)
Reads(f)       == TRUE

State ==
  /\ At(Handler, "state") /\ Reads(Handler)
  /\ using' = Put(using, Handler, client)
  /\ Goto(Handler, IF host.prev = "default" THEN "begin" ELSE "flush")
  /\ UNCHANGED <<clients, buffer, blocks, op, keys, chunk, process, shipped, counted, ghosts>>

\* The exception of a handler the host had ends the call it interrupted; the
\* `finally` of interrupt_open_spans runs, and the lock is released.
UnwindLeaves ==
  /\ pc' = [pc EXCEPT ![Handler] = "idle", ![Base] = "idle"]
  /\ op' = [op EXCEPT ![Handler] = Nothing, ![Base] = Nothing]
  /\ unwound' = IF pc[Base] = "uncount" THEN unwound ELSE unwound \cup ToSet(chunk[Base])
  /\ keys' = Put(keys, Base, <<>>) /\ chunk' = Put(chunk, Base, <<>>)
  /\ UNCHANGED in_flight

Unwind ==
  /\ pc' = [pc EXCEPT ![Handler] = "idle", ![Base] = "idle"]
  /\ op' = [op EXCEPT ![Handler] = Nothing, ![Base] = Nothing]
  /\ in_flight' = IF pc[Base] \in Midway
                  THEN in_flight - Len(chunk[Base]) ELSE in_flight
  /\ unwound' = IF pc[Base] = "uncount" THEN unwound ELSE unwound \cup ToSet(chunk[Base])
  /\ keys' = Put(keys, Base, <<>>) /\ chunk' = Put(chunk, Base, <<>>)

\* The flush, and then what the signal did before wardex.
Flush ==
  /\ At(Handler, "flush")
  /\ Drain(using[Handler])
  /\ \/ /\ host.prev = "default" /\ dead' = TRUE
        /\ UNCHANGED <<pc, op, keys, chunk, in_flight, unwound>>
     \/ /\ host.prev = "raises" /\ Unwind /\ UNCHANGED dead
     \/ /\ host.prev = "returns" /\ Return(Handler)
        /\ UNCHANGED <<dead, keys, chunk, in_flight, unwound>>
  /\ UNCHANGED <<clients, open, block, elsewhere, using, forked, signals, host, counted,
                 cut, due, parents>>

\* The child: the lock is new, the table and the buffer are empty, the other
\* thread is gone.  What was captured or open is the parent's to ship.
Reinit ==
  /\ open' = <<>> /\ in_flight' = 0
  /\ buffer' = [c \in Clients |-> IF c = client THEN <<>> ELSE buffer[c]]

Fork ==
  /\ MayCall(Base, "fork") /\ ~forked
  /\ forked' = TRUE
  /\ Reinit
  /\ elsewhere' = elsewhere \cup ToSet(open)
  /\ parents' = {s \in Spans : block[s] # "new"}
  /\ pc' = Put(pc, Beside, "idle") /\ op' = Put(op, Beside, Nothing)
  /\ keys' = Put(keys, Beside, <<>>) /\ chunk' = Put(chunk, Beside, <<>>)
  /\ shipped' = [s \in Spans |-> 0] /\ counted' = [s \in Spans |-> 0]
  /\ UNCHANGED <<clients, block, using, dead, signals, host, unwound, cut, due>>

-----------------------------------------------------------------------------

Interrupting(f) ==
  \/ Begin(f) \/ Interrupt(f) \/ PopKey(f) \/ CountChunk(f) \/ BufferChunk(f) \/ Uncount(f)
  \/ Sweep(f) \/ PopLeft(f) \/ Report(f)

Handling == Interrupting(Handler) \/ State \/ Flush

Next ==
  \/ \E f \in {Base, Beside} :
       \/ \E s \in Spans : Open(f, s) \/ End(f, s)
       \/ EndPop(f) \/ Emit(f)
       \/ \E what \in {"close", "init"} : Call(f, what)
       \/ Enter(f) \/ Interrupting(f) \/ Shut(f) \/ SetClient(f)
  \/ Signal \/ Handling \/ Fork

\* The main thread runs its handler; another thread may stand still, with the lock.
Fairness == WF_vars(Handling)

Spec == Init /\ [][Next]_vars /\ Fairness

-----------------------------------------------------------------------------
(* Properties.                                                              *)

Buffered == UNION {ToSet(buffer[c]) : c \in Clients}
Held(f)  == IF pc[f] = "uncount" THEN {} ELSE ToSet(chunk[f])

\* In how many places a span is: to be ended or taken, in a call's hands, in a
\* buffer, shipped, or counted.
Places(s) ==
  Cardinality({f \in Frames : s \in Held(f)}) + Cardinality({c \in Clients : s \in ToSet(buffer[c])})
    + (IF s \in ToSet(open) \cup elsewhere THEN 1 ELSE 0) + shipped[s] + counted[s]

\* Types and bounds: neither the table nor a buffer that takes spans back from it
\* grows past its bound, though both are read before they are written.
TypeOK ==
  /\ client \in Clients /\ closed \subseteq Clients
  /\ buffer \in [Clients -> Seq(Spans)] /\ \A c \in Clients : Len(buffer[c]) <= MaxBuffer
  /\ open \in Seq(Spans) /\ Len(open) <= MaxOpen
  /\ in_flight \in Nat /\ elsewhere \subseteq Spans
  /\ block \in [Spans -> {"new", "open", "ended", "copied"}]
  /\ pc \in [Frames -> Pcs] /\ op \in [Frames -> {Nothing, "end", "close", "init", "signal"}]
  /\ using \in [Frames -> Clients]
  /\ keys \in [Frames -> Seq(Spans)] /\ chunk \in [Frames -> Seq(Spans)]
  /\ {dead, forked} \subseteq BOOLEAN
  /\ shipped \in [Spans -> Nat] /\ counted \in [Spans -> Nat]
  /\ unwound \cup cut \cup due \cup parents \subseteq Spans
  /\ signals \in 0 .. MaxSignals /\ host \in Scenarios

\* Whoever takes the table's entry ships the span, exactly once (track_open_span):
\* no process has two copies of a span, whatever competes for it.
OneCopy ==
  \A s \in Spans : shipped[s] + Total([c \in Clients |-> Occurs(s, buffer[c])]) <= 1

\* While no signal comes, every block that was opened is in one place: still to
\* be ended or taken, in one call's hands, buffered, shipped, or counted as lost.
OnePlace ==
  signals = 0 => \A s \in Spans \ parents : block[s] # "new" => Places(s) = 1

\* What is said to be in flight is what calls hold, so that a shutdown signal
\* never counts as lost what no call has: through exceptions and forks too.
InFlightIsHeld == in_flight = Total([f \in Frames |-> IF pc[f] \in Midway THEN Len(chunk[f]) ELSE 0])

\* A process that dies of a signal leaves no span behind that was in the table when
\* its handler looked, with the client open: each was shipped or counted, or is in a buffer that would not drain,
\* or in the hands of the thread that stood beside the handler.
DueAreShipped ==
  dead => \A s \in due : s \in Buffered \cup Held(Beside) \/ shipped[s] + counted[s] > 0

\* Interrupting open spans costs no finished span: only a capture evicts, and only
\* the close itself gives up a buffer (interrupt_open_spans).
CostsNoFinished ==
  [][\A s \in Buffered \ cut : counted'[s] > counted[s] =>
        \E f \in Frames : pc[f] \in {"emit", "shut"} /\ pc'[f] # pc[f]]_vars

\* What close() leaves out is newer than all it ships, so that no span loses a
\* parent that was opened before it.
RootsFirst ==
  signals = 0 => \A f \in Frames : pc[f] = "sweep" => \A s \in ToSet(open), t \in cut : t < s

\* A fork's child ships and counts nothing that its parent does: neither the
\* parent's buffer, nor its open blocks, unless a copy of the block ends here.
ChildLeavesParents ==
  \A s \in parents :
    block[s] # "copied" => s \notin Buffered /\ shipped[s] + counted[s] = 0

\* A signal handler comes to its end, or the process does, even while another
\* thread stands still inside init() or close() with the lock.
HandlerEnds == pc[Handler] # "idle" ~> dead \/ pc[Handler] = "idle"

\* A block's end, close(), a signal and a fork compete for each entry of the table: the
\* span has one copy, is in one place while no signal comes, and a child's are its own.
Accounted ==
  /\ TypeOK
  /\ OneCopy
  /\ OnePlace
  /\ ChildLeavesParents

\* What a shutdown leaves behind is said: of the spans its handler saw each is shipped,
\* counted or still held, the count of those in flight is what calls hold, and what does
\* not fit is newer than what does.
DueAreSaid == DueAreShipped /\ InFlightIsHeld /\ RootsFirst

=============================================================================
